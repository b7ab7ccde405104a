----------------------------- MODULE SuiteProofs -----------------------------
(***************************************************************************)
(* For every set of executions, submissions and limits: what ACCEPTED      *)
(* means, who is blamed by the other verdicts, who holds a cgroup leaf,    *)
(* and what a case leaves behind.                                          *)
(***************************************************************************)
EXTENDS SuiteProperties, FiniteSetTheorems, TLAPS

USE SubmissionsAssumption, BoundsAssumption, LimitsAssumption, IsolationsAssumption

-----------------------------------------------------------------------------
(* Types: what the steps of an execution need of its own state.            *)

CallRecord ==
  [step : Steps, test : Nat, leased : BOOLEAN, seen : SandboxResult]

LeaderRecord ==
  [state : {"none", "new", "running", "ended"}, ending : Endings,
   cpu : Nat, mem : Nat, inLeaf : BOOLEAN, charged : BOOLEAN]

CaseResult == [status : CaseVerdicts, enforced : BOOLEAN]

ExecutionTypeOK ==
  /\ program \in Submissions
  /\ call \in [Executions -> CallRecord]
  /\ leader \in [Executions -> LeaderRecord]
  /\ cases \in [Executions -> Seq(CaseResult)]
  /\ outcome = [e \in Executions |-> outcome[e]]
  /\ faults \in Nat

-----------------------------------------------------------------------------
(* What is known of a program before its case is judged.                   *)

\* An execution that is under way is at one of the cases of the suite.
Active(e) == call[e].step \notin {"idle", "over", "crashed"}

InSuite(e) ==
  Active(e) \/ leader[e].state # "none" => call[e].test \in 1..Total

\* What the program takes in its leaf is held to memory.max.
Confined(e) == Does(call[e].test).mem <= MemoryLimit \/ Now(e) \in unconfined

\* The process has taken what the program takes, in its leaf or too early.
HasWorked(e) ==
  /\ leader[e].cpu = Does(call[e].test).cpu
  /\ Confined(e)

\* A process that ends with code 0 was neither killed nor short of time.
LeaderIsKnown(e) ==
  /\ leader[e].state # "none" => call[e].step \in {"launched", "waiting", "crashed"}
  /\ leader[e].state = "running" => HasWorked(e)
  /\ leader[e].state = "ended" /\ leader[e].ending = "zero" =>
       HasWorked(e) /\ Does(call[e].test).ends = "zero"

SeenIsKnown(e) ==
  call[e].step \in {"observed", "returned"} /\ call[e].seen.ending = "zero" =>
    /\ Does(call[e].test).ends = "zero"
    /\ isolation # "bwrap" => call[e].seen.cpu = Does(call[e].test).cpu
    /\ Confined(e)

Earned(e, t) ==
  /\ Does(t).ends = "zero"
  /\ Written(t) = "right"
  /\ cases[e][t].enforced =>
       /\ Does(t).cpu <= TimeLimit \/ isolation = "bwrap"
       /\ Does(t).mem <= MemoryLimit \/ <<e, t>> \in unconfined

IsAccepted(e, t) == cases[e][t].status = "ACCEPTED"

\* Cases are judged in order, and none after one that is not accepted.
CasesAreInOrder(e) ==
  /\ call[e].step = "idle" => cases[e] = << >> /\ call[e].test = 1
  /\ Active(e) /\ call[e].step # "judged" =>
       /\ Len(cases[e]) = call[e].test - 1
       /\ \A t \in 1..Len(cases[e]) : IsAccepted(e, t)
  /\ call[e].step = "judged" =>
       /\ Len(cases[e]) = call[e].test
       /\ \A t \in 1..(call[e].test - 1) : IsAccepted(e, t)
       /\ call[e].test = Total \/ ~IsAccepted(e, call[e].test)

CasesAreEarned(e) ==
  \A t \in DOMAIN cases[e] : IsAccepted(e, t) => Earned(e, t)

OutcomeIsEarned(e) ==
  outcome[e].status = "ACCEPTED" =>
    /\ call[e].step = "over"
    /\ Total > 0 /\ outcome[e].passed = Total
    /\ \A t \in 1..Total : Earned(e, t)

ExecutionIsSound(e) ==
  /\ InSuite(e) /\ LeaderIsKnown(e) /\ SeenIsKnown(e)
  /\ CasesAreInOrder(e) /\ CasesAreEarned(e) /\ OutcomeIsEarned(e)

EngineInvariant == ExecutionTypeOK /\ \A e \in Executions : ExecutionIsSound(e)

LEMMA InvariantImpliesEarned == EngineInvariant => AcceptedIsEarned
BY DEF EngineInvariant, ExecutionIsSound, OutcomeIsEarned, AcceptedIsEarned,
       Earned, Enforced

LEMMA EngineInitially == EngineInit => EngineInvariant
<1> SUFFICES ASSUME EngineInit PROVE EngineInvariant
  OBVIOUS
<1>1. ExecutionTypeOK
  BY DEF EngineInit, SandboxInit, ExecutionTypeOK, CallRecord, LeaderRecord,
         NoCall, NoLeader, NotSeen, Steps, SandboxResult, Endings
<1>2. ASSUME NEW e \in Executions PROVE ExecutionIsSound(e)
  BY DEF EngineInit, SandboxInit, NoCall, NoLeader, NoOutcome, Unrun, Active,
         ExecutionIsSound, InSuite, LeaderIsKnown, SeenIsKnown,
         CasesAreInOrder, CasesAreEarned, OutcomeIsEarned
<1>3. QED
  BY <1>1, <1>2 DEF EngineInvariant

\* Another record takes the place of one call's, and the other calls keep theirs.
LEMMA CallChanges ==
  ASSUME ExecutionTypeOK, NEW e \in Executions, NEW next \in CallRecord,
         call' = [call EXCEPT ![e] = next]
  PROVE  /\ call'[e] = next
         /\ \A x \in Executions \ {e} : call'[x] = call[x]
         /\ call' \in [Executions -> CallRecord]
<1>1. call \in [Executions -> CallRecord]
  BY DEF ExecutionTypeOK
<1>2. QED
  BY <1>1

\* A call moves to another step and keeps what it has.
LEMMA StepChanges ==
  ASSUME ExecutionTypeOK, NEW e \in Executions, NEW step \in Steps,
         call' = [call EXCEPT ![e].step = step]
  PROVE  /\ call'[e].step = step /\ call'[e].test = call[e].test
         /\ call'[e].seen = call[e].seen /\ call'[e].leased = call[e].leased
         /\ \A x \in Executions \ {e} : call'[x] = call[x]
         /\ call' \in [Executions -> CallRecord]
<1> DEFINE next == [call[e] EXCEPT !.step = step]
<1>1. call[e] \in CallRecord /\ call' = [call EXCEPT ![e] = next]
  BY DEF ExecutionTypeOK
<1>2. /\ next \in CallRecord /\ next.step = step /\ next.test = call[e].test
      /\ next.seen = call[e].seen /\ next.leased = call[e].leased
  BY <1>1 DEF CallRecord
<1> HIDE DEF next
<1>3. QED
  BY <1>1, <1>2, CallChanges

LEMMA TestsHaveTypes ==
  ASSUME ExecutionTypeOK
  PROVE  /\ Total \in Nat
         /\ \A t \in 1..Total : Does(t) \in Behaviour
BY DEF ExecutionTypeOK, Total, Does

\* A step of one execution leaves the others as they are; programs that ran
\* too early stay on record.
LEMMA StepIsLocal ==
  ASSUME EngineInvariant, ExecutionTypeOK', NEW e \in Executions,
         program' = program, isolation' = isolation,
         unconfined \subseteq unconfined',
         \A x \in Executions \ {e} :
           /\ call'[x] = call[x] /\ leader'[x] = leader[x]
           /\ cases'[x] = cases[x] /\ outcome'[x] = outcome[x],
         ExecutionIsSound(e)'
  PROVE  EngineInvariant'
<1>1. Total' = Total /\ \A t : Does(t)' = Does(t) /\ Written(t)' = Written(t)
  BY DEF Total, Does, Written
<1>2. ASSUME NEW x \in Executions \ {e} PROVE ExecutionIsSound(x)'
  <2>1. ExecutionIsSound(x)
    BY DEF EngineInvariant
  <2>2. /\ InSuite(x)' /\ CasesAreInOrder(x)'
    BY <1>1, <2>1 DEF ExecutionIsSound, InSuite, CasesAreInOrder, Active, IsAccepted
  <2>3. /\ LeaderIsKnown(x)' /\ SeenIsKnown(x)'
    BY <1>1, <2>1 DEF ExecutionIsSound, LeaderIsKnown, SeenIsKnown, HasWorked, Confined, Now
  <2>4. \A t : Earned(x, t) => Earned(x, t)'
    BY <1>1 DEF Earned
  <2>5. CasesAreEarned(x)' /\ OutcomeIsEarned(x)'
    BY <1>1, <2>1, <2>4 DEF ExecutionIsSound, CasesAreEarned, OutcomeIsEarned, IsAccepted
  <2>6. QED
    BY <2>2, <2>3, <2>5 DEF ExecutionIsSound
<1>3. QED
  BY <1>2 DEF EngineInvariant

-----------------------------------------------------------------------------
(* The steps of the host.                                                   *)

\* They leave the results alone, so the process and what was seen of it are
\* all there is to look at.
LEMMA HostStepIsSound ==
  ASSUME EngineInvariant, ExecutionTypeOK', NEW e \in Executions,
         program' = program, isolation' = isolation, UNCHANGED sessionVars,
         unconfined \subseteq unconfined',
         \A x \in Executions \ {e} : call'[x] = call[x] /\ leader'[x] = leader[x],
         call'[e].test = call[e].test,
         \/ call'[e].step = call[e].step
         \/ Active(e) /\ call'[e].step = "crashed"
         \/ /\ Active(e) /\ call[e].step # "judged"
            /\ Active(e)' /\ call'[e].step # "judged",
         leader'[e].state # "none" => Active(e) \/ leader[e].state # "none",
         LeaderIsKnown(e)', SeenIsKnown(e)'
  PROVE  EngineInvariant'
<1>1. Total' = Total /\ \A t : Does(t)' = Does(t) /\ Written(t)' = Written(t)
  BY DEF Total, Does, Written
<1>2. cases' = cases /\ outcome' = outcome
  BY DEF sessionVars
<1>3. ExecutionIsSound(e)
  BY DEF EngineInvariant
<1>4. InSuite(e)'
  BY <1>1, <1>3 DEF ExecutionIsSound, InSuite, Active
<1>5. CasesAreInOrder(e)'
  BY <1>1, <1>2, <1>3 DEF ExecutionIsSound, CasesAreInOrder, Active, IsAccepted
<1>6. \A t : Earned(e, t) => Earned(e, t)'
  BY <1>1, <1>2 DEF Earned
<1>7. CasesAreEarned(e)' /\ OutcomeIsEarned(e)'
  BY <1>1, <1>2, <1>3, <1>6
     DEF ExecutionIsSound, CasesAreEarned, OutcomeIsEarned, IsAccepted, Active
<1>8. ExecutionIsSound(e)'
  BY <1>4, <1>5, <1>7 DEF ExecutionIsSound
<1>9. QED
  BY <1>2, <1>8, StepIsLocal

LEMMA WorkIsSound ==
  ASSUME EngineInvariant, NEW e \in Executions, Work(e), UNCHANGED sessionVars
  PROVE  EngineInvariant'
<1> DEFINE p == Does(call[e].test)
           killed == leader[e].inLeaf /\ p.mem > MemoryLimit
           taken == IF killed THEN MemoryLimit ELSE p.mem
           worked == [leader[e] EXCEPT !.state = "running", !.cpu = p.cpu,
                                       !.mem = taken, !.charged = leader[e].inLeaf]
           new == IF killed
                  THEN [worked EXCEPT !.state = "ended", !.ending = Passed("signal")]
                  ELSE worked
<1>1. ExecutionIsSound(e) /\ ExecutionTypeOK /\ leader[e] \in LeaderRecord
  BY DEF EngineInvariant, ExecutionTypeOK
<1>2. /\ leader[e].state = "new" /\ call' = call /\ program' = program /\ isolation' = isolation
      /\ faults' = faults
      /\ unconfined' = IF leader[e].inLeaf THEN unconfined
                       ELSE unconfined \cup {Now(e)}
      /\ leader' = [leader EXCEPT ![e] = new]
  BY DEF Work, Dead
<1>3. p \in Behaviour
  BY <1>1, <1>2, TestsHaveTypes DEF ExecutionIsSound, InSuite
<1>4. p.cpu \in Nat /\ taken \in Nat /\ leader[e].inLeaf \in BOOLEAN
  BY <1>1, <1>3 DEF Behaviour, LeaderRecord
<1> HIDE DEF taken, killed, p
<1>5. /\ worked \in LeaderRecord /\ worked.state = "running"
      /\ worked.cpu = p.cpu /\ worked.mem = taken
      /\ worked.charged = leader[e].inLeaf
  BY <1>1, <1>4 DEF LeaderRecord
<1> HIDE DEF worked
<1>6. /\ new \in LeaderRecord
      /\ \/ ~killed /\ new = worked
         \/ new.state = "ended" /\ new.ending # "zero"
  <2>1. Passed("signal") \in Endings /\ Passed("signal") # "zero"
    BY DEF Passed, Endings
  <2>2. QED
    BY <1>5, <2>1 DEF LeaderRecord
<1> HIDE DEF new
<1>7. ExecutionTypeOK'
  BY <1>1, <1>2, <1>6 DEF ExecutionTypeOK, sessionVars
<1>8. leader'[e] = new /\ Now(e)' = Now(e) /\ Does(call[e].test)' = p
  BY <1>1, <1>2 DEF ExecutionTypeOK, Now, Does, p
<1>9. LeaderIsKnown(e)'
  <2>1. CASE new.state = "ended" /\ new.ending # "zero"
    BY <1>1, <1>2, <1>8, <2>1 DEF ExecutionIsSound, LeaderIsKnown
  <2>2. CASE ~killed /\ new = worked
    <3>1. p.mem <= MemoryLimit \/ Now(e) \in unconfined'
      BY <1>2, <1>3, <1>4, <2>2 DEF killed, Behaviour
    <3>2. Confined(e)'
      BY <1>8, <3>1 DEF Confined
    <3>3. QED
      BY <1>1, <1>2, <1>5, <1>8, <2>2, <3>2
         DEF ExecutionIsSound, LeaderIsKnown, HasWorked
  <2>3. QED
    BY <1>6, <2>1, <2>2
<1>10. SeenIsKnown(e)'
  BY <1>1, <1>2 DEF ExecutionIsSound, LeaderIsKnown, SeenIsKnown
<1>11. \A x \in Executions \ {e} : call'[x] = call[x] /\ leader'[x] = leader[x]
  BY <1>1, <1>2 DEF ExecutionTypeOK
<1>12. QED
  BY <1>2, <1>7, <1>9, <1>10, <1>11, HostStepIsSound

LEMMA ExitIsSound ==
  ASSUME EngineInvariant, NEW e \in Executions, Exit(e), UNCHANGED sessionVars
  PROVE  EngineInvariant'
<1> DEFINE p == Does(call[e].test)
           new == [leader[e] EXCEPT !.state = "ended", !.ending = Passed(p.ends)]
<1>1. ExecutionIsSound(e) /\ ExecutionTypeOK
  BY DEF EngineInvariant
<1>2. /\ leader[e].state = "running" /\ call' = call /\ program' = program /\ isolation' = isolation
      /\ faults' = faults /\ unconfined' = unconfined /\ p.ends # "never"
      /\ leader' = [leader EXCEPT ![e] = new]
  BY DEF Exit, Dead
<1>3. /\ Passed(p.ends) \in Endings
      /\ Passed(p.ends) = "zero" => p.ends = "zero"
  BY <1>1, <1>2, TestsHaveTypes
     DEF ExecutionIsSound, InSuite, Behaviour, Passed, Endings
<1>4. new \in LeaderRecord
  <2>1. leader[e] \in LeaderRecord
    BY <1>1 DEF ExecutionTypeOK
  <2>2. QED
    BY <1>3, <2>1 DEF LeaderRecord
<1>5. ExecutionTypeOK'
  BY <1>1, <1>2, <1>4 DEF ExecutionTypeOK, sessionVars
<1>6. /\ leader'[e].state = "ended" /\ leader'[e].ending = Passed(p.ends)
      /\ leader'[e].cpu = leader[e].cpu /\ leader'[e].mem = leader[e].mem
      /\ leader'[e].charged = leader[e].charged
      /\ Now(e)' = Now(e) /\ p' = p
  BY <1>1, <1>2 DEF ExecutionTypeOK, LeaderRecord, Now, Does
<1>7. LeaderIsKnown(e)'
  BY <1>1, <1>2, <1>3, <1>6 DEF ExecutionIsSound, LeaderIsKnown, HasWorked, Confined
<1>8. SeenIsKnown(e)'
  BY <1>1, <1>2, <1>6 DEF ExecutionIsSound, SeenIsKnown, Confined
<1>9. \A x \in Executions \ {e} : call'[x] = call[x] /\ leader'[x] = leader[x]
  BY <1>1, <1>2 DEF ExecutionTypeOK
<1>10. QED
  BY <1>2, <1>5, <1>7, <1>8, <1>9, HostStepIsSound

LEMMA JailFailsIsSound ==
  ASSUME EngineInvariant, NEW e \in Executions, JailFails(e), UNCHANGED sessionVars
  PROVE  EngineInvariant'
<1> DEFINE failed == [leader[e] EXCEPT !.state = "ended", !.ending = "nonzero"]
<1>1. ExecutionIsSound(e) /\ ExecutionTypeOK
  BY DEF EngineInvariant
<1>2. /\ call' = call /\ program' = program /\ isolation' = isolation
      /\ faults' = faults + 1 /\ unconfined' = unconfined
      /\ leader[e].state = "new" /\ leader' = [leader EXCEPT ![e] = failed]
  BY DEF JailFails, Dead, Fault
<1>3. leader[e] \in LeaderRecord
  BY <1>1 DEF ExecutionTypeOK
<1>4. failed \in LeaderRecord /\ failed.state = "ended" /\ failed.ending = "nonzero"
  BY <1>3 DEF LeaderRecord, Endings
<1> HIDE DEF failed
<1>5. ExecutionTypeOK'
  BY <1>1, <1>2, <1>4 DEF ExecutionTypeOK, sessionVars
<1>6. /\ leader'[e] = failed
      /\ \A x \in Executions \ {e} : call'[x] = call[x] /\ leader'[x] = leader[x]
  BY <1>1, <1>2 DEF ExecutionTypeOK
<1>7. LeaderIsKnown(e)'
  BY <1>1, <1>2, <1>4, <1>6 DEF ExecutionIsSound, LeaderIsKnown
<1>8. SeenIsKnown(e)'
  BY <1>1, <1>2 DEF ExecutionIsSound, SeenIsKnown, Confined, Now, Does
<1>9. QED
  BY <1>2, <1>5, <1>6, <1>7, <1>8, HostStepIsSound

\* A killed process ends with a signal, of which nothing has to be known.
LEMMA DeadlineKillsIsSound ==
  ASSUME EngineInvariant, NEW c \in Cases, DeadlineKills(c),
         UNCHANGED sessionVars
  PROVE  EngineInvariant'
<1> DEFINE e == c[1]
           killed == [leader[e] EXCEPT !.state = "ended", !.ending = "signal"]
<1>1. e \in Executions
  BY DEF Cases
<1>2. ExecutionIsSound(e) /\ ExecutionTypeOK
  BY <1>1 DEF EngineInvariant
<1>3. /\ call' = call /\ program' = program /\ faults' = faults /\ isolation' = isolation
      /\ unconfined' = unconfined
      /\ \/ leader' = leader
         \/ Alive(e) /\ leader' = [leader EXCEPT ![e] = killed]
  BY DEF DeadlineKills, Dead
<1> HIDE DEF e
<1>4. leader[e] \in LeaderRecord
  BY <1>1, <1>2 DEF ExecutionTypeOK
<1>5. killed \in LeaderRecord /\ killed.state = "ended" /\ killed.ending = "signal"
  BY <1>4 DEF LeaderRecord, Endings
<1> HIDE DEF killed
<1>6. ExecutionTypeOK'
  BY <1>2, <1>3, <1>5 DEF ExecutionTypeOK, sessionVars
<1>7. /\ \A x \in Executions \ {e} : call'[x] = call[x] /\ leader'[x] = leader[x]
      /\ \/ leader'[e] = leader[e]
         \/ leader'[e] = killed /\ leader[e].state # "none"
  BY <1>1, <1>2, <1>3 DEF ExecutionTypeOK, Alive
<1>8. Does(call[e].test)' = Does(call[e].test) /\ Now(e)' = Now(e)
  BY <1>3 DEF Does, Now
<1>9. LeaderIsKnown(e)'
  BY <1>2, <1>3, <1>5, <1>7, <1>8 DEF ExecutionIsSound, LeaderIsKnown, HasWorked, Confined
<1>10. SeenIsKnown(e)'
  BY <1>2, <1>3, <1>8 DEF ExecutionIsSound, SeenIsKnown, Confined
<1>11. QED
  BY <1>1, <1>3, <1>6, <1>7, <1>9, <1>10, HostStepIsSound

LEMMA AllocateIsSound ==
  ASSUME EngineInvariant, NEW e \in Executions, Allocate(e), UNCHANGED sessionVars
  PROVE  EngineInvariant'
<1>1. ExecutionIsSound(e) /\ ExecutionTypeOK
  BY DEF EngineInvariant
<1>2. /\ call[e].step = "called" /\ leader' = leader /\ program' = program /\ isolation' = isolation
      /\ unconfined' = unconfined
  BY DEF Allocate
<1>3. PICK leased \in BOOLEAN :
        call' = [call EXCEPT ![e].step = "allocated", ![e].leased = leased]
  BY DEF Allocate
<1>4. faults' \in Nat
  BY <1>1 DEF Allocate, Sound, Fault, ExecutionTypeOK
<1>5. /\ call'[e].step = "allocated" /\ call'[e].test = call[e].test
      /\ \A x \in Executions \ {e} : call'[x] = call[x]
      /\ call' \in [Executions -> CallRecord]
  <2> DEFINE next == [call[e] EXCEPT !.step = "allocated", !.leased = leased]
  <2>1. call[e] \in CallRecord /\ call' = [call EXCEPT ![e] = next]
    BY <1>1, <1>3 DEF ExecutionTypeOK
  <2>2. /\ next \in CallRecord /\ next.step = "allocated"
        /\ next.test = call[e].test
    BY <2>1 DEF CallRecord, Steps
  <2> HIDE DEF next
  <2>3. QED
    BY <1>1, <2>1, <2>2, CallChanges
<1>6. ExecutionTypeOK'
  BY <1>1, <1>2, <1>4, <1>5 DEF ExecutionTypeOK, sessionVars
<1>7. leader[e].state = "none"
  BY <1>1, <1>2 DEF ExecutionIsSound, LeaderIsKnown
<1>8. LeaderIsKnown(e)' /\ SeenIsKnown(e)'
  BY <1>2, <1>5, <1>7 DEF LeaderIsKnown, SeenIsKnown
<1>9. QED
  BY <1>2, <1>5, <1>6, <1>7, <1>8, HostStepIsSound DEF Active

LEMMA LaunchIsSound ==
  ASSUME EngineInvariant, NEW e \in Executions, Launch(e), UNCHANGED sessionVars
  PROVE  EngineInvariant'
<1>1. ExecutionIsSound(e) /\ ExecutionTypeOK
  BY DEF EngineInvariant
<1>2. /\ call[e].step = "allocated" /\ program' = program /\ isolation' = isolation
      /\ unconfined' = unconfined
      /\ \/ /\ leader' = [leader EXCEPT ![e] = [NoLeader EXCEPT !.state = "new"]]
            /\ call' = [call EXCEPT ![e].step = "launched"]
         \/ /\ leader' = leader
            /\ call' = [call EXCEPT ![e].step = "failed"]
  BY DEF Launch
<1>3. faults' \in Nat
  BY <1>1 DEF Launch, Sound, Fault, ExecutionTypeOK
<1>4. leader[e].state = "none"
  BY <1>1, <1>2 DEF ExecutionIsSound, LeaderIsKnown
<1>5. PICK step \in {"launched", "failed"} :
        /\ call' = [call EXCEPT ![e].step = step]
        /\ \/ step = "failed" /\ leader' = leader
           \/ /\ step = "launched"
              /\ leader' = [leader EXCEPT ![e] = [NoLeader EXCEPT !.state = "new"]]
  BY <1>2
<1>6. /\ call'[e].step = step /\ call'[e].test = call[e].test
      /\ \A x \in Executions \ {e} : call'[x] = call[x]
      /\ call' \in [Executions -> CallRecord]
  <2>1. step \in Steps
    BY DEF Steps
  <2>2. QED
    BY <1>1, <1>5, <2>1, StepChanges
<1>7. /\ [NoLeader EXCEPT !.state = "new"] \in LeaderRecord
      /\ [NoLeader EXCEPT !.state = "new"].state = "new"
  BY DEF NoLeader, LeaderRecord, Endings
<1>8. /\ leader' \in [Executions -> LeaderRecord]
      /\ \A x \in Executions \ {e} : leader'[x] = leader[x]
      /\ \/ leader'[e].state = "none"
         \/ leader'[e].state = "new" /\ step = "launched"
  <2> DEFINE new == [NoLeader EXCEPT !.state = "new"]
  <2> HIDE DEF new
  <2>1. CASE leader' = leader
    BY <1>1, <1>4, <2>1 DEF ExecutionTypeOK
  <2>2. CASE step = "launched" /\ leader' = [leader EXCEPT ![e] = new]
    BY <1>1, <1>7, <2>2 DEF ExecutionTypeOK, new
  <2>3. QED
    BY <1>5, <2>1, <2>2 DEF new
<1>9. ExecutionTypeOK'
  BY <1>1, <1>2, <1>3, <1>6, <1>8 DEF ExecutionTypeOK, sessionVars
<1>10. LeaderIsKnown(e)'
  <2>1. CASE leader'[e].state = "none"
    BY <2>1 DEF LeaderIsKnown
  <2>2. CASE leader'[e].state = "new" /\ step = "launched"
    BY <1>6, <2>2 DEF LeaderIsKnown
  <2>3. QED
    BY <1>8, <2>1, <2>2
<1>11. SeenIsKnown(e)'
  BY <1>5, <1>6 DEF SeenIsKnown
<1>12. QED
  BY <1>2, <1>5, <1>6, <1>8, <1>9, <1>11, <1>10, HostStepIsSound DEF Active

\* Attaching only decides where the process is from now on.
LEMMA AttachIsSound ==
  ASSUME EngineInvariant, NEW e \in Executions, Attach(e), UNCHANGED sessionVars
  PROVE  EngineInvariant'
<1>1. ExecutionIsSound(e) /\ ExecutionTypeOK
  BY DEF EngineInvariant
<1>2. /\ call[e].step = "launched" /\ program' = program /\ isolation' = isolation
      /\ unconfined' = unconfined
  BY DEF Attach
<1>3. PICK enforced \in BOOLEAN :
        /\ call' = [call EXCEPT ![e].step = "waiting",
                      ![e].seen = [NotSeen EXCEPT !.enforced = enforced]]
        /\ leader' = [leader EXCEPT ![e].inLeaf = enforced /\ Alive(e)]
  BY DEF Attach
<1>4. faults' \in Nat
  BY <1>1 DEF Attach, Sound, Fault, ExecutionTypeOK
<1>5. [NotSeen EXCEPT !.enforced = enforced] \in SandboxResult
  BY DEF NotSeen, SandboxResult, Endings
<1>6. /\ call'[e].step = "waiting" /\ call'[e].test = call[e].test
      /\ \A x \in Executions \ {e} : call'[x] = call[x]
      /\ call' \in [Executions -> CallRecord]
  <2> DEFINE seen == [NotSeen EXCEPT !.enforced = enforced]
             next == [call[e] EXCEPT !.step = "waiting", !.seen = seen]
  <2>1. call' = [call EXCEPT ![e].step = "waiting", ![e].seen = seen]
    BY <1>3
  <2>2. seen \in SandboxResult
    BY <1>5
  <2> HIDE DEF seen
  <2>3. call[e] \in CallRecord /\ call' = [call EXCEPT ![e] = next]
    BY <1>1, <2>1 DEF ExecutionTypeOK
  <2>4. /\ next \in CallRecord /\ next.step = "waiting"
        /\ next.test = call[e].test
    BY <2>2, <2>3 DEF CallRecord, Steps
  <2> HIDE DEF next
  <2>5. QED
    BY <1>1, <2>3, <2>4, CallChanges
<1>7. (enforced /\ Alive(e)) \in BOOLEAN
  BY DEF Alive
<1>8. leader' \in [Executions -> LeaderRecord]
  <2> DEFINE moved == [leader[e] EXCEPT !.inLeaf = enforced /\ Alive(e)]
  <2>1. /\ leader \in [Executions -> LeaderRecord]
        /\ leader' = [leader EXCEPT ![e] = moved]
    BY <1>1, <1>3 DEF ExecutionTypeOK
  <2>2. moved \in LeaderRecord
    BY <1>7, <2>1 DEF LeaderRecord
  <2> HIDE DEF moved
  <2>3. QED
    BY <2>1, <2>2
<1>9. /\ \A x \in Executions \ {e} : leader'[x] = leader[x]
      /\ leader'[e].state = leader[e].state /\ leader'[e].ending = leader[e].ending
      /\ leader'[e].cpu = leader[e].cpu /\ leader'[e].mem = leader[e].mem
      /\ leader'[e].charged = leader[e].charged
  BY <1>1, <1>3 DEF ExecutionTypeOK, LeaderRecord
<1>10. ExecutionTypeOK'
  BY <1>1, <1>2, <1>4, <1>6, <1>8 DEF ExecutionTypeOK, sessionVars
<1>11. Does(call[e].test)' = Does(call[e].test) /\ Now(e)' = Now(e)
  BY <1>2, <1>6 DEF Does, Now
<1>12. LeaderIsKnown(e)' /\ SeenIsKnown(e)'
  BY <1>1, <1>2, <1>6, <1>9, <1>11
     DEF ExecutionIsSound, LeaderIsKnown, SeenIsKnown, HasWorked, Confined
<1>13. QED
  BY <1>2, <1>6, <1>9, <1>10, <1>12, HostStepIsSound DEF Active

\* What the observer may report: the CPU time of the process or, through bwrap,
\* none, and no more memory than it took.
LEMMA ObserveSees ==
  ASSUME NEW e \in Executions, Observe(e)
  PROVE  \E cpu \in {0, leader[e].cpu}, mem \in {0, leader[e].mem} :
           /\ isolation # "bwrap" => cpu = leader[e].cpu
           /\ call' = [call EXCEPT ![e].step = "observed",
                         ![e].seen = [@ EXCEPT !.ending = leader[e].ending,
                                               !.cpu = cpu, !.mem = mem,
                                               !.byWall = Fired(Now(e))]]
<1> DEFINE peaks == {IF leader[e].charged THEN leader[e].mem ELSE 0}
           saw(mems) ==
             \E cpu \in Counted(leader[e].cpu) : \E mem \in mems :
               call' = [call EXCEPT ![e].step = "observed",
                          ![e].seen = [@ EXCEPT !.ending = leader[e].ending,
                                                !.cpu = cpu, !.mem = mem,
                                                !.byWall = Fired(Now(e))]]
<1>1. saw(peaks) \/ saw(Counted(leader[e].mem))
  BY DEF Observe
<1>2. /\ peaks \subseteq {0, leader[e].mem}
      /\ Counted(leader[e].mem) \subseteq {0, leader[e].mem}
      /\ Counted(leader[e].cpu) \subseteq {0, leader[e].cpu}
      /\ isolation # "bwrap" => Counted(leader[e].cpu) = {leader[e].cpu}
  BY DEF Counted
<1>3. QED
  BY <1>1, <1>2

\* What wait4 and the leaf report is what the process was.
LEMMA ObserveIsSound ==
  ASSUME EngineInvariant, NEW e \in Executions, Observe(e), UNCHANGED sessionVars
  PROVE  EngineInvariant'
<1>1. ExecutionIsSound(e) /\ ExecutionTypeOK
  BY DEF EngineInvariant
<1>2. /\ call[e].step = "waiting" /\ leader[e].state = "ended"
      /\ program' = program /\ isolation' = isolation /\ unconfined' = unconfined
      /\ leader' = [leader EXCEPT ![e] = NoLeader]
  BY DEF Observe
<1>3. call[e] \in CallRecord /\ leader[e] \in LeaderRecord /\ faults' \in Nat
  <2>1. Sound \/ Fault
    BY DEF Observe
  <2>2. QED
    BY <1>1, <2>1 DEF ExecutionTypeOK, Sound, Fault
<1>4. PICK cpu \in Nat, mem \in Nat, fired \in BOOLEAN :
        /\ call' = [call EXCEPT ![e].step = "observed",
                      ![e].seen = [@ EXCEPT !.ending = leader[e].ending,
                                            !.cpu = cpu, !.mem = mem,
                                            !.byWall = fired]]
        /\ isolation # "bwrap" => cpu = leader[e].cpu
  <2>1. leader[e].cpu \in Nat /\ leader[e].mem \in Nat /\ 0 \in Nat
    BY <1>3 DEF LeaderRecord
  <2>2. Fired(Now(e)) \in BOOLEAN
    BY DEF Fired
  <2>3. PICK taken \in {0, leader[e].cpu}, mem \in {0, leader[e].mem} :
          /\ isolation # "bwrap" => taken = leader[e].cpu
          /\ call' = [call EXCEPT ![e].step = "observed",
                        ![e].seen = [@ EXCEPT !.ending = leader[e].ending,
                                              !.cpu = taken, !.mem = mem,
                                              !.byWall = Fired(Now(e))]]
    BY ObserveSees
  <2>4. taken \in Nat /\ mem \in Nat
    BY <2>1, <2>3
  <2>5. QED
    BY <2>2, <2>3, <2>4
<1>5. leader[e].ending \in Endings
      /\ call[e].seen \in SandboxResult
  BY <1>3 DEF LeaderRecord, CallRecord
<1> DEFINE seen == [call[e].seen EXCEPT !.ending = leader[e].ending,
                      !.cpu = cpu, !.mem = mem, !.byWall = fired]
<1>6. /\ seen \in SandboxResult /\ seen.ending = leader[e].ending
      /\ seen.cpu = cpu
  BY <1>5 DEF SandboxResult
<1>7. call' = [call EXCEPT ![e].step = "observed", ![e].seen = seen]
  BY <1>1, <1>4 DEF ExecutionTypeOK, CallRecord
<1> HIDE DEF seen
<1>8. /\ call'[e].step = "observed" /\ call'[e].test = call[e].test
      /\ call'[e].seen = seen
      /\ \A x \in Executions \ {e} : call'[x] = call[x]
      /\ call' \in [Executions -> CallRecord]
  <2> DEFINE next == [call[e] EXCEPT !.step = "observed", !.seen = seen]
  <2>1. /\ next \in CallRecord /\ next.step = "observed"
        /\ next.test = call[e].test /\ next.seen = seen
    BY <1>3, <1>6 DEF CallRecord, Steps
  <2>2. call' = [call EXCEPT ![e] = next]
    BY <1>1, <1>7 DEF ExecutionTypeOK
  <2> HIDE DEF next
  <2>3. QED
    BY <1>1, <2>1, <2>2, CallChanges
<1>9. NoLeader \in LeaderRecord /\ NoLeader.state = "none"
  BY DEF NoLeader, LeaderRecord, Endings
<1>10. /\ leader' \in [Executions -> LeaderRecord] /\ leader'[e] = NoLeader
       /\ \A x \in Executions \ {e} : leader'[x] = leader[x]
  BY <1>1, <1>2, <1>9 DEF ExecutionTypeOK
<1>11. ExecutionTypeOK'
  BY <1>1, <1>2, <1>3, <1>8, <1>10 DEF ExecutionTypeOK, sessionVars
<1>12. Does(call[e].test)' = Does(call[e].test) /\ Now(e)' = Now(e)
  BY <1>2, <1>8 DEF Does, Now
<1>13. LeaderIsKnown(e)'
  BY <1>9, <1>10 DEF LeaderIsKnown
<1>14. SeenIsKnown(e)'
  BY <1>1, <1>2, <1>4, <1>6, <1>8, <1>12
     DEF ExecutionIsSound, LeaderIsKnown, HasWorked, SeenIsKnown, Confined
<1>15. QED
  BY <1>2, <1>8, <1>9, <1>10, <1>11, <1>13, <1>14, HostStepIsSound DEF Active

\* The error path takes the process away and what was seen of it with it.
LEMMA ObserveFailsIsSound ==
  ASSUME EngineInvariant, NEW e \in Executions, ObserveFails(e),
         UNCHANGED sessionVars
  PROVE  EngineInvariant'
<1>1. ExecutionIsSound(e) /\ ExecutionTypeOK
  BY DEF EngineInvariant
<1>2. /\ call[e].step \in {"launched", "waiting"}
      /\ call' = [call EXCEPT ![e].step = "failed"]
      /\ leader' = [leader EXCEPT ![e] = NoLeader] /\ faults' = faults + 1
      /\ program' = program /\ isolation' = isolation /\ unconfined' = unconfined
  BY DEF ObserveFails, Fault
<1>3. /\ call'[e].step = "failed" /\ call'[e].test = call[e].test
      /\ \A x \in Executions \ {e} : call'[x] = call[x]
      /\ call' \in [Executions -> CallRecord]
  <2>1. "failed" \in Steps
    BY DEF Steps
  <2>2. QED
    BY <1>1, <1>2, <2>1, StepChanges
<1>4. NoLeader \in LeaderRecord /\ NoLeader.state = "none"
  BY DEF NoLeader, LeaderRecord, Endings
<1>5. /\ leader' \in [Executions -> LeaderRecord] /\ leader'[e] = NoLeader
      /\ \A x \in Executions \ {e} : leader'[x] = leader[x]
  BY <1>1, <1>2, <1>4 DEF ExecutionTypeOK
<1>6. ExecutionTypeOK'
  BY <1>1, <1>2, <1>3, <1>5 DEF ExecutionTypeOK, sessionVars
<1>7. LeaderIsKnown(e)' /\ SeenIsKnown(e)'
  BY <1>3, <1>4, <1>5 DEF LeaderIsKnown, SeenIsKnown
<1>8. QED
  BY <1>2, <1>3, <1>4, <1>5, <1>6, <1>7, HostStepIsSound DEF Active

LEMMA ReleaseIsSound ==
  ASSUME EngineInvariant, NEW e \in Executions, Release(e), UNCHANGED sessionVars
  PROVE  EngineInvariant'
<1>1. ExecutionIsSound(e) /\ ExecutionTypeOK
  BY DEF EngineInvariant
<1>2. /\ call[e].step \in {"observed", "failed"} /\ leader' = leader
      /\ program' = program /\ isolation' = isolation /\ unconfined' = unconfined
  BY DEF Release
<1>3. PICK step \in {"raised", "returned"} :
        /\ call' = [call EXCEPT ![e].step = step]
        /\ step = "raised" <=> call[e].step = "failed"
  <2>1. call' = [call EXCEPT ![e].step = IF call[e].step = "failed" THEN "raised"
                                         ELSE "returned"]
    BY <1>1 DEF Release, ExecutionTypeOK, CallRecord
  <2>2. CASE call[e].step = "failed"
    BY <2>1, <2>2
  <2>3. CASE call[e].step # "failed"
    BY <2>1, <2>3
  <2>4. QED
    BY <2>2, <2>3
<1>4. faults' \in Nat
  BY <1>1 DEF Release, Sound, Fault, ExecutionTypeOK
<1>5. /\ call'[e].step = step /\ call'[e].test = call[e].test
      /\ call'[e].seen = call[e].seen
      /\ \A x \in Executions \ {e} : call'[x] = call[x]
      /\ call' \in [Executions -> CallRecord]
  <2>1. step \in Steps
    BY DEF Steps
  <2>2. QED
    BY <1>1, <1>3, <2>1, StepChanges
<1>6. ExecutionTypeOK'
  BY <1>1, <1>2, <1>4, <1>5 DEF ExecutionTypeOK, sessionVars
<1>7. leader[e].state = "none"
  BY <1>1, <1>2 DEF ExecutionIsSound, LeaderIsKnown
<1>8. Does(call[e].test)' = Does(call[e].test) /\ Now(e)' = Now(e)
  BY <1>2, <1>5 DEF Does, Now
<1>9. LeaderIsKnown(e)' /\ SeenIsKnown(e)'
  BY <1>1, <1>2, <1>3, <1>5, <1>7, <1>8
     DEF ExecutionIsSound, LeaderIsKnown, SeenIsKnown, Confined
<1>10. QED
  BY <1>2, <1>3, <1>5, <1>6, <1>7, <1>9, HostStepIsSound DEF Active

LEMMA CrashIsSound ==
  ASSUME EngineInvariant, NEW e \in Executions, Crash(e), UNCHANGED sessionVars
  PROVE  EngineInvariant'
<1>1. ExecutionIsSound(e) /\ ExecutionTypeOK
  BY DEF EngineInvariant
<1>2. /\ program' = program /\ isolation' = isolation
      /\ unconfined' = unconfined /\ faults' = faults + 1
      /\ call' = [call EXCEPT ![e].step = "crashed"]
  BY DEF Crash, Fault
<1>3. leader' = leader \/ leader' = [leader EXCEPT ![e] = NoLeader]
  BY DEF Crash
<1>4. NoLeader \in LeaderRecord /\ NoLeader.state = "none"
  BY DEF NoLeader, LeaderRecord, Endings
<1>5. /\ call'[e].step = "crashed" /\ call'[e].test = call[e].test
      /\ \A x \in Executions \ {e} : call'[x] = call[x]
      /\ call' \in [Executions -> CallRecord]
  <2>1. "crashed" \in Steps
    BY DEF Steps
  <2>2. QED
    BY <1>1, <1>2, <2>1, StepChanges
<1>6. /\ leader' \in [Executions -> LeaderRecord]
      /\ leader'[e] = leader[e] \/ leader'[e].state = "none"
      /\ \A x \in Executions \ {e} : leader'[x] = leader[x]
  BY <1>1, <1>4, <1>3 DEF ExecutionTypeOK
<1>7. ExecutionTypeOK'
  BY <1>1, <1>2, <1>5, <1>6 DEF ExecutionTypeOK, sessionVars
<1>8. Does(call[e].test)' = Does(call[e].test) /\ Now(e)' = Now(e)
  BY <1>2, <1>5 DEF Does, Now
<1>9. LeaderIsKnown(e)' /\ SeenIsKnown(e)'
  BY <1>1, <1>2, <1>5, <1>6, <1>8
     DEF ExecutionIsSound, LeaderIsKnown, SeenIsKnown, HasWorked, Confined
<1>10. Active(e)
  BY DEF Crash, Active
<1>11. QED
  BY <1>2, <1>5, <1>6, <1>7, <1>9, <1>10, HostStepIsSound

\* The timer alone changes.
LEMMA DeadlineSetsIsSound ==
  ASSUME EngineInvariant, NEW c \in Cases, DeadlineSets(c), UNCHANGED sessionVars
  PROVE  EngineInvariant'
<1>1. /\ call' = call /\ leader' = leader /\ program' = program /\ isolation' = isolation
      /\ faults' = faults /\ unconfined' = unconfined
      /\ cases' = cases /\ outcome' = outcome
  BY DEF DeadlineSets, sessionVars
<1>2. c[1] \in Executions
  BY DEF Cases
<1>3. ExecutionTypeOK'
  BY <1>1 DEF EngineInvariant, ExecutionTypeOK
<1>4. ExecutionIsSound(c[1])'
  <2>1. ExecutionIsSound(c[1])
    BY <1>2 DEF EngineInvariant
  <2>2. InSuite(c[1])' /\ LeaderIsKnown(c[1])' /\ SeenIsKnown(c[1])'
    BY <1>1, <2>1 DEF ExecutionIsSound, InSuite, LeaderIsKnown, SeenIsKnown,
       Active, HasWorked, Confined, Now, Does, Total
  <2>3. CasesAreInOrder(c[1])'
    BY <1>1, <2>1 DEF ExecutionIsSound, CasesAreInOrder, IsAccepted, Active, Total
  <2>4. CasesAreEarned(c[1])' /\ OutcomeIsEarned(c[1])'
    BY <1>1, <2>1 DEF ExecutionIsSound, CasesAreEarned, OutcomeIsEarned, Earned,
       IsAccepted, Does, Written, Total
  <2>5. QED
    BY <2>1, <2>2, <2>3, <2>4 DEF ExecutionIsSound
<1>5. QED
  BY <1>1, <1>2, <1>3, <1>4, StepIsLocal

-----------------------------------------------------------------------------
(* The steps of the session.                                               *)

\* They leave the processes and the record of what ran too early alone.
LEMMA SessionStepIsSound ==
  ASSUME EngineInvariant, ExecutionTypeOK', NEW e \in Executions,
         program' = program, isolation' = isolation, leader' = leader,
         unconfined' = unconfined,
         \A x \in Executions \ {e} :
           call'[x] = call[x] /\ cases'[x] = cases[x] /\ outcome'[x] = outcome[x],
         call[e].step \in {"idle", "returned", "raised", "judged"},
         call'[e].step \in {"called", "judged", "over"},
         Active(e)' => call'[e].test \in 1..Total,
         CasesAreInOrder(e)', CasesAreEarned(e)', OutcomeIsEarned(e)'
  PROVE  EngineInvariant'
<1>1. ExecutionIsSound(e)
  BY DEF EngineInvariant
<1>2. leader[e].state = "none"
  BY <1>1 DEF ExecutionIsSound, LeaderIsKnown
<1>3. LeaderIsKnown(e)' /\ SeenIsKnown(e)'
  BY <1>2 DEF LeaderIsKnown, SeenIsKnown
<1>4. InSuite(e)'
  BY <1>2 DEF InSuite, Total
<1>5. ExecutionIsSound(e)'
  BY <1>3, <1>4 DEF ExecutionIsSound
<1>6. QED
  BY <1>5, StepIsLocal

LEMMA StartIsSound ==
  ASSUME EngineInvariant, NEW e \in Executions, Start(e)
  PROVE  EngineInvariant'
<1>1. ExecutionIsSound(e) /\ ExecutionTypeOK
  BY DEF EngineInvariant
<1>2. /\ call[e].step = "idle" /\ leader' = leader /\ program' = program /\ isolation' = isolation
      /\ unconfined' = unconfined /\ cases' = cases
  BY DEF Start
<1>3. cases[e] = << >> /\ call[e].test = 1
  BY <1>1, <1>2 DEF ExecutionIsSound, CasesAreInOrder
<1>4. faults' \in Nat
  BY <1>1 DEF Start, Sound, Fault, ExecutionTypeOK
<1>5. PICK step \in {"called", "over"} :
        /\ call' = [call EXCEPT ![e].step = step]
        /\ \/ step = "called" /\ Total > 0 /\ outcome' = outcome
           \/ /\ step = "over"
              /\ \E result : /\ result.status # "ACCEPTED"
                             /\ outcome' = [outcome EXCEPT ![e] = result]
  <2>1. /\ \A total : /\ Unrun("INTERNAL_ERROR", total).status # "ACCEPTED"
                       /\ Unrun("COMPILATION_ERROR", total).status # "ACCEPTED"
        /\ Raised.status # "ACCEPTED"
    BY DEF Unrun, Raised
  <2>2. QED
    BY <2>1 DEF Start, Over
<1>6. /\ call'[e].step = step /\ call'[e].test = 1
      /\ \A x \in Executions \ {e} : call'[x] = call[x]
      /\ call' \in [Executions -> CallRecord]
  <2>1. step \in Steps
    BY DEF Steps
  <2>2. QED
    BY <1>1, <1>3, <1>5, <2>1, StepChanges
<1>7. /\ outcome' = [x \in Executions |-> outcome'[x]]
      /\ \A x \in Executions \ {e} : outcome'[x] = outcome[x]
      /\ outcome'[e] = outcome[e] \/ outcome'[e].status # "ACCEPTED"
  BY <1>1, <1>5 DEF ExecutionTypeOK
<1>8. ExecutionTypeOK'
  BY <1>1, <1>2, <1>4, <1>6, <1>7 DEF ExecutionTypeOK
<1>9. Active(e)' => call'[e].test \in 1..Total
  BY <1>1, <1>5, <1>6, TestsHaveTypes DEF Active
<1>10. CasesAreInOrder(e)'
  BY <1>2, <1>3, <1>5, <1>6 DEF CasesAreInOrder, Active
<1>11. CasesAreEarned(e)'
  BY <1>2, <1>3 DEF CasesAreEarned
<1>12. OutcomeIsEarned(e)'
  BY <1>1, <1>2, <1>7 DEF ExecutionIsSound, OutcomeIsEarned
<1>13. QED
  BY <1>2, <1>5, <1>6, <1>7, <1>8, <1>9, <1>10, <1>11, <1>12, SessionStepIsSound

\* An accepted case ended by itself within every budget that was enforced, and
\* its checker found the output right.
LEMMA AcceptedCase ==
  ASSUME NEW seen \in SandboxResult, NEW kind, NEW output, NEW works,
         CaseVerdict(seen, kind, output, works) = "ACCEPTED"
  PROVE  /\ seen.ending = "zero" /\ output = "right"
         /\ seen.enforced => seen.cpu <= TimeLimit /\ seen.mem <= MemoryLimit
<1>1. from_process(seen) = "OK"
  BY DEF CaseVerdict, from_process
<1>2. Accepts(kind, output, works)
  BY <1>1 DEF CaseVerdict
<1>3. output = "right"
  BY <1>2 DEF Accepts
<1>4. /\ seen.ending = "zero"
      /\ ~(seen.enforced /\ seen.cpu > TimeLimit)
      /\ ~(seen.enforced /\ seen.mem > MemoryLimit)
  BY <1>1 DEF from_process
<1>5. seen.cpu \in Nat /\ seen.mem \in Nat
  BY DEF SandboxResult
<1>6. QED
  BY <1>3, <1>4, <1>5

LEMMA CaseVerdictType ==
  ASSUME NEW seen, NEW kind, NEW output, NEW works
  PROVE  CaseVerdict(seen, kind, output, works) \in CaseVerdicts
BY DEF CaseVerdict, from_process, CaseVerdicts

LEMMA JudgeIsSound ==
  ASSUME EngineInvariant, NEW e \in Executions, Judge(e)
  PROVE  EngineInvariant'
<1> DEFINE c == call[e]
           result(verdict) == [status |-> verdict, enforced |-> c.seen.enforced]
<1>1. ExecutionIsSound(e) /\ ExecutionTypeOK
  BY DEF EngineInvariant
<1>2. /\ c.step \in {"returned", "raised"} /\ leader' = leader /\ program' = program /\ isolation' = isolation
      /\ unconfined' = unconfined /\ outcome' = outcome
  BY DEF Judge
<1>3. /\ c \in CallRecord /\ c.test \in 1..Total /\ Total \in Nat
      /\ cases[e] \in Seq(CaseResult) /\ Len(cases[e]) = c.test - 1
      /\ \A t \in 1..Len(cases[e]) : IsAccepted(e, t)
  BY <1>1, <1>2, TestsHaveTypes
     DEF ExecutionIsSound, ExecutionTypeOK, InSuite, CasesAreInOrder, Active
<1>4. PICK verdict \in MayGive(e, TRUE) \cup MayGive(e, FALSE) :
        /\ cases' = [cases EXCEPT ![e] = Append(cases[e], result(verdict))]
        /\ call' = [call EXCEPT ![e] =
                      IF verdict # "ACCEPTED" \/ c.test = Total
                      THEN [NoCall EXCEPT !.step = "judged", !.test = c.test]
                      ELSE [NoCall EXCEPT !.step = "called", !.test = c.test + 1]]
  BY DEF Judge
<1>5. faults' \in Nat
  BY <1>1 DEF Judge, Sound, Fault, ExecutionTypeOK
<1>6. c.seen \in SandboxResult /\ c.test \in Nat
  BY <1>3 DEF CallRecord
<1>7. verdict \in CaseVerdicts
  <2>1. "INTERNAL_ERROR" \in CaseVerdicts
    BY DEF CaseVerdicts
  <2>2. QED
    BY <2>1 DEF MayGive, CaseVerdict, from_process, CaseVerdicts
<1>8. verdict = "ACCEPTED" =>
        /\ c.step = "returned" /\ c.seen.ending = "zero"
        /\ Written(c.test) = "right"
        /\ c.seen.enforced => c.seen.cpu <= TimeLimit /\ c.seen.mem <= MemoryLimit
  <2>1. SUFFICES ASSUME verdict = "ACCEPTED"
                 PROVE  /\ c.step = "returned"
                        /\ \E works : CaseVerdict(c.seen, program.checker,
                                      Written(c.test), works) = "ACCEPTED"
    BY <1>6, AcceptedCase
  <2>2. c.step # "raised"
    BY <2>1 DEF MayGive
  <2>3. QED
    BY <1>2, <2>1, <2>2 DEF MayGive
<1> HIDE DEF c, result
<1>9. PICK n \in 1..Total : n = c.test
  BY <1>3
<1>10. result(verdict) \in CaseResult /\ result(verdict).status = verdict
      /\ result(verdict).enforced = c.seen.enforced
  BY <1>6, <1>7 DEF result, CaseResult, SandboxResult
<1>11. /\ cases' \in [Executions -> Seq(CaseResult)]
       /\ \A x \in Executions \ {e} : cases'[x] = cases[x]
       /\ Len(cases'[e]) = n /\ cases'[e][n] = result(verdict)
       /\ \A t \in 1..(n - 1) : cases'[e][t] = cases[e][t]
       /\ DOMAIN cases'[e] = 1..n
  <2>1. Append(cases[e], result(verdict)) \in Seq(CaseResult)
    BY <1>3, <1>10
  <2>2. cases'[e] = Append(cases[e], result(verdict))
    BY <1>1, <1>4 DEF ExecutionTypeOK
  <2>3. QED
    BY <1>1, <1>3, <1>4, <1>6, <1>9, <2>1, <2>2 DEF ExecutionTypeOK
<1>12. PICK step \in {"judged", "called"}, test \in Nat :
        /\ call' = [call EXCEPT ![e] = [NoCall EXCEPT !.step = step, !.test = test]]
        /\ \/ /\ step = "judged" /\ test = n
              /\ verdict # "ACCEPTED" \/ n = Total
           \/ /\ step = "called" /\ test = n + 1
              /\ verdict = "ACCEPTED" /\ n # Total
  <2>1. CASE verdict # "ACCEPTED" \/ n = Total
    <3>1. call' = [call EXCEPT ![e] = [NoCall EXCEPT !.step = "judged", !.test = n]]
      BY <1>4, <1>9, <2>1
    <3>2. QED
      BY <1>6, <1>9, <2>1, <3>1
  <2>2. CASE verdict = "ACCEPTED" /\ n # Total
    <3>1. call' = [call EXCEPT ![e] = [NoCall EXCEPT !.step = "called", !.test = n + 1]]
      BY <1>4, <1>9, <2>2
    <3>2. n + 1 \in Nat
      BY <1>6, <1>9
    <3>3. QED
      BY <2>2, <3>1, <3>2
  <2>3. QED
    BY <2>1, <2>2
<1>13. /\ [NoCall EXCEPT !.step = step, !.test = test] \in CallRecord
       /\ [NoCall EXCEPT !.step = step, !.test = test].step = step
       /\ [NoCall EXCEPT !.step = step, !.test = test].test = test
  BY DEF NoCall, NotSeen, CallRecord, Steps, SandboxResult, Endings
<1>14. /\ call'[e].step = step /\ call'[e].test = test
       /\ \A x \in Executions \ {e} : call'[x] = call[x]
       /\ call' \in [Executions -> CallRecord]
  BY <1>1, <1>12, <1>13 DEF ExecutionTypeOK
<1>15. ExecutionTypeOK'
  BY <1>1, <1>2, <1>5, <1>11, <1>14 DEF ExecutionTypeOK
<1>16. test \in 1..Total
  BY <1>3, <1>12, <1>9
<1>17. CasesAreInOrder(e)'
  <2>1. \A t \in 1..(n - 1) : IsAccepted(e, t)'
    BY <1>3, <1>6, <1>9, <1>11 DEF IsAccepted
  <2>2. IsAccepted(e, n)' <=> verdict = "ACCEPTED"
    BY <1>10, <1>11 DEF IsAccepted
  <2>3. Total' = Total
    BY <1>2 DEF Total
  <2>4. CASE step = "judged"
    BY <1>3, <1>6, <1>9, <1>11, <1>12, <1>14, <2>1, <2>2, <2>3, <2>4
       DEF CasesAreInOrder, Active
  <2>5. CASE step = "called"
    <3>1. /\ test = n + 1 /\ Len(cases'[e]) = test - 1
          /\ \A t \in 1..n : IsAccepted(e, t)'
      BY <1>6, <1>9, <1>11, <1>12, <2>1, <2>2, <2>5
    <3>2. QED
      BY <1>6, <1>9, <1>11, <1>14, <2>5, <3>1 DEF CasesAreInOrder, Active
  <2>6. QED
    BY <2>4, <2>5
<1>18. \A t : Does(t)' = Does(t) /\ Written(t)' = Written(t)
  BY <1>2 DEF Does, Written
<1>19. CasesAreEarned(e)'
  <2>1. SUFFICES ASSUME NEW t \in 1..n, IsAccepted(e, t)'
                 PROVE  Earned(e, t)'
    BY <1>11 DEF CasesAreEarned
  <2>2. CASE t # n
    <3>1. t \in 1..(n - 1) /\ t \in DOMAIN cases[e]
      BY <1>3, <1>6, <1>9, <2>2
    <3>2. Earned(e, t)
      BY <1>1, <1>11, <2>1, <3>1 DEF ExecutionIsSound, CasesAreEarned, IsAccepted
    <3>3. QED
      BY <1>2, <1>11, <1>18, <3>1, <3>2 DEF Earned
  <2>3. CASE t = n
    <3>1. verdict = "ACCEPTED"
      BY <1>10, <1>11, <2>1, <2>3 DEF IsAccepted
    <3>2. /\ Does(n).ends = "zero"
          /\ isolation # "bwrap" => c.seen.cpu = Does(n).cpu
          /\ Does(n).mem <= MemoryLimit \/ <<e, n>> \in unconfined
      BY <1>1, <1>8, <1>9, <3>1
         DEF ExecutionIsSound, SeenIsKnown, Confined, Now, c
    <3>3. QED
      BY <1>2, <1>8, <1>10, <1>11, <1>18, <1>9, <2>3, <3>1, <3>2 DEF Earned
  <2>4. QED
    BY <2>2, <2>3
<1>20. OutcomeIsEarned(e)'
  BY <1>1, <1>2 DEF ExecutionIsSound, OutcomeIsEarned, c
<1>21. QED
  BY <1>2, <1>11, <1>12, <1>14, <1>15, <1>16, <1>17, <1>19, <1>20,
     SessionStepIsSound DEF c

\* Only the last case of a suite can have been rejected, so an accepted result
\* counts every case.
LEMMA ReportIsSound ==
  ASSUME EngineInvariant, NEW e \in Executions, Report(e)
  PROVE  EngineInvariant'
<1>1. ExecutionIsSound(e) /\ ExecutionTypeOK
  BY DEF EngineInvariant
<1>2. /\ call[e].step = "judged" /\ leader' = leader /\ program' = program /\ isolation' = isolation
      /\ unconfined' = unconfined /\ faults' = faults /\ cases' = cases
  BY DEF Report
<1>3. PICK result \in {Summary(cases[e], Total), Raised} :
        /\ call' = [call EXCEPT ![e].step = "over"]
        /\ outcome' = [outcome EXCEPT ![e] = result]
  BY DEF Report, Over
<1>4. PICK n \in 1..Total : n = call[e].test
  BY <1>1, <1>2 DEF ExecutionIsSound, InSuite, Active
<1>5. /\ Len(cases[e]) = n /\ cases[e] \in Seq(CaseResult) /\ Total \in Nat
      /\ \A t \in 1..(n - 1) : IsAccepted(e, t)
      /\ n = Total \/ ~IsAccepted(e, n)
  BY <1>1, <1>2, <1>4, TestsHaveTypes
     DEF ExecutionIsSound, CasesAreInOrder, ExecutionTypeOK
<1>6. Failures(cases[e]) = {} \/ Failures(cases[e]) = {n}
  <2>1. DOMAIN cases[e] = 1..n
    BY <1>5
  <2>2. \A t \in 1..n : t = n \/ t \in 1..(n - 1)
    BY <1>5
  <2>3. Failures(cases[e]) \subseteq {n}
    BY <1>5, <2>1, <2>2 DEF Failures, IsAccepted
  <2>4. QED
    BY <2>3
<1>7. ASSUME result.status = "ACCEPTED"
      PROVE  Failures(cases[e]) = {} /\ result = Summary(cases[e], Total)
  <2>1. result = Summary(cases[e], Total)
    BY <1>3, <1>7 DEF Raised, Unrun
  <2>2. CASE Failures(cases[e]) = {n}
    <3>1. FirstFailure(cases[e]) = n
      BY <1>4, <2>2 DEF FirstFailure
    <3>2. cases[e][n].status = "ACCEPTED"
      BY <1>7, <2>1, <2>2, <3>1 DEF Summary
    <3>3. QED
      BY <2>2, <3>2 DEF Failures
  <2>3. QED
    BY <1>6, <2>1, <2>2
<1>8. ASSUME result.status = "ACCEPTED"
      PROVE  /\ Total > 0 /\ n = Total /\ result.passed = Total
             /\ \A t \in 1..Total : Earned(e, t)
  <2>1. DOMAIN cases[e] = 1..n
    BY <1>5
  <2>2. \A t \in 1..n : IsAccepted(e, t)
    BY <1>7, <1>8, <2>1 DEF Failures, IsAccepted
  <2>3. n = Total /\ Total > 0
    BY <1>4, <1>5, <2>2
  <2>4. Cardinality(1..Total) = Total
    BY <1>5, <2>3, FS_Interval
  <2>5. result.passed = Total
    <3>1. DOMAIN cases[e] \ Failures(cases[e]) = 1..Total
      BY <1>7, <1>8, <2>1, <2>3
    <3>2. Summary(cases[e], Total).passed = Cardinality(1..Total)
      BY <3>1 DEF Summary
    <3>3. QED
      BY <1>7, <1>8, <2>4, <3>2
  <2>6. QED
    BY <1>1, <2>1, <2>2, <2>3, <2>5 DEF ExecutionIsSound, CasesAreEarned
<1>9. /\ call'[e].step = "over" /\ call'[e].test = call[e].test
      /\ \A x \in Executions \ {e} : call'[x] = call[x]
      /\ call' \in [Executions -> CallRecord]
  <2>1. call \in [Executions -> CallRecord]
    BY <1>1 DEF ExecutionTypeOK
  <2>2. "over" \in Steps
    BY DEF Steps
  <2>3. [call[e] EXCEPT !.step = "over"] \in CallRecord
    BY <2>1, <2>2 DEF CallRecord
  <2>4. QED
    BY <1>3, <2>1, <2>3 DEF CallRecord
<1>10. /\ outcome' = [x \in Executions |-> outcome'[x]]
       /\ \A x \in Executions \ {e} : outcome'[x] = outcome[x]
       /\ outcome'[e] = result
  BY <1>1, <1>3 DEF ExecutionTypeOK
<1>11. ExecutionTypeOK'
  BY <1>1, <1>2, <1>9, <1>10 DEF ExecutionTypeOK
<1>12. CasesAreInOrder(e)'
  BY <1>9 DEF CasesAreInOrder, Active
<1>13. Total' = Total /\ \A t : Earned(e, t) => Earned(e, t)'
  BY <1>2 DEF Earned, Total, Does, Written
<1>14. CasesAreEarned(e)'
  BY <1>1, <1>2, <1>13 DEF ExecutionIsSound, CasesAreEarned, IsAccepted
<1>15. OutcomeIsEarned(e)'
  BY <1>8, <1>9, <1>10, <1>13 DEF OutcomeIsEarned
<1>16. ~Active(e)'
  BY <1>9 DEF Active
<1>17. QED
  BY <1>2, <1>9, <1>10, <1>11, <1>12, <1>14, <1>15, <1>16, SessionStepIsSound

-----------------------------------------------------------------------------

LEMMA EngineInductive ==
  ASSUME EngineInvariant, [EngineNext]_engineVars
  PROVE  EngineInvariant'
<1>1. CASE UNCHANGED engineVars
  <2>1. /\ ExecutionTypeOK' = ExecutionTypeOK
        /\ \A e : ExecutionIsSound(e)' = ExecutionIsSound(e)
    BY <1>1 DEF engineVars, sandboxVars, sessionVars, ExecutionTypeOK,
       ExecutionIsSound, InSuite, LeaderIsKnown, SeenIsKnown, CasesAreInOrder,
       CasesAreEarned, OutcomeIsEarned, Active, HasWorked, Confined, Earned,
       IsAccepted, Now, Does, Written, Total
  <2>2. QED
    BY <2>1 DEF EngineInvariant
<1>2. CASE HostStep /\ UNCHANGED sessionVars
  <2>1. ASSUME NEW e \in Executions, CallStep(e)
        PROVE  EngineInvariant'
    BY <1>2, <2>1, AllocateIsSound, LaunchIsSound, AttachIsSound,
       ObserveIsSound, ReleaseIsSound DEF CallStep
  <2>2. ASSUME NEW e \in Executions,
               ObserveFails(e) \/ Work(e) \/ Exit(e) \/ JailFails(e) \/ Crash(e)
        PROVE  EngineInvariant'
    BY <1>2, <2>2, ObserveFailsIsSound, WorkIsSound, ExitIsSound,
       JailFailsIsSound, CrashIsSound
  <2>3. ASSUME NEW c \in Cases, DeadlineSets(c) \/ DeadlineKills(c)
        PROVE  EngineInvariant'
    BY <1>2, <2>3, DeadlineSetsIsSound, DeadlineKillsIsSound
  <2>4. QED
    BY <1>2, <2>1, <2>2, <2>3 DEF HostStep
<1>3. ASSUME NEW e \in Executions, Start(e) \/ Judge(e) \/ Report(e)
      PROVE  EngineInvariant'
  BY <1>3, StartIsSound, JudgeIsSound, ReportIsSound
<1>4. QED
  BY <1>1, <1>2, <1>3 DEF EngineNext

\* The invariant holds of every run of the engine.
THEOREM EngineInvariantHolds == EngineSpec => []EngineInvariant
<1>1. EngineInit => EngineInvariant
  BY EngineInitially
<1>2. EngineInvariant /\ [EngineNext]_engineVars => EngineInvariant'
  BY EngineInductive
<1>3. QED
  BY <1>1, <1>2, PTL DEF EngineSpec

\* A contestant's ACCEPTED was earned: the suite was not empty, and every one of
\* its cases ended by itself with the right output and within what was enforced,
\* as far as wait4 and the leaf can tell: the CPU time of children that nobody
\* waited for is not counted, and behind bwrap none need be.
THEOREM AcceptedMeansEarned == EngineSpec => []AcceptedIsEarned
BY EngineInvariantHolds, InvariantImpliesEarned, PTL

-----------------------------------------------------------------------------
(* The cgroup leaves.                                                      *)

\* Who holds a leaf finds it there, and no other holds it.
LeafInvariant ==
  /\ \A e \in Executions : \A t \in Tests : Holds(e, t) => t \in leaves
  /\ LeafHasOneHolder

\* Steps that give and take no leaf.
LEMMA NothingTaken ==
  ASSUME ExecutionTypeOK, LeafInvariant, leaves' = leaves,
         faults' \in Nat, faults' >= faults,
         \A e \in Executions : \A t : Holds(e, t)' <=> Holds(e, t)
  PROVE  LeafInvariant'
BY DEF LeafInvariant, LeafHasOneHolder, ExecutionTypeOK

\* A step of one execution that holds a leaf before and after, or never.
LEMMA NothingTakenBy ==
  ASSUME ExecutionTypeOK, LeafInvariant, NEW e \in Executions, leaves' = leaves,
         faults' \in Nat, faults' >= faults,
         \A x \in Executions \ {e} : call'[x] = call[x],
         \A t : Holds(e, t)' <=> Holds(e, t)
  PROVE  LeafInvariant'
<1>1. \A x \in Executions \ {e} : \A t : Holds(x, t)' <=> Holds(x, t)
  BY DEF Holds
<1>2. QED
  BY <1>1, NothingTaken

LEMMA AllocateTakesFreeLeaf ==
  ASSUME ExecutionTypeOK, LeafInvariant, NEW e \in Executions, Allocate(e)
  PROVE  LeafInvariant'
<1>1. PICK free : free = call[e].test
  OBVIOUS
<1>2. call[e].step = "called" /\ faults \in Nat
  BY DEF Allocate, ExecutionTypeOK
<1>3. \A t : ~Holds(e, t)
  BY <1>2 DEF Holds
<1>4. CASE /\ free \notin leaves /\ leaves' = leaves \cup {free} /\ Sound
           /\ call' = [call EXCEPT ![e].step = "allocated", ![e].leased = TRUE]
  <2>1. /\ \A x \in Executions \ {e} : call'[x] = call[x]
        /\ call'[e].test = free /\ call'[e].leased = TRUE
        /\ call'[e].step = "allocated"
    BY <1>4, <1>1 DEF ExecutionTypeOK, CallRecord
  <2>2. /\ \A x \in Executions \ {e} : \A t : Holds(x, t)' <=> Holds(x, t)
        /\ \A t : Holds(e, t)' <=> t = free
    BY <2>1 DEF Holds
  <2>3. \A x \in Executions \ {e} : \A t \in Tests : Holds(x, t) => t # free
    BY <1>4 DEF LeafInvariant
  <2>4. \A t \in leaves' : faults' > 0 \/ \E x \in Executions : Holds(x, t)'
    <3>1. Holds(e, free)'
      BY <2>1 DEF Holds
    <3>2. ASSUME NEW t \in leaves PROVE faults' > 0 \/ \E x \in Executions : Holds(x, t)'
      <4>1. CASE faults > 0
        BY <1>4, <4>1 DEF Sound
      <4>2. CASE \E x \in Executions : Holds(x, t)
        <5>1. PICK x \in Executions : Holds(x, t)
          BY <4>2
        <5>2. x # e
          BY <1>2, <5>1 DEF Holds
        <5>3. Holds(x, t)'
          BY <2>1, <5>1, <5>2 DEF Holds
        <5>4. QED
          BY <5>3
      <4>3. QED
        BY <4>1, <4>2 DEF LeafInvariant, LeafHasOneHolder
    <3>3. QED
      BY <1>4, <3>1, <3>2
  <2>5. /\ \A x \in Executions : \A t \in Tests : Holds(x, t)' => t \in leaves'
        /\ \A x, y \in Executions : \A t \in Tests : Holds(x, t)' /\ Holds(y, t)' => x = y
    BY <1>4, <2>2, <2>3 DEF LeafInvariant, LeafHasOneHolder
  <2>6. QED
    BY <2>4, <2>5 DEF LeafInvariant, LeafHasOneHolder
<1>5. CASE /\ call' = [call EXCEPT ![e].step = "allocated", ![e].leased = FALSE]
           /\ leaves' = leaves /\ faults' \in Nat /\ faults' >= faults
  <2>1. /\ \A x \in Executions \ {e} : call'[x] = call[x]
        /\ call'[e].leased = FALSE
    BY <1>5 DEF ExecutionTypeOK, CallRecord
  <2>2. \A t : Holds(e, t)' <=> Holds(e, t)
    BY <1>3, <2>1 DEF Holds
  <2>3. QED
    BY <1>5, <2>1, <2>2, NothingTakenBy
<1>6. QED
  BY <1>2, <1>4, <1>5, <1>1 DEF Allocate, Sound, Fault

LEMMA ReleaseGivesItBack ==
  ASSUME ExecutionTypeOK, LeafInvariant, NEW e \in Executions, Release(e)
  PROVE  LeafInvariant'
<1>1. /\ call[e].step \in {"observed", "failed"} /\ faults \in Nat
      /\ call' = [call EXCEPT ![e].step = IF call[e].step = "failed" THEN "raised"
                                          ELSE "returned"]
  BY DEF Release, ExecutionTypeOK, CallRecord
<1>2. /\ \A x \in Executions \ {e} : call'[x] = call[x]
      /\ call'[e].step \in {"raised", "returned"}
  BY <1>1 DEF ExecutionTypeOK, CallRecord
<1>3. /\ \A x \in Executions \ {e} : \A t : Holds(x, t)' <=> Holds(x, t)
      /\ \A t : ~Holds(e, t)'
  BY <1>2 DEF Holds
<1>4. CASE ~call[e].leased /\ Sound /\ leaves' = leaves
  <2>1. \A t : ~Holds(e, t)
    BY <1>4 DEF Holds
  <2>2. QED
    BY <1>1, <1>2, <1>3, <1>4, <2>1, NothingTakenBy DEF Sound
<1>5. CASE call[e].leased /\ Sound /\ leaves' = leaves \ {call[e].test}
  <2>1. \A t : Holds(e, t) <=> t = call[e].test
    BY <1>1, <1>5 DEF Holds
  <2>2. \A x \in Executions \ {e} : \A t \in Tests : Holds(x, t) => t # call[e].test
    BY <2>1 DEF LeafInvariant, LeafHasOneHolder
  <2>3. ASSUME NEW t \in leaves'
        PROVE  faults' > 0 \/ \E x \in Executions : Holds(x, t)'
    <3>1. t \in leaves /\ t # call[e].test
      BY <1>5
    <3>2. CASE faults > 0
      BY <1>5, <3>2 DEF Sound
    <3>3. CASE \E x \in Executions : Holds(x, t)
      <4>1. PICK x \in Executions : Holds(x, t)
        BY <3>3
      <4>2. x # e
        BY <3>1, <4>1 DEF Holds
      <4>3. Holds(x, t)'
        BY <1>2, <4>1, <4>2 DEF Holds
      <4>4. QED
        BY <4>3
    <3>4. QED
      BY <3>1, <3>2, <3>3 DEF LeafInvariant, LeafHasOneHolder
  <2>4. /\ \A x \in Executions : \A t \in Tests : Holds(x, t)' => t \in leaves'
        /\ \A x, y \in Executions : \A t \in Tests : Holds(x, t)' /\ Holds(y, t)' => x = y
    BY <1>3, <1>5, <2>2 DEF LeafInvariant, LeafHasOneHolder
  <2>5. QED
    BY <2>3, <2>4 DEF LeafInvariant, LeafHasOneHolder
<1>6. CASE Fault /\ leaves' = leaves
  <2>1. faults' > 0
    BY <1>1, <1>6 DEF Fault
  <2>2. QED
    BY <1>3, <1>6, <2>1 DEF LeafInvariant, LeafHasOneHolder
<1>7. QED
  BY <1>4, <1>5, <1>6 DEF Release

LEMMA CrashLeavesItThere ==
  ASSUME ExecutionTypeOK, LeafInvariant, NEW e \in Executions, Crash(e)
  PROVE  LeafInvariant'
<1>1. /\ call' = [call EXCEPT ![e].step = "crashed"] /\ leaves' = leaves
      /\ faults' = faults + 1 /\ faults \in Nat
  BY DEF Crash, Fault, ExecutionTypeOK
<1>2. /\ \A x \in Executions \ {e} : call'[x] = call[x]
      /\ call'[e].step = "crashed"
  BY <1>1 DEF ExecutionTypeOK, CallRecord
<1>3. \A x \in Executions : \A t \in Tests : Holds(x, t)' => Holds(x, t)
  BY <1>2 DEF Holds
<1>4. faults' > 0
  BY <1>1
<1>5. QED
  BY <1>1, <1>3, <1>4 DEF LeafInvariant, LeafHasOneHolder

LEMMA LeafInductive ==
  ASSUME ExecutionTypeOK, LeafInvariant, [EngineNext]_engineVars
  PROVE  LeafInvariant'
<1>1. faults \in Nat
  BY DEF ExecutionTypeOK
<1>2. CASE call' = call /\ leaves' = leaves /\ faults' = faults
  BY <1>1, <1>2, NothingTaken DEF Holds
<1>3. ASSUME NEW e \in Executions,
             Launch(e) \/ Attach(e) \/ Observe(e) \/ ObserveFails(e)
      PROVE  LeafInvariant'
  <2>1. PICK step \in {"launched", "failed", "waiting", "observed"} :
          /\ call'[e].step = step /\ call'[e].leased = call[e].leased
          /\ call'[e].test = call[e].test
          /\ \A x \in Executions \ {e} : call'[x] = call[x]
    <3>1. CASE Launch(e)
      BY <3>1 DEF Launch, ExecutionTypeOK, CallRecord
    <3>2. CASE Attach(e)
      BY <3>2 DEF Attach, ExecutionTypeOK, CallRecord
    <3>3. CASE Observe(e)
      <4>1. PICK seen : call' = [call EXCEPT ![e].step = "observed", ![e].seen = seen]
        BY <3>3, ObserveSees DEF ExecutionTypeOK, CallRecord
      <4>2. QED
        BY <4>1 DEF ExecutionTypeOK, CallRecord
    <3>4. CASE ObserveFails(e)
      BY <3>4 DEF ObserveFails, ExecutionTypeOK, CallRecord
    <3>5. QED
      BY <1>3, <3>1, <3>2, <3>3, <3>4
  <2>2. /\ call[e].step \in {"allocated", "launched", "waiting"}
        /\ leaves' = leaves /\ faults' \in Nat /\ faults' >= faults
    <3>1. Sound \/ Fault
      BY <1>3 DEF Launch, Attach, Observe, ObserveFails
    <3>2. faults' \in Nat /\ faults' >= faults
      BY <1>1, <3>1 DEF Sound, Fault
    <3>3. QED
      BY <1>3, <3>2 DEF Launch, Attach, Observe, ObserveFails
  <2>3. \A t : Holds(e, t)' <=> Holds(e, t)
    BY <2>1, <2>2 DEF Holds
  <2>4. QED
    BY <2>1, <2>2, <2>3, NothingTakenBy
<1>4. ASSUME NEW e \in Executions, Start(e) \/ Judge(e) \/ Report(e)
      PROVE  LeafInvariant'
  <2>1. /\ call'[e].step \in {"called", "judged", "over"}
        /\ \A x \in Executions \ {e} : call'[x] = call[x]
    <3>1. CASE Start(e) \/ Report(e)
      BY <3>1 DEF Start, Report, Over, ExecutionTypeOK, CallRecord
    <3>2. CASE Judge(e)
      BY <3>2 DEF Judge, ExecutionTypeOK, NoCall
    <3>3. QED
      BY <1>4, <3>1, <3>2
  <2>2. /\ call[e].step \in {"idle", "returned", "raised", "judged"}
        /\ leaves' = leaves /\ faults' \in Nat /\ faults' >= faults
    <3>1. CASE Start(e)
      BY <1>1, <3>1 DEF Start, Sound, Fault
    <3>2. CASE Judge(e)
      BY <1>1, <3>2 DEF Judge, Sound, Fault
    <3>3. CASE Report(e)
      BY <1>1, <3>3 DEF Report
    <3>4. QED
      BY <1>4, <3>1, <3>2, <3>3
  <2>3. \A t : Holds(e, t)' <=> Holds(e, t)
    BY <2>1, <2>2 DEF Holds
  <2>4. QED
    BY <2>1, <2>2, <2>3, NothingTakenBy
<1>5. ASSUME NEW e \in Executions, Work(e) \/ Exit(e) \/ JailFails(e)
      PROVE  LeafInvariant'
  <2>1. call' = call /\ leaves' = leaves /\ faults' \in Nat /\ faults' >= faults
    BY <1>1, <1>5 DEF Work, Exit, JailFails, Fault
  <2>2. QED
    BY <2>1, NothingTaken DEF Holds
<1>6. ASSUME NEW c \in Cases, DeadlineSets(c) \/ DeadlineKills(c)
      PROVE  LeafInvariant'
  BY <1>2, <1>6 DEF DeadlineSets, DeadlineKills
<1>7. CASE UNCHANGED engineVars
  BY <1>2, <1>7 DEF engineVars, sandboxVars
<1>8. QED
  BY <1>3, <1>4, <1>5, <1>6, <1>7, AllocateTakesFreeLeaf, ReleaseGivesItBack,
     CrashLeavesItThere DEF EngineNext, HostStep, CallStep

\* However the deliveries of one run key interleave on a host, and whenever
\* their workers die: no two of them hold one leaf, and a leaf without a holder
\* is the mark of a failure.
THEOREM OneHolderPerLeaf == EngineSpec => []LeafHasOneHolder
<1>1. EngineInit => LeafInvariant
  BY DEF EngineInit, SandboxInit, NoCall, LeafInvariant, LeafHasOneHolder, Holds
<1>2. ExecutionTypeOK /\ LeafInvariant /\ [EngineNext]_engineVars => LeafInvariant'
  BY LeafInductive
<1>3. EngineInvariant => ExecutionTypeOK
  BY DEF EngineInvariant
<1>4. LeafInvariant => LeafHasOneHolder
  BY DEF LeafInvariant
<1>5. QED
  BY <1>1, <1>2, <1>3, <1>4, EngineInvariantHolds, PTL DEF EngineSpec

-----------------------------------------------------------------------------
(* The types of everything else.                                           *)

SuiteTypes ==
  /\ \A e \in Executions :
       /\ call[e].test \in Tests
       /\ outcome[e] \in SuiteResult \cup {NoOutcome, Raised}
       /\ Len(cases[e]) <= MaxTests
  /\ isolation \in Isolations
  /\ children \subseteq [of : Cases, inLeaf : BOOLEAN]
  /\ leaves \subseteq Tests
  /\ timer \in [Cases -> {"off", "armed", "expiring", "expired", "late"}]
  /\ oomKilled \subseteq Cases /\ ran \subseteq Cases /\ unconfined \subseteq Cases
  /\ expiry \in [Cases -> {"never", "running", "ended"}]
  /\ faults \in 0..MaxFaults

LEMMA TypesMeanTypeOK == EngineInvariant /\ SuiteTypes => SuiteTypeOK
<1> SUFFICES ASSUME EngineInvariant, SuiteTypes PROVE SuiteTypeOK
  OBVIOUS
<1>1. ASSUME NEW e \in Executions
      PROVE  /\ call[e].step \in Steps /\ call[e].leased \in BOOLEAN
             /\ call[e].seen \in SandboxResult
             /\ leader[e].state \in {"none", "new", "running", "ended"}
             /\ leader[e].ending \in Endings
             /\ \A i \in DOMAIN cases[e] : cases[e][i].status \in CaseVerdicts
  <2>1. /\ call[e] \in CallRecord /\ leader[e] \in LeaderRecord
        /\ cases[e] \in Seq(CaseResult)
    BY DEF EngineInvariant, ExecutionTypeOK
  <2>2. \A i \in DOMAIN cases[e] : cases[e][i] \in CaseResult
    BY <2>1
  <2>3. QED
    BY <2>1, <2>2 DEF CallRecord, LeaderRecord, CaseResult
<1>2. QED
  BY <1>1 DEF SuiteTypes, SuiteTypeOK

\* A suite is judged up to its last case or to the first that is not accepted.
LEMMA OnlyTheLastFails ==
  ASSUME EngineInvariant, NEW e \in Executions, call[e].step = "judged"
  PROVE  \E n \in 1..Total :
           /\ n = call[e].test /\ Len(cases[e]) = n
           /\ Failures(cases[e]) \in {{}, {n}}
<1>1. ExecutionIsSound(e) /\ ExecutionTypeOK
  BY DEF EngineInvariant
<1>2. PICK n \in 1..Total : n = call[e].test
  BY <1>1 DEF ExecutionIsSound, InSuite, Active
<1>3. /\ Len(cases[e]) = n /\ cases[e] \in Seq(CaseResult) /\ Total \in Nat
      /\ \A t \in 1..(n - 1) : IsAccepted(e, t)
  BY <1>1, <1>2, TestsHaveTypes
     DEF ExecutionIsSound, CasesAreInOrder, ExecutionTypeOK
<1>4. DOMAIN cases[e] = 1..n
  BY <1>3
<1>5. \A t \in 1..n : t = n \/ t \in 1..(n - 1)
  BY <1>3
<1>6. Failures(cases[e]) \subseteq {n}
  BY <1>3, <1>4, <1>5 DEF Failures, IsAccepted
<1>7. QED
  BY <1>2, <1>3, <1>6

LEMMA SuiteIsBounded ==
  ASSUME EngineInvariant
  PROVE  Total \in 0..MaxTests
BY DEF EngineInvariant, ExecutionTypeOK, Total

LEMMA FirstNumbers ==
  ASSUME NEW n \in Nat
  PROVE  Cardinality(1..n) = n
<1>1. Cardinality(1..n) = IF 1 > n THEN 0 ELSE n - 1 + 1
  BY FS_Interval
<1>2. QED
  BY <1>1

LEMMA SummaryType ==
  ASSUME EngineInvariant, NEW e \in Executions, call[e].step = "judged"
  PROVE  Summary(cases[e], Total) \in SuiteResult
<1> DEFINE s == cases[e]
<1>1. PICK n \in 1..Total : Len(s) = n /\ Failures(s) \in {{}, {n}}
  BY OnlyTheLastFails
<1>2. /\ s \in Seq(CaseResult) /\ Total \in 0..MaxTests /\ n \in Nat
      /\ MaxTests \in Nat
  BY SuiteIsBounded DEF EngineInvariant, ExecutionTypeOK
<1>3. DOMAIN s = 1..n /\ s[n] \in CaseResult
  BY <1>1, <1>2
<1>4. CASE Failures(s) = {}
  <2>1. DOMAIN s \ Failures(s) = 1..n
    BY <1>3, <1>4
  <2>2. Cardinality(DOMAIN s \ Failures(s)) = n
    BY <1>2, <2>1, FirstNumbers
  <2>3. /\ Summary(s, Total).status = "ACCEPTED" /\ Summary(s, Total).failure = 0
        /\ n \in 0..MaxTests /\ 0 \in 0..MaxTests
    BY <1>1, <1>2, <1>4 DEF Summary
  <2>4. QED
    BY <1>2, <1>4, <2>2, <2>3 DEF Summary, SuiteResult, SuiteVerdicts, CaseVerdicts
<1>5. CASE Failures(s) = {n}
  <2>1. DOMAIN s \ Failures(s) = 1..(n - 1)
    BY <1>1, <1>2, <1>3, <1>5
  <2>2. Cardinality(DOMAIN s \ Failures(s)) = n - 1
    <3>1. n - 1 \in Nat
      BY <1>1, <1>2
    <3>2. QED
      BY <2>1, <3>1, FirstNumbers
  <2>3. FirstFailure(s) = n
    BY <1>1, <1>5 DEF FirstFailure
  <2>4. s[n].status \in SuiteVerdicts
    BY <1>3 DEF CaseResult, SuiteVerdicts
  <2>5. n - 1 \in 0..MaxTests /\ n \in 0..MaxTests
    BY <1>1, <1>2
  <2>6. QED
    BY <1>2, <1>5, <2>2, <2>3, <2>4, <2>5 DEF Summary, SuiteResult
<1>6. QED
  BY <1>1, <1>4, <1>5

\* No step but Judge takes an execution to another case.
LEMMA OnlyJudgeGoesOn ==
  ASSUME EngineInvariant, NEW e \in Executions,
         CallStep(e) \/ ObserveFails(e) \/ Crash(e) \/ Start(e) \/ Report(e)
  PROVE  \A x \in Executions : call'[x].test = call[x].test
<1>1. call \in [Executions -> CallRecord]
  BY DEF EngineInvariant, ExecutionTypeOK
<1>2. CASE Allocate(e) \/ Launch(e) \/ ObserveFails(e) \/ Crash(e)
  <2>1. CASE Allocate(e)
    BY <1>1, <2>1 DEF Allocate, CallRecord
  <2>2. CASE Launch(e)
    <3>1. \E step : call' = [call EXCEPT ![e].step = step]
      BY <2>2 DEF Launch
    <3>2. QED
      BY <1>1, <3>1 DEF CallRecord
  <2>3. CASE Crash(e)
    BY <1>1, <2>3 DEF Crash, CallRecord
  <2>4. CASE ObserveFails(e)
    BY <1>1, <2>4 DEF ObserveFails, CallRecord
  <2>5. QED
    BY <1>2, <2>1, <2>2, <2>3, <2>4
<1>3. CASE Attach(e)
  <2>1. \E seen : call' = [call EXCEPT ![e].step = "waiting", ![e].seen = seen]
    BY <1>3 DEF Attach
  <2>2. QED
    BY <1>1, <2>1 DEF CallRecord
<1>4. CASE Observe(e)
  <2>1. \E seen : call' = [call EXCEPT ![e].step = "observed", ![e].seen = seen]
    BY <1>1, <1>4, ObserveSees DEF CallRecord
  <2>2. QED
    BY <1>1, <2>1 DEF CallRecord
<1>5. CASE Release(e)
  BY <1>1, <1>5 DEF Release, CallRecord
<1>6. CASE Start(e) \/ Report(e)
  BY <1>1, <1>6 DEF Start, Report, Over, CallRecord
<1>7. QED
  BY <1>2, <1>3, <1>4, <1>5, <1>6 DEF CallStep

\* The part of the types that the steps of the host change.
HostTypes ==
  /\ isolation \in Isolations
  /\ children \subseteq [of : Cases, inLeaf : BOOLEAN]
  /\ leaves \subseteq Tests
  /\ timer \in [Cases -> {"off", "armed", "expiring", "expired", "late"}]
  /\ oomKilled \subseteq Cases /\ ran \subseteq Cases /\ unconfined \subseteq Cases
  /\ expiry \in [Cases -> {"never", "running", "ended"}]

LEMMA NowIsACase ==
  ASSUME SuiteTypes, NEW e \in Executions
  PROVE  Now(e) \in Cases /\ call[e].test \in Tests
BY DEF SuiteTypes, Now, Cases

LEMMA CallStepTypes ==
  ASSUME EngineInvariant, SuiteTypes, NEW e \in Executions, CallStep(e)
  PROVE  HostTypes'
<1>1. Now(e) \in Cases /\ call[e].test \in Tests
  BY NowIsACase
<1>2. CASE Allocate(e)
  BY <1>1, <1>2 DEF Allocate, SuiteTypes, HostTypes
<1>3. CASE Launch(e)
  BY <1>3 DEF Launch, SuiteTypes, HostTypes
<1>4. CASE Attach(e)
  <2>1. timer' = [timer EXCEPT ![Now(e)] = "armed"]
    BY <1>4 DEF Attach
  <2>2. timer' \in [Cases -> {"off", "armed", "expiring", "expired", "late"}]
    BY <2>1 DEF SuiteTypes
  <2>3. QED
    BY <1>4, <2>2 DEF Attach, SuiteTypes, HostTypes
<1>5. CASE Observe(e)
  <2>1. timer' = [timer EXCEPT ![Now(e)] = AfterCancel(timer[Now(e)])]
    BY <1>1, <1>5 DEF Observe, SuiteTypes
  <2>2. AfterCancel(timer[Now(e)]) \in {"late", "off"}
    BY DEF AfterCancel
  <2>3. timer' \in [Cases -> {"off", "armed", "expiring", "expired", "late"}]
    BY <2>1, <2>2 DEF SuiteTypes
  <2>4. QED
    BY <1>5, <2>3 DEF Observe, SuiteTypes, HostTypes
<1>6. CASE Release(e)
  <2>1. children' \subseteq children /\ leaves' \subseteq leaves
    BY <1>6 DEF Release, Members, ChildrenOf
  <2>2. QED
    BY <1>6, <2>1 DEF Release, SuiteTypes, HostTypes
<1>7. QED
  BY <1>2, <1>3, <1>4, <1>5, <1>6 DEF CallStep

LEMMA ProcessStepTypes ==
  ASSUME EngineInvariant, SuiteTypes, NEW e \in Executions,
         ObserveFails(e) \/ Work(e) \/ Exit(e) \/ JailFails(e) \/ Crash(e)
  PROVE  HostTypes'
<1>1. Now(e) \in Cases
  BY NowIsACase
<1>2. CASE Work(e)
  <2>1. leader[e].inLeaf \in BOOLEAN
    BY DEF EngineInvariant, ExecutionTypeOK, LeaderRecord
  <2>2. [of |-> Now(e), inLeaf |-> leader[e].inLeaf] \in [of : Cases, inLeaf : BOOLEAN]
    BY <1>1, <2>1
  <2>3. /\ children' \subseteq [of : Cases, inLeaf : BOOLEAN]
        /\ oomKilled' \subseteq Cases /\ ran' \subseteq Cases
        /\ unconfined' \subseteq Cases
    BY <1>1, <1>2, <2>2 DEF Work, SuiteTypes
  <2>4. QED
    BY <1>2, <2>3 DEF Work, SuiteTypes, HostTypes
<1>3. CASE Exit(e)
  <2>1. children' \subseteq children
    BY <1>3 DEF Exit, Orphans, ChildrenOf
  <2>2. QED
    BY <1>3, <2>1 DEF Exit, SuiteTypes, HostTypes
<1>4. CASE Crash(e)
  <2>1. children' \subseteq children
    BY <1>4 DEF Crash
  <2>2. timer' \in [Cases -> {"off", "armed", "expiring", "expired", "late"}]
    BY <1>4 DEF Crash, SuiteTypes
  <2>3. QED
    BY <1>4, <2>1, <2>2 DEF Crash, SuiteTypes, HostTypes
<1>5. CASE JailFails(e)
  BY <1>5 DEF JailFails, SuiteTypes, HostTypes
<1>6. CASE ObserveFails(e)
  <2>1. timer' = [timer EXCEPT ![Now(e)] = AfterCancel(timer[Now(e)])]
    BY <1>1, <1>6 DEF ObserveFails, SuiteTypes
  <2>2. AfterCancel(timer[Now(e)]) \in {"late", "off"}
    BY DEF AfterCancel
  <2>3. timer' \in [Cases -> {"off", "armed", "expiring", "expired", "late"}]
    BY <2>1, <2>2 DEF SuiteTypes
  <2>4. children' \subseteq children
    BY <1>6 DEF ObserveFails
  <2>5. QED
    BY <1>6, <2>3, <2>4 DEF ObserveFails, SuiteTypes, HostTypes
<1>7. QED
  BY <1>2, <1>3, <1>4, <1>5, <1>6

LEMMA DeadlineTypes ==
  ASSUME SuiteTypes, NEW c \in Cases, DeadlineSets(c) \/ DeadlineKills(c)
  PROVE  HostTypes'
<1>1. CASE DeadlineSets(c)
  BY <1>1 DEF DeadlineSets, SuiteTypes, HostTypes
<1>2. CASE DeadlineKills(c)
  <2>1. timer' = [timer EXCEPT ![c] = AfterKill(timer[c])]
    BY <1>2 DEF DeadlineKills, SuiteTypes
  <2>2. AfterKill(timer[c]) \in {"off", "expired"}
    BY DEF AfterKill
  <2>3. timer' \in [Cases -> {"off", "armed", "expiring", "expired", "late"}]
    BY <2>1, <2>2 DEF SuiteTypes
  <2>4. children' \subseteq children
    BY <1>2 DEF DeadlineKills
  <2>5. QED
    BY <1>2, <2>3, <2>4 DEF DeadlineKills, SuiteTypes, HostTypes
<1>3. QED
  BY <1>1, <1>2

LEMMA ResultsKeepTypes ==
  ASSUME EngineInvariant, SuiteTypes, UNCHANGED <<cases, outcome>>,
         \A x \in Executions : call'[x].test = call[x].test
  PROVE  \A x \in Executions :
           /\ call'[x].test \in Tests
           /\ outcome'[x] \in SuiteResult \cup {NoOutcome, Raised}
           /\ Len(cases'[x]) <= MaxTests
BY DEF SuiteTypes

LEMMA FaultsAreBounded ==
  ASSUME SuiteTypes, Sound \/ Fault
  PROVE  faults' \in 0..MaxFaults /\ faults' >= faults
BY DEF SuiteTypes, Sound, Fault

\* A result is what the code can return.
LEMMA OverTypes ==
  ASSUME EngineInvariant, SuiteTypes, NEW e \in Executions, Start(e) \/ Report(e)
  PROVE  SuiteTypes'
<1>1. \A x \in Executions : call'[x].test = call[x].test
  BY OnlyJudgeGoesOn
<1>2. outcome = [x \in Executions |-> outcome[x]] /\ Total \in 0..MaxTests
  BY SuiteIsBounded DEF EngineInvariant, ExecutionTypeOK
<1>3. PICK result \in SuiteResult \cup {NoOutcome, Raised} :
        outcome' = outcome \/ outcome' = [outcome EXCEPT ![e] = result]
  <2>1. CASE Start(e)
    <3>1. Unrun("INTERNAL_ERROR", 0) \in SuiteResult
      BY DEF Unrun, SuiteResult, SuiteVerdicts, CaseVerdicts
    <3>2. Unrun("COMPILATION_ERROR", Total) \in SuiteResult
      BY <1>2 DEF Unrun, SuiteResult, SuiteVerdicts
    <3>3. QED
      BY <2>1, <3>1, <3>2 DEF Start, Over
  <2>2. CASE Report(e)
    <3>1. Summary(cases[e], Total) \in SuiteResult
      BY <2>2, SummaryType DEF Report
    <3>2. QED
      BY <2>2, <3>1 DEF Report, Over
  <2>3. QED
    BY <2>1, <2>2
<1>4. \A x \in Executions : outcome'[x] \in SuiteResult \cup {NoOutcome, Raised}
  BY <1>2, <1>3 DEF SuiteTypes
<1>5. Sound \/ Fault
  <2>1. CASE Start(e)
    BY <2>1 DEF Start
  <2>2. CASE Report(e)
    BY <2>2 DEF Report, Sound
  <2>3. QED
    BY <2>1, <2>2
<1>6. UNCHANGED <<isolation, children, leaves, timer, oomKilled, ran, unconfined,
                  expiry, cases>>
  BY DEF Start, Report
<1>7. QED
  BY <1>1, <1>4, <1>5, <1>6, FaultsAreBounded DEF SuiteTypes

LEMMA JudgeTypes ==
  ASSUME EngineInvariant, SuiteTypes, NEW e \in Executions, Judge(e)
  PROVE  SuiteTypes'
<1> DEFINE c == call[e]
<1>1. /\ call \in [Executions -> CallRecord]
      /\ cases \in [Executions -> Seq(CaseResult)]
      /\ ExecutionIsSound(e)
  BY DEF EngineInvariant, ExecutionTypeOK
<1>2. /\ c.test \in 1..Total /\ Len(cases[e]) = c.test - 1
      /\ Total \in 0..MaxTests /\ MaxTests \in Nat
  BY <1>1, SuiteIsBounded
     DEF Judge, ExecutionIsSound, InSuite, CasesAreInOrder, Active
<1>3. PICK result :
        /\ cases' = [cases EXCEPT ![e] = Append(cases[e], result)]
        /\ \E test \in {c.test, c.test + 1}, step \in Steps :
             /\ call' = [call EXCEPT ![e] =
                           [NoCall EXCEPT !.step = step, !.test = test]]
             /\ test = c.test \/ c.test # Total
  <2>1. "judged" \in Steps /\ "called" \in Steps
    BY DEF Steps
  <2>2. QED
    BY <2>1 DEF Judge
<1>4. PICK test \in {c.test, c.test + 1} :
        /\ call'[e].test = test
        /\ test = c.test \/ c.test # Total
        /\ \A x \in Executions \ {e} : call'[x] = call[x]
  BY <1>1, <1>3 DEF NoCall
<1>5. \A x \in Executions : call'[x].test \in Tests
  <2>1. test \in Tests
    BY <1>2, <1>4 DEF Tests
  <2>2. QED
    BY <1>4, <2>1 DEF SuiteTypes
<1>6. \A x \in Executions : Len(cases'[x]) <= MaxTests
  <2>1. Len(cases'[e]) = Len(cases[e]) + 1
    BY <1>1, <1>3
  <2>2. Len(cases'[e]) <= MaxTests
    BY <1>2, <2>1
  <2>3. QED
    BY <1>1, <1>3, <2>2 DEF SuiteTypes
<1>7. UNCHANGED <<isolation, children, leaves, timer, oomKilled, ran, unconfined,
                  expiry, outcome>>
  BY DEF Judge
<1>8. Sound \/ Fault
  BY DEF Judge
<1>9. QED
  BY <1>5, <1>6, <1>7, <1>8, FaultsAreBounded DEF SuiteTypes

LEMMA TypesInductive ==
  ASSUME EngineInvariant, SuiteTypes, [EngineNext]_engineVars
  PROVE  SuiteTypes'
<1>1. CASE UNCHANGED engineVars
  BY <1>1 DEF engineVars, sandboxVars, sessionVars, SuiteTypes
<1>2. CASE HostStep /\ UNCHANGED sessionVars
  <2>1. UNCHANGED <<cases, outcome>>
    BY <1>2 DEF sessionVars
  <2>2. ASSUME NEW e \in Executions,
               CallStep(e) \/ ObserveFails(e) \/ Work(e) \/ Exit(e) \/ JailFails(e)
                 \/ Crash(e)
        PROVE  /\ HostTypes' /\ (Sound \/ Fault)
               /\ \A x \in Executions : call'[x].test = call[x].test
    <3>1. HostTypes'
      BY <2>2, CallStepTypes, ProcessStepTypes
    <3>2. Sound \/ Fault
      BY <2>2 DEF CallStep, Allocate, Launch, Attach, Observe, Release,
                  ObserveFails, Work, Exit, JailFails, Crash, Sound
    <3>3. \A x \in Executions : call'[x].test = call[x].test
      BY <2>2, OnlyJudgeGoesOn DEF Work, Exit, JailFails
    <3>4. QED
      BY <3>1, <3>2, <3>3
  <2>3. ASSUME NEW c \in Cases, DeadlineSets(c) \/ DeadlineKills(c)
        PROVE  HostTypes' /\ Sound /\ call' = call
    BY <2>3, DeadlineTypes DEF DeadlineSets, DeadlineKills, Sound
  <2>4. /\ HostTypes' /\ (Sound \/ Fault)
        /\ \A x \in Executions : call'[x].test = call[x].test
    BY <1>2, <2>2, <2>3 DEF HostStep
  <2>5. QED
    BY <2>1, <2>4, ResultsKeepTypes, FaultsAreBounded DEF SuiteTypes, HostTypes
<1>3. ASSUME NEW e \in Executions, Start(e) \/ Judge(e) \/ Report(e)
      PROVE  SuiteTypes'
  BY <1>3, OverTypes, JudgeTypes
<1>4. QED
  BY <1>1, <1>2, <1>3 DEF EngineNext

LEMMA TypesInitially == EngineInit => SuiteTypes
<1> SUFFICES ASSUME EngineInit PROVE SuiteTypes
  OBVIOUS
<1>1. 1 \in Tests /\ 0 \in 0..MaxFaults
  BY DEF Tests
<1>2. QED
  BY <1>1 DEF EngineInit, SandboxInit, NoCall, SuiteTypes

\* The steps, processes, leaves, timers and results of an engine are what the
\* code holds, and none of them is ever at a case that the suite does not have.
THEOREM SuiteTypesHold == EngineSpec => []SuiteTypes
<1>1. EngineInit => SuiteTypes
  BY TypesInitially
<1>2. EngineInvariant /\ SuiteTypes /\ [EngineNext]_engineVars => SuiteTypes'
  BY TypesInductive
<1>3. QED
  BY <1>1, <1>2, EngineInvariantHolds, PTL DEF EngineSpec

\* The calls, the processes, the timers and the leaves of every execution hold
\* what they are declared to, whatever dies in the middle.
THEOREM SuiteTypeCorrect == EngineSpec => []SuiteTypeOK
BY SuiteTypesHold, EngineInvariantHolds, TypesMeanTypeOK, PTL

-----------------------------------------------------------------------------
(* What a program is blamed for.                                           *)

\* A timer runs while its case is waited for, is late only afterwards, and has
\* gone off on record.
TimersAreKnown(e) ==
  \A t \in Tests :
    /\ timer[<<e, t>>] \in {"expiring", "expired", "late"} =>
         expiry[<<e, t>>] # "never"
    /\ timer[<<e, t>>] \in {"armed", "expiring", "expired"} =>
         call[e].step = "waiting" /\ call[e].test = t
    /\ timer[<<e, t>>] = "late" =>
         \/ t < call[e].test
         \/ /\ t = call[e].test
            /\ call[e].step \in {"observed", "returned", "failed", "raised", "judged", "over"}

FailedByItself(e) ==
  \/ Does(call[e].test).ends \in {"nonzero", "signal"}
  \/ Now(e) \in oomKilled
  \/ isolation = "bwrap" /\ faults > 0

\* What ends a process that someone waits for is its program, the kernel for
\* its memory, bwrap in its place, or a deadline that has fired by then.
LeaderIsBlamed(e) ==
  call[e].step \in {"launched", "waiting"} /\ leader[e].state # "none" =>
    /\ leader[e].cpu > TimeLimit => Does(call[e].test).cpu > TimeLimit
    /\ leader[e].mem > MemoryLimit => Does(call[e].test).mem > MemoryLimit
    /\ leader[e].state = "ended" /\ leader[e].ending # "zero" =>
         FailedByItself(e) \/ Fired(Now(e))

\* That order is what the observer keeps: it asks the deadline after the end.
SeenIsBlamed(e) ==
  /\ call[e].step \in {"waiting", "observed", "returned"} => ~call[e].seen.byOom
  /\ call[e].step \in {"observed", "returned"} =>
       /\ call[e].seen.byWall => expiry[Now(e)] # "never"
       /\ call[e].seen.cpu > TimeLimit => Does(call[e].test).cpu > TimeLimit
       /\ call[e].seen.mem > MemoryLimit => Does(call[e].test).mem > MemoryLimit
       /\ call[e].seen.ending # "zero" /\ ~call[e].seen.byWall => FailedByItself(e)
  /\ call[e].step \in {"failed", "raised"} => faults > 0

VerdictIsDeserved(e, t, verdict, enforced) ==
  /\ verdict = "WRONG_ANSWER" =>
       \/ Written(t) # "right"
       \/ program.checker = "custom" /\ faults > 0
       \/ program.checker \notin {"token", "custom"}
  /\ verdict = "RUNTIME_ERROR" =>
       \/ Does(t).ends \in {"nonzero", "signal"}
       \/ <<e, t>> \in oomKilled
       \/ isolation = "bwrap" /\ faults > 0
  /\ verdict = "TIME_LIMIT" =>
       (enforced /\ Does(t).cpu > TimeLimit) \/ expiry[<<e, t>>] # "never"
  /\ verdict = "MEMORY_LIMIT" => enforced /\ Does(t).mem > MemoryLimit
  /\ verdict = "INTERNAL_ERROR" =>
       faults > 0 \/ (program.checker = "token" /\ Written(t) = "gone")

CasesAreDeserved(e) ==
  \A t \in DOMAIN cases[e] :
    VerdictIsDeserved(e, t, cases[e][t].status, cases[e][t].enforced)

OutcomeIsDeserved(e) ==
  outcome[e].status = "COMPILATION_ERROR" => ~Prepared(program) \/ faults > 0

ExecutionIsBlamed(e) ==
  /\ TimersAreKnown(e) /\ LeaderIsBlamed(e) /\ SeenIsBlamed(e)
  /\ CasesAreDeserved(e) /\ OutcomeIsDeserved(e)

BlameInvariant == \A e \in Executions : ExecutionIsBlamed(e)

\* All that the steps below are taken from.
Known == EngineInvariant /\ SuiteTypes /\ BlameInvariant

LEMMA BlameImpliesDeserved == BlameInvariant => BlameIsDeserved
<1> SUFFICES ASSUME BlameInvariant PROVE BlameIsDeserved
  OBVIOUS
<1>1. ASSUME NEW c \in Judged
      PROVE  /\ VerdictIsDeserved(c[1], c[2], StatusOf(c), Enforced(c))
             /\ c = <<c[1], c[2]>>
  BY DEF Judged, Cases, StatusOf, Enforced, BlameInvariant, ExecutionIsBlamed, CasesAreDeserved
<1>2. \A e \in Executions : OutcomeIsDeserved(e)
  BY DEF BlameInvariant, ExecutionIsBlamed
<1>3. QED
  BY <1>1, <1>2 DEF BlameIsDeserved, VerdictIsDeserved, OutcomeIsDeserved

\* A verdict that is deserved stays so: what it rests on stays on record.
LEMMA VerdictsStay ==
  ASSUME Known, program' = program, isolation' = isolation,
         oomKilled \subseteq oomKilled', faults' \in Nat, faults' >= faults,
         \A c \in Cases : expiry[c] # "never" => expiry'[c] # "never",
         NEW e \in Executions, NEW t \in DOMAIN cases[e], NEW verdict, NEW enforced,
         VerdictIsDeserved(e, t, verdict, enforced)
  PROVE  VerdictIsDeserved(e, t, verdict, enforced)'
<1>1. Does(t)' = Does(t) /\ Written(t)' = Written(t)
  BY DEF Does, Written
<1>2. faults \in Nat /\ <<e, t>> \in Cases
  <2>1. cases[e] \in Seq(CaseResult) /\ Len(cases[e]) <= MaxTests
    BY DEF Known, EngineInvariant, ExecutionTypeOK, SuiteTypes
  <2>2. t \in Tests
    BY <2>1 DEF Tests
  <2>3. QED
    BY <2>2 DEF Cases, Known, EngineInvariant, ExecutionTypeOK
<1>3. QED
  BY <1>1, <1>2 DEF VerdictIsDeserved

\* Failures of the host and kills for memory stay on record, and a step of one
\* execution touches no timer of another.
LEMMA BlameIsLocal ==
  ASSUME Known, NEW e \in Executions, program' = program, isolation' = isolation,
         oomKilled \subseteq oomKilled', faults' \in Nat, faults' >= faults,
         \A c \in Cases : expiry[c] # "never" => expiry'[c] # "never",
         \A x \in Executions \ {e} :
           /\ call'[x] = call[x] /\ leader'[x] = leader[x]
           /\ cases'[x] = cases[x] /\ outcome'[x] = outcome[x]
           /\ \A t \in Tests : timer'[<<x, t>>] = timer[<<x, t>>],
         ExecutionIsBlamed(e)'
  PROVE  BlameInvariant'
<1>1. \A t : Does(t)' = Does(t) /\ Written(t)' = Written(t)
  BY DEF Does, Written
<1>2. faults \in Nat
  BY DEF Known, EngineInvariant, ExecutionTypeOK
<1>3. \A x \in Executions : \A t \in Tests : <<x, t>> \in Cases
  BY DEF Cases
<1>4. ASSUME NEW x \in Executions \ {e} PROVE ExecutionIsBlamed(x)'
  <2>1. ExecutionIsBlamed(x) /\ Now(x)' = Now(x) /\ call[x].test \in Tests
    BY DEF Known, BlameInvariant, SuiteTypes, Now
  <2>2. TimersAreKnown(x)'
    BY <1>3, <2>1 DEF ExecutionIsBlamed, TimersAreKnown
  <2>3. FailedByItself(x) => FailedByItself(x)'
    BY <1>1, <1>2, <2>1 DEF FailedByItself
  <2>4. Fired(Now(x)) => Fired(Now(x))'
    BY <2>1 DEF Fired, Now
  <2>5. LeaderIsBlamed(x)'
    BY <1>1, <2>1, <2>3, <2>4 DEF ExecutionIsBlamed, LeaderIsBlamed
  <2>6. SeenIsBlamed(x)'
    <3>1. expiry[Now(x)] # "never" => expiry'[Now(x)] # "never"
      BY <1>3, <2>1 DEF Now
    <3>2. QED
      BY <1>1, <1>2, <2>1, <2>3, <3>1 DEF ExecutionIsBlamed, SeenIsBlamed
  <2>7. CasesAreDeserved(x)'
    BY <1>1, <1>2, <2>1, VerdictsStay DEF ExecutionIsBlamed, CasesAreDeserved
  <2>8. OutcomeIsDeserved(x)'
    BY <1>2, <2>1 DEF ExecutionIsBlamed, OutcomeIsDeserved, Prepared
  <2>9. QED
    BY <2>2, <2>5, <2>6, <2>7, <2>8 DEF ExecutionIsBlamed
<1>5. QED
  BY <1>4 DEF BlameInvariant

\* The steps of the host judge nothing.
LEMMA HostBlame ==
  ASSUME Known, NEW e \in Executions, program' = program,
         isolation' = isolation, UNCHANGED sessionVars, Sound \/ Fault,
         oomKilled \subseteq oomKilled',
         \A c \in Cases : expiry[c] # "never" => expiry'[c] # "never",
         \A x \in Executions \ {e} :
           /\ call'[x] = call[x] /\ leader'[x] = leader[x]
           /\ \A t \in Tests : timer'[<<x, t>>] = timer[<<x, t>>],
         TimersAreKnown(e)', LeaderIsBlamed(e)', SeenIsBlamed(e)'
  PROVE  BlameInvariant'
<1>1. cases' = cases /\ outcome' = outcome /\ \A t : Does(t)' = Does(t)
  BY DEF sessionVars, Does
<1>2. faults \in Nat /\ faults' \in Nat /\ faults' >= faults
  BY FaultsAreBounded DEF Known, EngineInvariant, ExecutionTypeOK
<1>3. ExecutionIsBlamed(e)
  BY DEF Known, BlameInvariant
<1>4. CasesAreDeserved(e)'
  BY <1>1, <1>2, <1>3, VerdictsStay DEF ExecutionIsBlamed, CasesAreDeserved
<1>5. OutcomeIsDeserved(e)'
  BY <1>1, <1>2, <1>3 DEF ExecutionIsBlamed, OutcomeIsDeserved, Prepared
<1>6. ExecutionIsBlamed(e)'
  BY <1>4, <1>5 DEF ExecutionIsBlamed
<1>7. QED
  BY <1>1, <1>2, <1>6, BlameIsLocal

LEMMA KnownOf ==
  ASSUME Known, NEW e \in Executions
  PROVE  /\ call \in [Executions -> CallRecord] /\ call[e] \in CallRecord
         /\ leader \in [Executions -> LeaderRecord] /\ leader[e] \in LeaderRecord
         /\ ExecutionIsSound(e) /\ ExecutionIsBlamed(e)
         /\ call[e].test \in Tests /\ Now(e) \in Cases
         /\ timer \in [Cases -> {"off", "armed", "expiring", "expired", "late"}]
BY NowIsACase DEF Known, EngineInvariant, ExecutionTypeOK, BlameInvariant, SuiteTypes

\* What ends a process by itself stays on record.
LEMMA FailureStays ==
  ASSUME Known, NEW e \in Executions, program' = program, isolation' = isolation,
         oomKilled \subseteq oomKilled', call'[e].test = call[e].test, Sound \/ Fault
  PROVE  FailedByItself(e) => FailedByItself(e)'
<1>1. Does(call[e].test)' = Does(call[e].test) /\ Now(e)' = Now(e)
  BY DEF Does, Now
<1>2. faults > 0 => faults' > 0
  BY DEF Known, EngineInvariant, ExecutionTypeOK, Sound, Fault
<1>3. QED
  BY <1>1, <1>2 DEF FailedByItself

LEMMA AllocateBlames ==
  ASSUME Known, NEW e \in Executions, Allocate(e), UNCHANGED sessionVars
  PROVE  BlameInvariant'
<1>1. /\ call \in [Executions -> CallRecord] /\ ExecutionIsSound(e)
      /\ ExecutionIsBlamed(e)
  BY KnownOf
<1>2. /\ call[e].step = "called" /\ (Sound \/ Fault)
      /\ UNCHANGED <<program, isolation, leader, timer, oomKilled, expiry>>
  BY DEF Allocate
<1>3. /\ call'[e].step = "allocated" /\ call'[e].test = call[e].test
      /\ \A x \in Executions \ {e} : call'[x] = call[x]
  BY <1>1 DEF Allocate, CallRecord
<1>4. leader[e].state = "none"
  BY <1>1, <1>2 DEF ExecutionIsSound, LeaderIsKnown
<1>5. TimersAreKnown(e)' /\ LeaderIsBlamed(e)' /\ SeenIsBlamed(e)'
  BY <1>1, <1>2, <1>3, <1>4
     DEF ExecutionIsBlamed, TimersAreKnown, LeaderIsBlamed, SeenIsBlamed
<1>6. QED
  BY <1>2, <1>3, <1>5, HostBlame

LEMMA LaunchBlames ==
  ASSUME Known, NEW e \in Executions, Launch(e), UNCHANGED sessionVars
  PROVE  BlameInvariant'
<1>1. /\ call \in [Executions -> CallRecord] /\ leader \in [Executions -> LeaderRecord]
      /\ ExecutionIsSound(e) /\ ExecutionIsBlamed(e)
  BY KnownOf
<1>2. /\ call[e].step = "allocated" /\ (Sound \/ Fault)
      /\ UNCHANGED <<program, isolation, timer, oomKilled, expiry>>
  BY DEF Launch
<1>3. /\ call'[e].test = call[e].test
      /\ \A x \in Executions \ {e} : call'[x] = call[x] /\ leader'[x] = leader[x]
      /\ \/ /\ call'[e].step = "launched"
            /\ leader'[e].state = "new"
            /\ leader'[e].mem = 0 /\ leader'[e].cpu = 0
         \/ call'[e].step = "failed" /\ Fault
  BY <1>1 DEF Launch, CallRecord, NoLeader
<1>4. TimersAreKnown(e)'
  BY <1>1, <1>2, <1>3 DEF ExecutionIsBlamed, TimersAreKnown
<1>5. LeaderIsBlamed(e)'
  BY <1>3 DEF LeaderIsBlamed
<1>6. faults \in Nat
  BY DEF Known, EngineInvariant, ExecutionTypeOK
<1>7. SeenIsBlamed(e)'
  BY <1>3, <1>6 DEF SeenIsBlamed, Fault
<1>8. QED
  BY <1>2, <1>3, <1>4, <1>5, <1>7, HostBlame

\* The timer is armed for a process that none of them has touched.
LEMMA AttachBlames ==
  ASSUME Known, NEW e \in Executions, Attach(e), UNCHANGED sessionVars
  PROVE  BlameInvariant'
<1>1. /\ call \in [Executions -> CallRecord] /\ leader \in [Executions -> LeaderRecord]
      /\ ExecutionIsSound(e) /\ ExecutionIsBlamed(e) /\ call[e].test \in Tests
      /\ Now(e) \in Cases
      /\ timer \in [Cases -> {"off", "armed", "expiring", "expired", "late"}]
  BY KnownOf
<1>2. /\ call[e].step = "launched" /\ (Sound \/ Fault)
      /\ UNCHANGED <<program, isolation, oomKilled, expiry>>
      /\ timer' = [timer EXCEPT ![Now(e)] = "armed"]
  BY DEF Attach
<1>3. /\ call'[e].step = "waiting" /\ call'[e].test = call[e].test
      /\ ~call'[e].seen.byOom
      /\ \A x \in Executions \ {e} : call'[x] = call[x] /\ leader'[x] = leader[x]
      /\ leader'[e].state = leader[e].state /\ leader'[e].ending = leader[e].ending
      /\ leader'[e].mem = leader[e].mem /\ leader'[e].cpu = leader[e].cpu
  <2>1. PICK enforced \in BOOLEAN :
          /\ call' = [call EXCEPT ![e].step = "waiting",
                        ![e].seen = [NotSeen EXCEPT !.enforced = enforced]]
          /\ leader' = [leader EXCEPT ![e].inLeaf = enforced /\ Alive(e)]
    BY DEF Attach
  <2>2. ~[NotSeen EXCEPT !.enforced = enforced].byOom
    BY DEF NotSeen
  <2>3. QED
    BY <1>1, <2>1, <2>2 DEF CallRecord, LeaderRecord
<1>4. \A x \in Executions : \A t \in Tests :
        timer'[<<x, t>>] = IF x = e /\ t = call[e].test THEN "armed" ELSE timer[<<x, t>>]
  BY <1>1, <1>2 DEF Now, Cases
<1>5. TimersAreKnown(e)'
  BY <1>1, <1>2, <1>3, <1>4 DEF ExecutionIsBlamed, TimersAreKnown
<1>6. ~Fired(Now(e))
  BY <1>1, <1>2 DEF ExecutionIsBlamed, TimersAreKnown, Fired, Now
<1>7. FailedByItself(e) => FailedByItself(e)'
  BY <1>2, <1>3, FailureStays
<1>8. LeaderIsBlamed(e)'
  BY <1>1, <1>2, <1>3, <1>6, <1>7 DEF ExecutionIsBlamed, LeaderIsBlamed, Does
<1>9. SeenIsBlamed(e)'
  BY <1>3 DEF SeenIsBlamed
<1>10. QED
  BY <1>2, <1>3, <1>4, <1>5, <1>8, <1>9, HostBlame

\* The end is seen first and the deadline asked after it.
LEMMA ObserveBlames ==
  ASSUME Known, NEW e \in Executions, Observe(e), UNCHANGED sessionVars
  PROVE  BlameInvariant'
<1>1. /\ call \in [Executions -> CallRecord] /\ call[e] \in CallRecord
      /\ leader \in [Executions -> LeaderRecord] /\ leader[e] \in LeaderRecord
      /\ ExecutionIsSound(e) /\ ExecutionIsBlamed(e) /\ call[e].test \in Tests
      /\ Now(e) \in Cases
      /\ timer \in [Cases -> {"off", "armed", "expiring", "expired", "late"}]
  BY KnownOf
<1>2. /\ call[e].step = "waiting" /\ leader[e].state = "ended" /\ (Sound \/ Fault)
      /\ UNCHANGED <<program, isolation, oomKilled, expiry>>
      /\ timer' = [timer EXCEPT ![Now(e)] = AfterCancel(timer[Now(e)])]
      /\ leader' = [leader EXCEPT ![e] = NoLeader]
  BY <1>1 DEF Observe
<1>3. PICK cpu \in {0, leader[e].cpu}, mem \in {0, leader[e].mem} :
        call' = [call EXCEPT ![e].step = "observed",
                   ![e].seen = [@ EXCEPT !.ending = leader[e].ending,
                                         !.cpu = cpu, !.mem = mem,
                                         !.byWall = Fired(Now(e))]]
  BY ObserveSees
<1>4. /\ call'[e].step = "observed" /\ call'[e].test = call[e].test
      /\ \A x \in Executions \ {e} : call'[x] = call[x]
      /\ call'[e].seen = [call[e].seen EXCEPT !.ending = leader[e].ending,
                            !.cpu = cpu, !.mem = mem,
                            !.byWall = Fired(Now(e))]
  BY <1>1, <1>3 DEF CallRecord
<1>5. /\ call'[e].seen.byOom = call[e].seen.byOom
      /\ call'[e].seen.ending = leader[e].ending /\ call'[e].seen.mem = mem
      /\ call'[e].seen.cpu = cpu
      /\ call'[e].seen.byWall = Fired(Now(e))
  <2>1. call[e].seen \in SandboxResult
    BY <1>1 DEF CallRecord
  <2>2. QED
    BY <1>4, <2>1 DEF SandboxResult
<1>6. /\ leader'[e].state = "none"
      /\ \A x \in Executions \ {e} : leader'[x] = leader[x]
  BY <1>1, <1>2 DEF NoLeader
<1>7. \A x \in Executions : \A t \in Tests :
        timer'[<<x, t>>] = IF x = e /\ t = call[e].test
                           THEN AfterCancel(timer[<<x, t>>]) ELSE timer[<<x, t>>]
  BY <1>1, <1>2 DEF Now, Cases
<1>8. TimersAreKnown(e)'
  BY <1>1, <1>2, <1>4, <1>7 DEF ExecutionIsBlamed, TimersAreKnown, AfterCancel
<1>9. LeaderIsBlamed(e)'
  BY <1>6 DEF LeaderIsBlamed
<1>10. FailedByItself(e) => FailedByItself(e)'
  BY <1>2, <1>4, FailureStays
<1>11. SeenIsBlamed(e)'
  <2>1. Now(e)' = Now(e) /\ Now(e) = <<e, call[e].test>>
    BY <1>4 DEF Now
  <2>2. Fired(Now(e)) => expiry[Now(e)] # "never"
    BY <1>1, <2>1 DEF ExecutionIsBlamed, TimersAreKnown, Fired
  <2>3. QED
    BY <1>1, <1>2, <1>3, <1>4, <1>5, <1>10, <2>1, <2>2
       DEF ExecutionIsBlamed, LeaderIsBlamed, SeenIsBlamed, Does
<1>12. QED
  BY <1>2, <1>4, <1>6, <1>7, <1>8, <1>9, <1>11, HostBlame

LEMMA ReleaseBlames ==
  ASSUME Known, NEW e \in Executions, Release(e), UNCHANGED sessionVars
  PROVE  BlameInvariant'
<1>1. /\ call \in [Executions -> CallRecord] /\ call[e] \in CallRecord
      /\ ExecutionIsSound(e) /\ ExecutionIsBlamed(e)
  BY KnownOf
<1>2. /\ call[e].step \in {"observed", "failed"} /\ (Sound \/ Fault)
      /\ UNCHANGED <<program, isolation, leader, timer, oomKilled, expiry>>
  BY DEF Release
<1>3. /\ call'[e].step = IF call[e].step = "failed" THEN "raised" ELSE "returned"
      /\ call'[e].test = call[e].test /\ call'[e].seen = call[e].seen
      /\ \A x \in Executions \ {e} : call'[x] = call[x]
  BY <1>1 DEF Release, CallRecord
<1>4. leader[e].state = "none"
  BY <1>1, <1>2 DEF ExecutionIsSound, LeaderIsKnown
<1>5. TimersAreKnown(e)' /\ LeaderIsBlamed(e)'
  BY <1>1, <1>2, <1>3, <1>4 DEF ExecutionIsBlamed, TimersAreKnown, LeaderIsBlamed
<1>6. faults' \in Nat /\ faults' >= faults /\ faults \in Nat
  BY <1>2, FaultsAreBounded DEF Known, EngineInvariant, ExecutionTypeOK
<1>7. SeenIsBlamed(e)'
  BY <1>1, <1>2, <1>3, <1>6
     DEF ExecutionIsBlamed, SeenIsBlamed, FailedByItself, Does, Now
<1>8. QED
  BY <1>2, <1>3, <1>5, <1>7, HostBlame

LEMMA WorkBlames ==
  ASSUME Known, NEW e \in Executions, Work(e), UNCHANGED sessionVars
  PROVE  BlameInvariant'
<1> DEFINE p == Does(call[e].test)
           killed == leader[e].inLeaf /\ p.mem > MemoryLimit
<1>1. /\ leader \in [Executions -> LeaderRecord] /\ leader[e] \in LeaderRecord
      /\ ExecutionIsBlamed(e)
  BY KnownOf
<1>2. /\ UNCHANGED <<call, program, isolation, timer, expiry>> /\ Sound
      /\ oomKilled' = IF killed THEN oomKilled \cup {Now(e)} ELSE oomKilled
  BY DEF Work, Sound
<1>3. \A x \in Executions \ {e} : leader'[x] = leader[x]
  BY <1>1 DEF Work
<1>4. /\ leader'[e].cpu = p.cpu
      /\ IF killed
         THEN leader'[e].state = "ended" /\ leader'[e].mem = MemoryLimit
         ELSE leader'[e].state = "running" /\ leader'[e].mem = p.mem
  <2>1. CASE killed
    BY <1>1, <2>1 DEF Work, Dead, LeaderRecord
  <2>2. CASE ~killed
    BY <1>1, <2>2 DEF Work, LeaderRecord
  <2>3. QED
    BY <2>1, <2>2
<1>5. Now(e)' = Now(e) /\ p' = p
  BY <1>2 DEF Now, Does
<1>6. killed => FailedByItself(e)'
  BY <1>2, <1>5 DEF FailedByItself
<1>7. FailedByItself(e) => FailedByItself(e)'
  BY <1>2, FailureStays
<1> HIDE DEF p
<1>8. LeaderIsBlamed(e)'
  BY <1>4, <1>5, <1>6 DEF LeaderIsBlamed, p
<1>9. TimersAreKnown(e)'
  BY <1>1, <1>2 DEF ExecutionIsBlamed, TimersAreKnown
<1>10. SeenIsBlamed(e)'
  BY <1>1, <1>2, <1>5, <1>7 DEF ExecutionIsBlamed, SeenIsBlamed, Sound, p
<1>11. oomKilled \subseteq oomKilled'
  BY <1>2
<1>12. QED
  BY <1>2, <1>3, <1>8, <1>9, <1>10, <1>11, HostBlame

LEMMA ExitBlames ==
  ASSUME Known, NEW e \in Executions, Exit(e), UNCHANGED sessionVars
  PROVE  BlameInvariant'
<1> DEFINE p == Does(call[e].test)
<1>1. /\ leader \in [Executions -> LeaderRecord] /\ leader[e] \in LeaderRecord
      /\ ExecutionIsSound(e) /\ ExecutionIsBlamed(e)
  BY KnownOf
<1>2. /\ UNCHANGED <<call, program, isolation, timer, oomKilled, expiry>> /\ Sound
      /\ leader[e].state = "running" /\ p.ends # "never"
  BY DEF Exit, Sound
<1>3. /\ \A x \in Executions \ {e} : leader'[x] = leader[x]
      /\ leader'[e].state = "ended" /\ leader'[e].ending = Passed(p.ends)
      /\ leader'[e].mem = leader[e].mem /\ leader'[e].cpu = leader[e].cpu
  BY <1>1 DEF Exit, Dead, LeaderRecord
<1>4. p.ends \in Endings
  BY <1>1, <1>2, TestsHaveTypes
     DEF Known, EngineInvariant, ExecutionIsSound, InSuite, Behaviour
<1>5. (FailedByItself(e) => FailedByItself(e)') /\ p' = p /\ Now(e)' = Now(e)
  BY <1>2, FailureStays DEF Does, Now
<1>6. Passed(p.ends) = "zero" \/ FailedByItself(e)
  BY <1>4 DEF FailedByItself, Endings, Passed
<1> HIDE DEF p
<1>7. LeaderIsBlamed(e)'
  BY <1>1, <1>2, <1>3, <1>5, <1>6 DEF ExecutionIsBlamed, LeaderIsBlamed, p
<1>8. TimersAreKnown(e)' /\ SeenIsBlamed(e)'
  BY <1>1, <1>2, <1>5 DEF ExecutionIsBlamed, TimersAreKnown, SeenIsBlamed, Sound, p
<1>9. QED
  BY <1>2, <1>3, <1>7, <1>8, HostBlame

LEMMA CrashBlames ==
  ASSUME Known, NEW e \in Executions, Crash(e), UNCHANGED sessionVars
  PROVE  BlameInvariant'
<1>1. /\ call \in [Executions -> CallRecord] /\ leader \in [Executions -> LeaderRecord]
  BY KnownOf
<1>2. /\ UNCHANGED <<program, isolation, oomKilled, expiry>> /\ Fault
      /\ timer' = [c \in Cases |-> IF c[1] = e THEN "off" ELSE timer[c]]
  BY DEF Crash
<1>3. /\ call'[e].step = "crashed"
      /\ \A x \in Executions \ {e} : call'[x] = call[x] /\ leader'[x] = leader[x]
  BY <1>1 DEF Crash
<1>4. \A x \in Executions : \A t \in Tests :
        timer'[<<x, t>>] = IF x = e THEN "off" ELSE timer[<<x, t>>]
  BY <1>2 DEF Cases
<1>5. TimersAreKnown(e)' /\ LeaderIsBlamed(e)' /\ SeenIsBlamed(e)'
  BY <1>3, <1>4 DEF TimersAreKnown, LeaderIsBlamed, SeenIsBlamed
<1>6. QED
  BY <1>2, <1>3, <1>4, <1>5, HostBlame

\* bwrap fails in the place of the program, and the host with it.
LEMMA JailFailsBlames ==
  ASSUME Known, NEW e \in Executions, JailFails(e), UNCHANGED sessionVars
  PROVE  BlameInvariant'
<1>1. /\ leader \in [Executions -> LeaderRecord] /\ leader[e] \in LeaderRecord
      /\ ExecutionIsBlamed(e) /\ faults \in Nat
  BY KnownOf DEF Known, EngineInvariant, ExecutionTypeOK
<1>2. /\ UNCHANGED <<call, program, isolation, timer, oomKilled, expiry>>
      /\ Fault /\ isolation = "bwrap" /\ leader[e].state = "new"
      /\ leader' = [leader EXCEPT ![e] = Dead(leader[e], "nonzero")]
  BY <1>1 DEF JailFails
<1>3. /\ \A x \in Executions \ {e} : leader'[x] = leader[x]
      /\ leader'[e].cpu = leader[e].cpu /\ leader'[e].mem = leader[e].mem
  BY <1>1, <1>2 DEF Dead, LeaderRecord
<1>4. faults' > 0 /\ FailedByItself(e)'
  BY <1>1, <1>2 DEF Fault, FailedByItself
<1>5. LeaderIsBlamed(e)'
  BY <1>1, <1>2, <1>3, <1>4 DEF ExecutionIsBlamed, LeaderIsBlamed, Does
<1>6. TimersAreKnown(e)' /\ SeenIsBlamed(e)'
  BY <1>1, <1>2, <1>4 DEF ExecutionIsBlamed, TimersAreKnown, SeenIsBlamed, Does, Now
<1>7. QED
  BY <1>2, <1>3, <1>5, <1>6, HostBlame

\* What cannot be observed is left to the host's failure.
LEMMA ObserveFailsBlames ==
  ASSUME Known, NEW e \in Executions, ObserveFails(e), UNCHANGED sessionVars
  PROVE  BlameInvariant'
<1>1. /\ call \in [Executions -> CallRecord] /\ call[e] \in CallRecord
      /\ leader \in [Executions -> LeaderRecord]
      /\ ExecutionIsBlamed(e) /\ call[e].test \in Tests /\ Now(e) \in Cases
      /\ timer \in [Cases -> {"off", "armed", "expiring", "expired", "late"}]
      /\ faults \in Nat
  BY KnownOf DEF Known, EngineInvariant, ExecutionTypeOK
<1>2. /\ call[e].step \in {"launched", "waiting"} /\ Fault
      /\ UNCHANGED <<program, isolation, oomKilled, expiry>>
      /\ timer' = [timer EXCEPT ![Now(e)] = AfterCancel(timer[Now(e)])]
      /\ leader' = [leader EXCEPT ![e] = NoLeader]
  BY <1>1 DEF ObserveFails
<1>3. /\ call'[e].step = "failed" /\ call'[e].test = call[e].test
      /\ \A x \in Executions \ {e} : call'[x] = call[x] /\ leader'[x] = leader[x]
      /\ leader'[e].state = "none"
  BY <1>1, <1>2 DEF ObserveFails, CallRecord, NoLeader
<1>4. \A x \in Executions : \A t \in Tests :
        timer'[<<x, t>>] = IF x = e /\ t = call[e].test
                           THEN AfterCancel(timer[<<x, t>>]) ELSE timer[<<x, t>>]
  BY <1>1, <1>2 DEF Now, Cases
<1>5. TimersAreKnown(e)'
  BY <1>1, <1>2, <1>3, <1>4 DEF ExecutionIsBlamed, TimersAreKnown, AfterCancel
<1>6. LeaderIsBlamed(e)' /\ SeenIsBlamed(e)'
  BY <1>1, <1>2, <1>3 DEF LeaderIsBlamed, SeenIsBlamed, Fault
<1>7. QED
  BY <1>2, <1>3, <1>4, <1>5, <1>6, HostBlame

\* A late kill finds a process of its group or none, and only the deadline of
\* the case that is waited for has one to kill.
LEMMA DeadlineBlames ==
  ASSUME Known, NEW c \in Cases, DeadlineSets(c) \/ DeadlineKills(c),
         UNCHANGED sessionVars
  PROVE  BlameInvariant'
<1>1. PICK e \in Executions, k \in Tests : c = <<e, k>>
  BY DEF Cases
<1>2. /\ call \in [Executions -> CallRecord] /\ leader \in [Executions -> LeaderRecord]
      /\ leader[e] \in LeaderRecord /\ ExecutionIsBlamed(e) /\ call[e].test \in Tests
      /\ timer \in [Cases -> {"off", "armed", "expiring", "expired", "late"}]
  BY KnownOf
<1>3. /\ UNCHANGED <<call, program, isolation, oomKilled>> /\ Sound
      /\ \A x \in Cases : expiry[x] # "never" => expiry'[x] # "never"
  BY DEF DeadlineSets, DeadlineKills, Sound, Known, SuiteTypes
<1>4. /\ FailedByItself(e) => FailedByItself(e)'
      /\ \A t : Does(t)' = Does(t)
      /\ Now(e)' = Now(e) /\ Now(e) = <<e, call[e].test>>
  BY <1>3, FailureStays DEF Does, Now
<1>5. SeenIsBlamed(e)'
  BY <1>2, <1>3, <1>4 DEF ExecutionIsBlamed, SeenIsBlamed, Sound, Cases
<1>6. CASE DeadlineSets(c)
  <2>1. leader' = leader /\ timer[c] = "armed"
        /\ timer' = [timer EXCEPT ![c] = "expiring"]
        /\ expiry'[c] # "never"
    BY <1>6 DEF DeadlineSets, Known, SuiteTypes
  <2>2. \A x \in Executions : \A t \in Tests :
          timer'[<<x, t>>] = IF x = e /\ t = k THEN "expiring" ELSE timer[<<x, t>>]
    BY <1>1, <1>2, <2>1 DEF Cases
  <2>3. TimersAreKnown(e)'
    BY <1>1, <1>2, <1>3, <2>1, <2>2 DEF ExecutionIsBlamed, TimersAreKnown, Cases
  <2>4. Fired(Now(e)) => Fired(Now(e))'
    BY <1>1, <1>2, <1>4, <2>1, <2>2 DEF Fired
  <2>5. LeaderIsBlamed(e)'
    BY <1>2, <1>3, <1>4, <2>1, <2>4 DEF ExecutionIsBlamed, LeaderIsBlamed
  <2>6. QED
    BY <1>3, <1>5, <2>1, <2>2, <2>3, <2>5, HostBlame
<1>7. CASE DeadlineKills(c)
  <2>1. /\ timer[c] \in {"expiring", "late"}
        /\ timer' = [timer EXCEPT ![c] = AfterKill(timer[c])]
        /\ IF call[e].test = k /\ Alive(e)
           THEN leader' = [leader EXCEPT ![e] = Dead(leader[e], "signal")]
           ELSE leader' = leader
    BY <1>1, <1>2, <1>7 DEF DeadlineKills
  <2>2. \A x \in Executions : \A t \in Tests :
          timer'[<<x, t>>] = IF x = e /\ t = k THEN AfterKill(timer[<<x, t>>])
                             ELSE timer[<<x, t>>]
    BY <1>1, <1>2, <2>1 DEF Cases
  <2>3. TimersAreKnown(e)'
    BY <1>1, <1>2, <1>3, <2>1, <2>2
       DEF ExecutionIsBlamed, TimersAreKnown, AfterKill, Cases
  <2>4. /\ \A x \in Executions \ {e} : leader'[x] = leader[x]
        /\ \/ leader'[e] = leader[e]
           \/ /\ call[e].test = k /\ Alive(e) /\ leader'[e].mem = leader[e].mem
              /\ leader'[e].cpu = leader[e].cpu
    <3>1. CASE call[e].test = k /\ Alive(e)
      <4>1. /\ Dead(leader[e], "signal").mem = leader[e].mem
            /\ Dead(leader[e], "signal").cpu = leader[e].cpu
        BY <1>2 DEF Dead, LeaderRecord
      <4>2. QED
        BY <1>2, <2>1, <3>1, <4>1
    <3>2. CASE ~(call[e].test = k /\ Alive(e))
      BY <2>1, <3>2
    <3>3. QED
      BY <3>1, <3>2
  <2>5. Fired(Now(e)) => Fired(Now(e))'
    BY <1>1, <1>2, <1>4, <2>2 DEF Fired, AfterKill
  <2>6. call[e].test = k /\ call[e].step \in {"launched", "waiting"} => Fired(Now(e))'
    BY <1>1, <1>2, <1>4, <2>1, <2>2
       DEF ExecutionIsBlamed, TimersAreKnown, Fired, AfterKill, Tests
  <2>7. LeaderIsBlamed(e)'
    BY <1>2, <1>3, <1>4, <2>4, <2>5, <2>6
       DEF ExecutionIsBlamed, LeaderIsBlamed, Alive
  <2>8. QED
    BY <1>3, <1>5, <2>2, <2>3, <2>4, <2>7, HostBlame
<1>8. QED
  BY <1>6, <1>7

\* The steps of the session find no process and arm no timer.
LEMMA SessionBlame ==
  ASSUME Known, NEW e \in Executions,
         UNCHANGED <<program, isolation, leader, timer, oomKilled, expiry>>, Sound \/ Fault,
         \A x \in Executions \ {e} :
           call'[x] = call[x] /\ cases'[x] = cases[x] /\ outcome'[x] = outcome[x],
         call[e].step \in {"idle", "returned", "raised", "judged"},
         call[e].step = "idle" => call'[e].step \in {"called", "over"},
         call[e].step = "judged" => call'[e].step = "over",
         call'[e].step \in {"called", "judged", "over"},
         \/ call'[e].test = call[e].test
         \/ call'[e].test = call[e].test + 1 /\ call'[e].step = "called",
         call'[e].step = "called" /\ call'[e].test = call[e].test =>
           call[e].step = "idle",
         CasesAreDeserved(e)', OutcomeIsDeserved(e)'
  PROVE  BlameInvariant'
<1>1. /\ ExecutionIsBlamed(e) /\ ExecutionIsSound(e) /\ call[e].test \in Tests
      /\ MaxTests \in Nat
  BY KnownOf
<1>2. leader[e].state = "none"
  BY <1>1 DEF ExecutionIsSound, LeaderIsKnown
<1>3. TimersAreKnown(e)'
  <2>1. SUFFICES ASSUME NEW t \in Tests
                 PROVE  /\ timer[<<e, t>>] \notin {"armed", "expiring", "expired"}
                        /\ timer[<<e, t>>] = "late" => expiry[<<e, t>>] # "never"
                        /\ timer[<<e, t>>] = "late" =>
                             \/ t < call'[e].test
                             \/ t = call'[e].test /\ call'[e].step \in {"judged", "over"}
    BY DEF TimersAreKnown
  <2>2. /\ timer[<<e, t>>] \notin {"armed", "expiring", "expired"}
        /\ timer[<<e, t>>] = "late" => expiry[<<e, t>>] # "never"
        /\ timer[<<e, t>>] = "late" =>
             \/ t < call[e].test
             \/ t = call[e].test /\ call[e].step # "idle"
    BY <1>1 DEF ExecutionIsBlamed, TimersAreKnown
  <2>3. t \in Nat /\ call[e].test \in Nat
    BY <1>1 DEF Tests
  <2>4. QED
    BY <2>2, <2>3
<1>4. LeaderIsBlamed(e)' /\ SeenIsBlamed(e)'
  BY <1>2 DEF LeaderIsBlamed, SeenIsBlamed
<1>5. faults' \in Nat /\ faults' >= faults
  BY FaultsAreBounded DEF Known
<1>6. ExecutionIsBlamed(e)'
  BY <1>3, <1>4 DEF ExecutionIsBlamed
<1>7. QED
  BY <1>5, <1>6, BlameIsLocal

LEMMA StartBlames ==
  ASSUME Known, NEW e \in Executions, Start(e)
  PROVE  BlameInvariant'
<1>1. /\ call \in [Executions -> CallRecord] /\ call[e] \in CallRecord
      /\ ExecutionIsBlamed(e)
      /\ outcome = [x \in Executions |-> outcome[x]]
  BY KnownOf DEF Known, EngineInvariant, ExecutionTypeOK
<1>2. /\ call[e].step = "idle" /\ (Sound \/ Fault)
      /\ UNCHANGED <<program, isolation, leader, timer, oomKilled, expiry, cases>>
  BY DEF Start
<1>3. faults \in Nat /\ faults' \in Nat /\ faults' >= faults
  BY <1>2, FaultsAreBounded DEF Known, EngineInvariant, ExecutionTypeOK
<1>4. PICK step \in {"called", "over"} : call' = [call EXCEPT ![e].step = step]
  BY DEF Start, Over
<1>5. PICK result :
        /\ outcome' = outcome \/ outcome' = [outcome EXCEPT ![e] = result]
        /\ result.status = "COMPILATION_ERROR" => ~Prepared(program) \/ Fault
  <2>1. \A total : Unrun("INTERNAL_ERROR", total).status = "INTERNAL_ERROR"
    BY DEF Unrun
  <2>2. Raised.status = "raised"
    BY DEF Raised, Unrun
  <2>3. QED
    BY <2>1, <2>2 DEF Start, Over
<1>6. /\ call'[e].step = step /\ call'[e].test = call[e].test
      /\ \A x \in Executions \ {e} :
           call'[x] = call[x] /\ outcome'[x] = outcome[x]
      /\ outcome'[e] = outcome[e] \/ outcome'[e] = result
  BY <1>1, <1>4, <1>5 DEF CallRecord
<1>7. CasesAreDeserved(e)'
  BY <1>1, <1>2, <1>3, VerdictsStay DEF ExecutionIsBlamed, CasesAreDeserved
<1>8. OutcomeIsDeserved(e)'
  BY <1>1, <1>2, <1>3, <1>5, <1>6
     DEF ExecutionIsBlamed, OutcomeIsDeserved, Prepared, Fault
<1>9. \A x \in Executions \ {e} : cases'[x] = cases[x]
  BY <1>2
<1>10. QED
  BY <1>2, <1>4, <1>6, <1>7, <1>8, <1>9, SessionBlame

\* A suite that was judged has the verdict of one of its cases.
LEMMA SummaryIsAVerdict ==
  ASSUME EngineInvariant, NEW e \in Executions, call[e].step = "judged"
  PROVE  Summary(cases[e], Total).status \in CaseVerdicts
<1>1. PICK n \in 1..Total : Len(cases[e]) = n /\ Failures(cases[e]) \in {{}, {n}}
  BY OnlyTheLastFails
<1>2. CASE Failures(cases[e]) = {}
  BY <1>2 DEF Summary, CaseVerdicts
<1>3. CASE Failures(cases[e]) = {n}
  <2>1. FirstFailure(cases[e]) = n
    BY <1>1, <1>3 DEF FirstFailure
  <2>2. cases[e][n] \in CaseResult
    <3>1. cases[e] \in Seq(CaseResult) /\ n \in DOMAIN cases[e]
      BY <1>3 DEF EngineInvariant, ExecutionTypeOK, Failures
    <3>2. QED
      BY <1>1, <3>1
  <2>3. Summary(cases[e], Total).status = cases[e][n].status
    BY <1>3, <2>1 DEF Summary
  <2>4. QED
    BY <2>2, <2>3 DEF CaseResult
<1>4. QED
  BY <1>1, <1>2, <1>3

LEMMA ReportBlames ==
  ASSUME Known, NEW e \in Executions, Report(e)
  PROVE  BlameInvariant'
<1>1. /\ call \in [Executions -> CallRecord] /\ call[e] \in CallRecord
      /\ ExecutionIsBlamed(e)
      /\ outcome = [x \in Executions |-> outcome[x]]
      /\ cases[e] \in Seq(CaseResult)
  BY KnownOf DEF Known, EngineInvariant, ExecutionTypeOK
<1>2. /\ call[e].step = "judged" /\ Sound
      /\ UNCHANGED <<program, isolation, leader, timer, oomKilled, expiry, cases>>
  BY DEF Report, Sound
<1>3. PICK result \in {Summary(cases[e], Total), Raised} :
        /\ call' = [call EXCEPT ![e].step = "over"]
        /\ outcome' = [outcome EXCEPT ![e] = result]
  BY DEF Report, Over
<1>4. result.status # "COMPILATION_ERROR"
  <2>1. Raised.status # "COMPILATION_ERROR"
    BY DEF Raised, Unrun
  <2>2. Summary(cases[e], Total).status \in CaseVerdicts
    BY <1>2, SummaryIsAVerdict DEF Known
  <2>3. QED
    BY <1>3, <2>1, <2>2 DEF CaseVerdicts
<1>5. /\ call'[e].step = "over" /\ call'[e].test = call[e].test
      /\ \A x \in Executions \ {e} :
           call'[x] = call[x] /\ outcome'[x] = outcome[x]
      /\ outcome'[e] = result
  BY <1>1, <1>3 DEF CallRecord
<1>6. CasesAreDeserved(e)'
  <2>1. faults' \in Nat /\ faults' >= faults
    BY <1>2, FaultsAreBounded DEF Known
  <2>2. QED
    BY <1>1, <1>2, <2>1, VerdictsStay DEF ExecutionIsBlamed, CasesAreDeserved
<1>7. OutcomeIsDeserved(e)'
  BY <1>4, <1>5 DEF OutcomeIsDeserved
<1>8. \A x \in Executions \ {e} : cases'[x] = cases[x]
  BY <1>2
<1>9. QED
  BY <1>2, <1>5, <1>6, <1>7, <1>8, SessionBlame

\* What a verdict says of the process that was seen and of its output.
LEMMA RejectedCase ==
  ASSUME NEW seen \in SandboxResult, NEW kind, NEW output, NEW works, NEW verdict,
         verdict = CaseVerdict(seen, kind, output, works)
  PROVE  /\ verdict = "WRONG_ANSWER" => ~Accepts(kind, output, works)
         /\ verdict = "RUNTIME_ERROR" => seen.ending # "zero" /\ ~seen.byWall
         /\ verdict = "TIME_LIMIT" =>
              seen.byWall \/ (seen.enforced /\ seen.cpu > TimeLimit)
         /\ verdict = "MEMORY_LIMIT" =>
              seen.byOom \/ (seen.enforced /\ seen.mem > MemoryLimit)
         /\ verdict = "INTERNAL_ERROR" => kind = "token" /\ output = "gone"
<1>1. CASE from_process(seen) = "OK"
  BY <1>1 DEF CaseVerdict
<1>2. CASE from_process(seen) # "OK"
  <2>1. verdict = from_process(seen)
    BY <1>2 DEF CaseVerdict
  <2>2. /\ seen.byOom \in BOOLEAN /\ seen.byWall \in BOOLEAN /\ seen.enforced \in BOOLEAN
        /\ seen.cpu \in Nat /\ seen.mem \in Nat
    BY DEF SandboxResult
  <2>3. QED
    BY <1>2, <2>1, <2>2 DEF from_process
<1>3. QED
  BY <1>1, <1>2

\* On a host that has failed anything may be called a failure of the engine.
LEMMA FailureOfTheHost ==
  ASSUME faults' > 0, NEW e, NEW t, NEW enforced \in BOOLEAN, NEW verdict,
         verdict = "INTERNAL_ERROR"
  PROVE  VerdictIsDeserved(e, t, verdict, enforced)'
<1>1. verdict \notin {"WRONG_ANSWER", "RUNTIME_ERROR", "TIME_LIMIT", "MEMORY_LIMIT"}
  OBVIOUS
<1>2. QED
  BY <1>1 DEF VerdictIsDeserved

\* The blame for a case that is being judged.
LEMMA BlameForThisCase ==
  ASSUME Known, NEW e \in Executions, call[e].step \in {"returned", "raised"},
         UNCHANGED <<program, isolation, oomKilled, expiry>>,
         NEW sound \in BOOLEAN, NEW verdict \in MayGive(e, sound),
         IF sound THEN Sound ELSE Fault,
         NEW n, n = call[e].test,
         NEW enforced \in BOOLEAN, enforced = call[e].seen.enforced
  PROVE  VerdictIsDeserved(e, n, verdict, enforced)'
<1> DEFINE c == call[e]
           output == Written(n)
<1>1. /\ ExecutionIsSound(e) /\ SeenIsBlamed(e) /\ c.seen \in SandboxResult
      /\ faults \in Nat
  BY KnownOf DEF Known, EngineInvariant, ExecutionTypeOK, ExecutionIsBlamed, CallRecord
<1>2. \A t : Does(t)' = Does(t) /\ Written(t)' = Written(t)
  BY DEF Does, Written
<1>3. CASE c.step = "raised"
  <2>1. verdict = "INTERNAL_ERROR" /\ faults > 0
    BY <1>1, <1>3 DEF MayGive, SeenIsBlamed
  <2>2. faults' > 0
    BY <1>1, <2>1 DEF Sound, Fault
  <2>3. QED
    BY <2>1, <2>2, FailureOfTheHost
<1>4. CASE c.step = "returned" /\ ~sound /\ verdict = "INTERNAL_ERROR"
  <2>1. faults' > 0
    BY <1>1, <1>4 DEF Fault
  <2>2. QED
    BY <1>4, <2>1, FailureOfTheHost
<1>5. ASSUME c.step = "returned", ~(~sound /\ verdict = "INTERNAL_ERROR")
      PROVE  VerdictIsDeserved(e, n, verdict, enforced)'
  <2>1. PICK works \in BOOLEAN :
          /\ verdict = CaseVerdict(c.seen, program.checker, output, works)
          /\ works \/ (program.checker = "custom" /\ ~sound)
    <3>1. CASE sound
      BY <1>5, <3>1 DEF MayGive
    <3>2. CASE ~sound
      <4>1. verdict = CaseVerdict(c.seen, program.checker, output, program.checker # "custom")
        BY <1>5, <3>2 DEF MayGive
      <4>2. QED
        BY <3>2, <4>1
    <3>3. QED
      BY <3>1, <3>2
  <2>2. /\ verdict = "WRONG_ANSWER" => ~Accepts(program.checker, output, works)
        /\ verdict = "RUNTIME_ERROR" => c.seen.ending # "zero" /\ ~c.seen.byWall
        /\ verdict = "TIME_LIMIT" =>
             c.seen.byWall \/ (enforced /\ c.seen.cpu > TimeLimit)
        /\ verdict = "MEMORY_LIMIT" =>
             c.seen.byOom \/ (enforced /\ c.seen.mem > MemoryLimit)
        /\ verdict = "INTERNAL_ERROR" => program.checker = "token" /\ output = "gone"
    BY <1>1, <2>1, RejectedCase
  <2>3. ~sound => faults' > 0
    BY <1>1 DEF Fault
  <2>4. ~Accepts(program.checker, output, works) =>
          \/ output # "right"
          \/ program.checker = "custom" /\ faults' > 0
          \/ program.checker \notin {"token", "custom"}
    BY <2>1, <2>3 DEF Accepts
  <2>5. /\ c.seen.ending # "zero" /\ ~c.seen.byWall =>
             \/ Does(n).ends \in {"nonzero", "signal"} \/ <<e, n>> \in oomKilled
             \/ isolation = "bwrap" /\ faults > 0
        /\ ~c.seen.byOom
        /\ c.seen.byWall => expiry[<<e, n>>] # "never"
        /\ c.seen.cpu > TimeLimit => Does(n).cpu > TimeLimit
        /\ c.seen.mem > MemoryLimit => Does(n).mem > MemoryLimit
    BY <1>1, <1>5 DEF SeenIsBlamed, FailedByItself, Now
  <2>6. faults > 0 => faults' > 0
    BY <1>1 DEF Fault, Sound
  <2>7. /\ verdict = "WRONG_ANSWER" =>
             \/ output # "right"
             \/ program.checker = "custom" /\ faults' > 0
             \/ program.checker \notin {"token", "custom"}
        /\ verdict = "RUNTIME_ERROR" =>
             \/ Does(n).ends \in {"nonzero", "signal"} \/ <<e, n>> \in oomKilled
             \/ isolation = "bwrap" /\ faults' > 0
        /\ verdict = "TIME_LIMIT" =>
             (enforced /\ Does(n).cpu > TimeLimit) \/ expiry[<<e, n>>] # "never"
        /\ verdict = "MEMORY_LIMIT" => enforced /\ Does(n).mem > MemoryLimit
        /\ verdict = "INTERNAL_ERROR" => program.checker = "token" /\ output = "gone"
    BY <2>2, <2>4, <2>5, <2>6
  <2>8. QED
    BY <1>2, <2>7 DEF VerdictIsDeserved
<1>6. QED
  BY <1>3, <1>4, <1>5

LEMMA JudgeBlames ==
  ASSUME Known, NEW e \in Executions, Judge(e)
  PROVE  BlameInvariant'
<1>1. /\ call \in [Executions -> CallRecord] /\ call[e] \in CallRecord
      /\ cases \in [Executions -> Seq(CaseResult)] /\ cases[e] \in Seq(CaseResult)
      /\ ExecutionIsBlamed(e) /\ ExecutionIsSound(e) /\ faults \in Nat
  BY KnownOf DEF Known, EngineInvariant, ExecutionTypeOK
<1>2. /\ call[e].step \in {"returned", "raised"} /\ (Sound \/ Fault)
      /\ UNCHANGED <<program, isolation, leader, timer, oomKilled, expiry, outcome>>
  BY DEF Judge
<1>3. PICK n \in Nat, limited \in BOOLEAN : n = call[e].test /\ limited = call[e].seen.enforced
  BY <1>1 DEF CallRecord, SandboxResult
<1>4. PICK sound, verdict, result :
        /\ sound \in BOOLEAN /\ verdict \in MayGive(e, sound)
        /\ IF sound THEN Sound ELSE Fault
        /\ result.status = verdict /\ result.enforced = limited
        /\ cases' = [cases EXCEPT ![e] = Append(cases[e], result)]
        /\ \/ call' = [call EXCEPT ![e] = [NoCall EXCEPT !.step = "judged", !.test = n]]
           \/ call' = [call EXCEPT ![e] = [NoCall EXCEPT !.step = "called", !.test = n + 1]]
  <2>1. PICK sound, verdict :
          /\ sound \in BOOLEAN /\ verdict \in MayGive(e, sound)
          /\ IF sound THEN Sound ELSE Fault
          /\ cases' = [cases EXCEPT ![e] =
               Append(cases[e], [status |-> verdict, enforced |-> call[e].seen.enforced])]
          /\ \/ call' = [call EXCEPT ![e] = [NoCall EXCEPT !.step = "judged", !.test = n]]
             \/ call' = [call EXCEPT ![e] = [NoCall EXCEPT !.step = "called", !.test = n + 1]]
    BY <1>3 DEF Judge
  <2> DEFINE new == [status |-> verdict, enforced |-> call[e].seen.enforced]
  <2>2. new.status = verdict /\ new.enforced = limited
    BY <1>3
  <2>3. QED
    BY <2>1, <2>2
<1>5. /\ \A x \in Executions \ {e} : call'[x] = call[x] /\ cases'[x] = cases[x]
      /\ \/ call'[e].step = "judged" /\ call'[e].test = n
         \/ call'[e].step = "called" /\ call'[e].test = n + 1
  <2>1. \A x \in Executions \ {e} : cases'[x] = cases[x]
    BY <1>1, <1>4
  <2>2. PICK next :
          /\ call' = [call EXCEPT ![e] = next]
          /\ \/ next = [NoCall EXCEPT !.step = "judged", !.test = n]
             \/ next = [NoCall EXCEPT !.step = "called", !.test = n + 1]
    BY <1>4
  <2>3. \/ next.step = "judged" /\ next.test = n
        \/ next.step = "called" /\ next.test = n + 1
    BY <2>2 DEF NoCall
  <2>4. QED
    BY <1>1, <2>1, <2>2, <2>3
<1>6. Len(cases[e]) = n - 1
  BY <1>1, <1>2, <1>3 DEF ExecutionIsSound, CasesAreInOrder, Active
<1>7. /\ DOMAIN cases'[e] = 1..n
      /\ cases'[e][n].status = verdict /\ cases'[e][n].enforced = limited
      /\ \A t \in 1..n : t # n => t \in DOMAIN cases[e] /\ cases'[e][t] = cases[e][t]
  <2>1. cases'[e] = Append(cases[e], result)
    BY <1>1, <1>4
  <2>2. QED
    BY <1>1, <1>4, <1>6, <2>1
<1>8. VerdictIsDeserved(e, n, verdict, limited)'
  BY <1>2, <1>3, <1>4, BlameForThisCase
<1>9. faults' \in Nat /\ faults' >= faults
  BY <1>1, <1>2 DEF Sound, Fault
<1>10. CasesAreDeserved(e)'
  <2>1. ASSUME NEW t \in 1..n, t # n
        PROVE  VerdictIsDeserved(e, t, cases[e][t].status, cases[e][t].enforced)'
    <3>1. t \in DOMAIN cases[e] /\ cases'[e][t] = cases[e][t]
      BY <1>7, <2>1
    <3>2. PICK status, kept : status = cases[e][t].status /\ kept = cases[e][t].enforced
      OBVIOUS
    <3>3. VerdictIsDeserved(e, t, status, kept)
      BY <1>1, <3>1, <3>2 DEF ExecutionIsBlamed, CasesAreDeserved
    <3>4. VerdictIsDeserved(e, t, status, kept)'
      BY <1>2, <1>9, <3>1, <3>3, VerdictsStay
    <3>5. QED
      BY <3>1, <3>2, <3>4
  <2>2. VerdictIsDeserved(e, n, cases[e][n].status, cases[e][n].enforced)'
    BY <1>7, <1>8
  <2>3. QED
    BY <1>7, <2>1, <2>2 DEF CasesAreDeserved
<1>11. OutcomeIsDeserved(e)'
  BY <1>1, <1>2, <1>9 DEF ExecutionIsBlamed, OutcomeIsDeserved, Prepared
<1>12. n + 1 # n
  OBVIOUS
<1>13. QED
  BY <1>2, <1>3, <1>5, <1>10, <1>11, <1>12, SessionBlame

\* The blame is deserved after every step, whoever takes it.
LEMMA BlameInductive ==
  ASSUME Known, [EngineNext]_engineVars
  PROVE  BlameInvariant'
<1>1. CASE UNCHANGED engineVars
  <2>1. UNCHANGED <<program, isolation, call, leader, timer, oomKilled, expiry, faults,
                    cases, outcome>>
    BY <1>1 DEF engineVars, sandboxVars, sessionVars
  <2>2. \A e : ExecutionIsBlamed(e)' <=> ExecutionIsBlamed(e)
    BY <2>1 DEF ExecutionIsBlamed, TimersAreKnown, LeaderIsBlamed, SeenIsBlamed,
       CasesAreDeserved, OutcomeIsDeserved, VerdictIsDeserved, FailedByItself,
       Fired, Does, Written, Now, Prepared
  <2>3. QED
    BY <2>2 DEF Known, BlameInvariant
<1>2. CASE HostStep /\ UNCHANGED sessionVars
  <2>1. ASSUME NEW e \in Executions, CallStep(e) PROVE BlameInvariant'
    BY <1>2, <2>1, AllocateBlames, LaunchBlames, AttachBlames, ObserveBlames,
       ReleaseBlames DEF CallStep
  <2>2. ASSUME NEW e \in Executions,
               Work(e) \/ Exit(e) \/ JailFails(e) \/ ObserveFails(e) \/ Crash(e)
        PROVE  BlameInvariant'
    BY <1>2, <2>2, WorkBlames, ExitBlames, JailFailsBlames, ObserveFailsBlames,
       CrashBlames
  <2>3. ASSUME NEW c \in Cases, DeadlineSets(c) \/ DeadlineKills(c)
        PROVE  BlameInvariant'
    BY <1>2, <2>3, DeadlineBlames
  <2>4. QED
    BY <1>2, <2>1, <2>2, <2>3 DEF HostStep
<1>3. ASSUME NEW e \in Executions, Start(e) \/ Judge(e) \/ Report(e)
      PROVE  BlameInvariant'
  BY <1>3, StartBlames, JudgeBlames, ReportBlames
<1>4. QED
  BY <1>1, <1>2, <1>3 DEF EngineNext

LEMMA BlameInitially == EngineInit => BlameInvariant
<1> SUFFICES ASSUME EngineInit, NEW e \in Executions PROVE ExecutionIsBlamed(e)
  BY DEF BlameInvariant
<1>1. /\ call[e].step = "idle" /\ cases[e] = << >>
      /\ outcome[e].status = "none"
      /\ \A t \in Tests : timer[<<e, t>>] = "off"
  BY DEF EngineInit, SandboxInit, NoCall, NoOutcome, Unrun, Cases
<1>2. QED
  BY <1>1 DEF ExecutionIsBlamed, TimersAreKnown, LeaderIsBlamed, SeenIsBlamed,
     CasesAreDeserved, OutcomeIsDeserved

\* Whoever kills a program and whenever its deadline fires: a runtime error is
\* the program's own, the kernel's for its memory or that of a bwrap that failed;
\* a time limit was an enforced budget or a deadline that went off before the
\* process was reaped; a memory limit was enforced and exceeded; a wrong answer
\* was wrong unless the checker failed; and an internal error or the compiler's
\* refusal of a program that compiles is the mark of a failure, or of an output
\* that the program removed.
THEOREM BlameAlwaysDeserved == EngineSpec => []BlameIsDeserved
<1>1. EngineInit => BlameInvariant
  BY BlameInitially
<1>2. EngineInvariant /\ SuiteTypes /\ BlameInvariant /\ [EngineNext]_engineVars
        => BlameInvariant'
  BY BlameInductive DEF Known
<1>3. EngineSpec => []BlameInvariant
  BY <1>1, <1>2, EngineInvariantHolds, SuiteTypesHold, PTL DEF EngineSpec
<1>4. QED
  BY <1>3, BlameImpliesDeserved, PTL

-----------------------------------------------------------------------------
(* What the cases leave on the host.                                       *)

\* Under bwrap a child runs while its leader does, and with its worker.
RunsFor(child) ==
  LET e == child.of[1]
  IN  /\ child.of = Now(e) /\ leader[e].state = "running"
      /\ call[e].step \in {"launched", "waiting"}

JailInvariant ==
  isolation = "bwrap" =>
    /\ \A e \in Executions : call[e].step = "crashed" => leader[e].state = "none"
    /\ \A child \in children : RunsFor(child)

Jailed == EngineInvariant /\ SuiteTypes /\ JailInvariant

\* A step of one execution, and what is left of its children.
LEMMA JailIsLocal ==
  ASSUME Jailed, NEW e \in Executions, isolation' = isolation,
         \A x \in Executions \ {e} : call'[x] = call[x] /\ leader'[x] = leader[x],
         children' \subseteq [of : Cases, inLeaf : BOOLEAN],
         isolation = "bwrap" =>
           /\ call'[e].step = "crashed" => leader'[e].state = "none"
           /\ \A child \in children' :
                IF child.of[1] = e THEN RunsFor(child)' ELSE child \in children
  PROVE  JailInvariant'
<1>1. SUFFICES ASSUME isolation = "bwrap"
               PROVE  /\ \A x \in Executions : call'[x].step = "crashed" => leader'[x].state = "none"
                      /\ \A child \in children' : RunsFor(child)'
  BY DEF JailInvariant
<1>2. \A x \in Executions : call'[x].step = "crashed" => leader'[x].state = "none"
  BY <1>1 DEF Jailed, JailInvariant
<1>3. ASSUME NEW child \in children', child.of[1] # e PROVE RunsFor(child)'
  <2>1. child.of[1] \in Executions \ {e}
    BY <1>3 DEF Cases
  <2>2. RunsFor(child)
    BY <1>1, <1>3 DEF Jailed, JailInvariant
  <2>3. QED
    BY <2>1, <2>2 DEF RunsFor, Now
<1>4. QED
  BY <1>1, <1>2, <1>3

\* Where no process runs, no child does.
LEMMA JailIsEmpty ==
  ASSUME Jailed, NEW e \in Executions, isolation' = isolation,
         \A x \in Executions \ {e} : call'[x] = call[x] /\ leader'[x] = leader[x],
         children' \subseteq children, leader[e].state # "running",
         isolation = "bwrap" /\ call'[e].step = "crashed" => leader'[e].state = "none"
  PROVE  JailInvariant'
<1>1. isolation = "bwrap" => \A child \in children : child.of[1] # e
  BY DEF Jailed, JailInvariant, RunsFor
<1>2. children' \subseteq [of : Cases, inLeaf : BOOLEAN]
  BY DEF Jailed, SuiteTypes
<1>3. QED
  BY <1>1, <1>2, JailIsLocal

LEMMA JailStep ==
  ASSUME Jailed, NEW e \in Executions,
         CallStep(e) \/ ObserveFails(e) \/ Work(e) \/ Exit(e) \/ JailFails(e)
           \/ Crash(e) \/ Start(e) \/ Judge(e) \/ Report(e)
  PROVE  JailInvariant'
<1>1. /\ call \in [Executions -> CallRecord] /\ call[e] \in CallRecord
      /\ leader \in [Executions -> LeaderRecord] /\ leader[e] \in LeaderRecord
      /\ LeaderIsKnown(e) /\ Now(e) \in Cases
      /\ children \subseteq [of : Cases, inLeaf : BOOLEAN]
  BY NowIsACase DEF Jailed, EngineInvariant, ExecutionTypeOK, ExecutionIsSound, SuiteTypes
<1>2. isolation' = isolation
  BY DEF CallStep, Allocate, Launch, Attach, Observe, ObserveFails, Release, Work,
         Exit, JailFails, Crash, Start, Judge, Report
<1>3. CASE Allocate(e) \/ Release(e)
  <2>1. /\ call[e].step \in {"called", "observed", "failed"}
        /\ call'[e].step # "crashed" /\ leader' = leader /\ children' \subseteq children
        /\ \A x \in Executions \ {e} : call'[x] = call[x]
    <3>1. CASE Allocate(e)
      BY <1>1, <3>1 DEF Allocate, CallRecord
    <3>2. CASE Release(e)
      BY <1>1, <3>2 DEF Release, CallRecord, Members, ChildrenOf
    <3>3. QED
      BY <1>3, <3>1, <3>2
  <2>2. QED
    BY <1>1, <1>2, <2>1, JailIsEmpty DEF LeaderIsKnown
<1>4. CASE Start(e) \/ Judge(e) \/ Report(e)
  <2>1. /\ call[e].step \in {"idle", "returned", "raised", "judged"}
        /\ leader' = leader /\ children' = children
    BY <1>4 DEF Start, Judge, Report
  <2>2. /\ call'[e].step # "crashed"
        /\ \A x \in Executions \ {e} : call'[x] = call[x]
    <3>1. CASE Start(e) \/ Report(e)
      BY <1>1, <3>1 DEF Start, Report, Over, CallRecord
    <3>2. CASE Judge(e)
      BY <1>1, <3>2 DEF Judge, NoCall
    <3>3. QED
      BY <1>4, <3>1, <3>2
  <2>3. QED
    BY <1>1, <1>2, <2>1, <2>2, JailIsEmpty DEF LeaderIsKnown
<1>5. CASE Launch(e) \/ Observe(e)
  <2>1. /\ leader[e].state # "running" /\ children' = children
        /\ \A x \in Executions \ {e} : leader'[x] = leader[x]
    BY <1>1, <1>5 DEF Launch, Observe, LeaderIsKnown
  <2>2. /\ call'[e].step # "crashed"
        /\ \A x \in Executions \ {e} : call'[x] = call[x]
    <3>1. CASE Launch(e)
      BY <1>1, <3>1 DEF Launch, CallRecord
    <3>2. CASE Observe(e)
      <4>1. \E seen : call' = [call EXCEPT ![e].step = "observed", ![e].seen = seen]
        BY <1>1, <3>2, ObserveSees DEF CallRecord
      <4>2. QED
        BY <1>1, <4>1 DEF CallRecord
    <3>3. QED
      BY <1>5, <3>1, <3>2
  <2>3. QED
    BY <1>2, <2>1, <2>2, JailIsEmpty
<1>6. CASE Attach(e)
  <2>1. /\ call[e].step = "launched" /\ children' = children
        /\ call'[e].step = "waiting" /\ call'[e].test = call[e].test
        /\ leader'[e].state = leader[e].state
        /\ \A x \in Executions \ {e} : call'[x] = call[x] /\ leader'[x] = leader[x]
    BY <1>1, <1>6 DEF Attach, CallRecord, LeaderRecord
  <2>2. ASSUME isolation = "bwrap", NEW child \in children, child.of[1] = e
        PROVE  RunsFor(child)'
    <3>1. RunsFor(child)
      BY <2>2 DEF Jailed, JailInvariant
    <3>2. QED
      BY <2>1, <2>2, <3>1 DEF RunsFor, Now
  <2>3. QED
    BY <1>1, <1>2, <2>1, <2>2, JailIsLocal
<1>7. CASE Work(e)
  <2>1. /\ call' = call /\ leader[e].state = "new"
        /\ \A x \in Executions \ {e} : leader'[x] = leader[x]
    BY <1>1, <1>7 DEF Work
  <2>2. \/ children' = children
        \/ /\ leader'[e].state = "running"
           /\ children' = children \cup {[of |-> Now(e), inLeaf |-> leader[e].inLeaf]}
    <3>1. CASE leader[e].inLeaf /\ Does(call[e].test).mem > MemoryLimit
      BY <1>7, <3>1 DEF Work
    <3>2. CASE ~(leader[e].inLeaf /\ Does(call[e].test).mem > MemoryLimit)
      <4>1. leader'[e].state = "running"
        BY <1>1, <1>7, <3>2 DEF Work, LeaderRecord
      <4>2. QED
        BY <1>7, <4>1 DEF Work
    <3>3. QED
      BY <3>1, <3>2
  <2>3. CASE children' = children
    <3>1. isolation = "bwrap" => call[e].step # "crashed"
      BY <2>1 DEF Jailed, JailInvariant
    <3>2. QED
      BY <1>2, <2>1, <2>3, <3>1, JailIsEmpty
  <2>4. ASSUME leader'[e].state = "running",
               children' = children \cup {[of |-> Now(e), inLeaf |-> leader[e].inLeaf]}
        PROVE  JailInvariant'
    <3>1. PICK new \in [of : Cases, inLeaf : BOOLEAN] :
            new.of = <<e, call[e].test>> /\ children' = children \cup {new}
      <4>1. leader[e].inLeaf \in BOOLEAN
        BY <1>1 DEF LeaderRecord
      <4>2. QED
        BY <1>1, <2>4, <4>1 DEF Now
    <3>2. isolation = "bwrap" =>
            /\ call[e].step \in {"launched", "waiting"}
            /\ \A child \in children : child.of[1] # e
      BY <1>1, <2>1 DEF Jailed, JailInvariant, RunsFor, LeaderIsKnown
    <3>3. isolation = "bwrap" => RunsFor(new)'
      BY <2>1, <2>4, <3>1, <3>2 DEF RunsFor, Now
    <3>4. QED
      BY <1>1, <1>2, <2>1, <2>4, <3>1, <3>2, <3>3, JailIsLocal
  <2>5. QED
    BY <2>2, <2>3, <2>4
<1>8. CASE Exit(e)
  <2>1. /\ call' = call /\ leader[e].state = "running" /\ children' \subseteq children
        /\ \A x \in Executions \ {e} : leader'[x] = leader[x]
        /\ isolation = "bwrap" => children' = children \ ChildrenOf(Now(e))
    BY <1>1, <1>8 DEF Exit, Orphans, ChildrenOf
  <2>2. isolation = "bwrap" =>
          /\ call[e].step # "crashed"
          /\ \A child \in children' : child.of[1] # e
    BY <2>1 DEF Jailed, JailInvariant, RunsFor, ChildrenOf
  <2>3. QED
    BY <1>1, <1>2, <2>1, <2>2, JailIsLocal
<1>9. CASE Crash(e)
  <2>1. /\ children' \subseteq children
        /\ \A x \in Executions \ {e} : call'[x] = call[x] /\ leader'[x] = leader[x]
        /\ isolation = "bwrap" =>
             /\ leader'[e].state = "none"
             /\ \A child \in children' : child.of[1] # e
    BY <1>1, <1>9 DEF Crash, NoLeader
  <2>2. QED
    BY <1>1, <1>2, <2>1, JailIsLocal
<1>10. CASE JailFails(e)
  <2>1. /\ call' = call /\ leader[e].state = "new" /\ children' = children
        /\ \A x \in Executions \ {e} : leader'[x] = leader[x]
    BY <1>1, <1>10 DEF JailFails
  <2>2. isolation = "bwrap" => call[e].step # "crashed"
    BY <2>1 DEF Jailed, JailInvariant
  <2>3. QED
    BY <1>2, <2>1, <2>2, JailIsEmpty
<1>11. CASE ObserveFails(e)
  <2>1. /\ call'[e].step = "failed"
        /\ children' = IF Alive(e) THEN children \ ChildrenOf(Now(e)) ELSE children
        /\ \A x \in Executions \ {e} : call'[x] = call[x] /\ leader'[x] = leader[x]
    BY <1>1, <1>11 DEF ObserveFails, CallRecord
  <2>2. CASE leader[e].state # "running"
    BY <1>2, <2>1, <2>2, JailIsEmpty DEF ChildrenOf
  <2>3. CASE leader[e].state = "running"
    <3>1. children' = children \ ChildrenOf(Now(e))
      BY <2>1, <2>3 DEF Alive
    <3>2. isolation = "bwrap" => \A child \in children' : child.of[1] # e
      BY <3>1 DEF Jailed, JailInvariant, RunsFor, ChildrenOf
    <3>3. QED
      BY <1>1, <1>2, <2>1, <3>1, <3>2, JailIsLocal
  <2>4. QED
    BY <2>2, <2>3
<1>12. QED
  BY <1>3, <1>4, <1>5, <1>6, <1>7, <1>8, <1>9, <1>10, <1>11 DEF CallStep

LEMMA JailDeadline ==
  ASSUME Jailed, NEW c \in Cases, DeadlineSets(c) \/ DeadlineKills(c)
  PROVE  JailInvariant'
<1>1. PICK e \in Executions, k \in Tests : c = <<e, k>>
  BY DEF Cases
<1>2. /\ leader \in [Executions -> LeaderRecord] /\ leader[e] \in LeaderRecord
      /\ children \subseteq [of : Cases, inLeaf : BOOLEAN]
  BY DEF Jailed, EngineInvariant, ExecutionTypeOK, SuiteTypes
<1>3. /\ call' = call /\ isolation' = isolation /\ children' \subseteq children
  BY DEF DeadlineSets, DeadlineKills
<1>4. CASE leader' = leader
  BY <1>3, <1>4 DEF Jailed, JailInvariant, RunsFor, Now
<1>5. CASE /\ call[e].test = k /\ Alive(e)
           /\ leader' = [leader EXCEPT ![e] = Dead(leader[e], "signal")]
           /\ children' = children \ ChildrenOf(c)
  <2>1. \A x \in Executions \ {e} : leader'[x] = leader[x]
    BY <1>2, <1>5
  <2>2. isolation = "bwrap" =>
          /\ call[e].step # "crashed"
          /\ \A child \in children' : child.of[1] # e
    BY <1>1, <1>5 DEF Jailed, JailInvariant, RunsFor, ChildrenOf, Now, Alive
  <2>3. QED
    BY <1>2, <1>3, <2>1, <2>2, JailIsLocal
<1>6. QED
  BY <1>1, <1>4, <1>5 DEF DeadlineSets, DeadlineKills

LEMMA JailInductive ==
  ASSUME Jailed, [EngineNext]_engineVars
  PROVE  JailInvariant'
<1>1. CASE UNCHANGED engineVars
  BY <1>1 DEF engineVars, sandboxVars, Jailed, JailInvariant, RunsFor, Now
<1>2. ASSUME NEW e \in Executions,
             CallStep(e) \/ ObserveFails(e) \/ Work(e) \/ Exit(e) \/ JailFails(e)
               \/ Crash(e) \/ Start(e) \/ Judge(e) \/ Report(e)
      PROVE  JailInvariant'
  BY <1>2, JailStep
<1>3. ASSUME NEW c \in Cases, DeadlineSets(c) \/ DeadlineKills(c)
      PROVE  JailInvariant'
  BY <1>3, JailDeadline
<1>4. QED
  BY <1>1, <1>2, <1>3 DEF EngineNext, HostStep

\* A leaf that no other execution can take or remove.
KeptLeaf(e, t) == t \in leaves /\ \A x \in Executions \ {e} : ~Holds(x, t)

\* A process in a leaf keeps it there, whether its worker lives or not, and so
\* do the children that it forked in the leaf.
LeafRemains ==
  /\ \A e \in Executions : leader[e].inLeaf /\ Alive(e) => KeptLeaf(e, call[e].test)
  /\ \A child \in children :
       IF child.inLeaf THEN KeptLeaf(child.of[1], child.of[2])
       ELSE child.of \in unconfined

Leafed == EngineInvariant /\ SuiteTypes /\ LeafInvariant /\ LeafRemains

LEMMA OnlyAllocateTakes ==
  ASSUME EngineInvariant, NEW e \in Executions,
         Launch(e) \/ Attach(e) \/ Observe(e) \/ ObserveFails(e) \/ Release(e)
           \/ Crash(e) \/ Start(e) \/ Judge(e) \/ Report(e)
  PROVE  \A x \in Executions : \A t \in Tests : Holds(x, t)' => Holds(x, t)
<1>1. call \in [Executions -> CallRecord] /\ call[e] \in CallRecord
  BY DEF EngineInvariant, ExecutionTypeOK
<1>2. ASSUME NEW step \in Steps, NEW seen,
             \/ call' = [call EXCEPT ![e].step = step]
             \/ call' = [call EXCEPT ![e].step = step, ![e].seen = seen],
             step \in {"launched", "failed", "waiting", "observed"},
             call[e].step \in {"allocated", "launched", "waiting"}
      PROVE  \A x \in Executions : \A t \in Tests : Holds(x, t)' => Holds(x, t)
  <2>1. /\ call'[e].leased = call[e].leased /\ call'[e].test = call[e].test
        /\ \A x \in Executions \ {e} : call'[x] = call[x]
    BY <1>1, <1>2 DEF CallRecord
  <2>2. QED
    BY <1>2, <2>1 DEF Holds
<1>3. ASSUME \A x \in Executions \ {e} : call'[x] = call[x],
             call'[e].step \in {"called", "returned", "raised", "judged", "over", "crashed"}
      PROVE  \A x \in Executions : \A t \in Tests : Holds(x, t)' => Holds(x, t)
  BY <1>3 DEF Holds
<1>4. CASE Launch(e)
  BY <1>2, <1>4 DEF Launch, Steps
<1>5. CASE Attach(e)
  BY <1>2, <1>5 DEF Attach, Steps
<1>6. CASE Observe(e)
  <2>1. \E seen : call' = [call EXCEPT ![e].step = "observed", ![e].seen = seen]
    BY <1>1, <1>6, ObserveSees DEF CallRecord
  <2>2. call[e].step = "waiting"
    BY <1>6 DEF Observe
  <2>3. QED
    BY <1>2, <2>1, <2>2 DEF Steps
<1>7. CASE Release(e) \/ Crash(e)
  BY <1>1, <1>3, <1>7 DEF Release, Crash, CallRecord
<1>8. CASE Start(e) \/ Report(e)
  BY <1>1, <1>3, <1>8 DEF Start, Report, Over, CallRecord
<1>9. CASE Judge(e)
  BY <1>1, <1>3, <1>9 DEF Judge, NoCall
<1>10. CASE ObserveFails(e)
  BY <1>2, <1>10 DEF ObserveFails, Steps
<1>11. QED
  BY <1>4, <1>5, <1>6, <1>7, <1>8, <1>9, <1>10

LEMMA LeavesStay ==
  ASSUME \A x \in Executions : \A t \in Tests : Holds(x, t)' => Holds(x, t),
         leaves' = leaves
  PROVE  \A x \in Executions : \A t \in Tests : KeptLeaf(x, t) => KeptLeaf(x, t)'
BY DEF KeptLeaf

\* A step that leaves the leaves that are kept, and the processes in them.
LEMMA RemainsStay ==
  ASSUME Leafed,
         \A x \in Executions : leader'[x].inLeaf /\ Alive(x)' =>
           leader[x].inLeaf /\ Alive(x) /\ call'[x].test = call[x].test,
         children' \subseteq children, unconfined' = unconfined,
         \A x \in Executions : \A t \in Tests : KeptLeaf(x, t) => KeptLeaf(x, t)'
  PROVE  LeafRemains'
<1>1. ASSUME NEW x \in Executions, leader'[x].inLeaf /\ Alive(x)'
      PROVE  KeptLeaf(x, call[x].test)'
  <2>1. PICK t \in Tests : t = call[x].test
    BY DEF Leafed, SuiteTypes
  <2>2. KeptLeaf(x, t)'
    BY <1>1, <2>1 DEF Leafed, LeafRemains
  <2>3. QED
    BY <1>1, <2>1, <2>2
<1>2. ASSUME NEW child \in children', child.inLeaf
      PROVE  KeptLeaf(child.of[1], child.of[2])'
  <2>1. child.of[1] \in Executions /\ child.of[2] \in Tests
    BY DEF Leafed, SuiteTypes, Cases
  <2>2. KeptLeaf(child.of[1], child.of[2])
    BY <1>2 DEF Leafed, LeafRemains
  <2>3. QED
    BY <2>1, <2>2
<1>3. ASSUME NEW child \in children', ~child.inLeaf PROVE child.of \in unconfined'
  BY <1>3 DEF Leafed, LeafRemains
<1>4. QED
  BY <1>1, <1>2, <1>3 DEF LeafRemains

LEMMA LeafedOf ==
  ASSUME Leafed, NEW e \in Executions
  PROVE  /\ call \in [Executions -> CallRecord] /\ call[e] \in CallRecord
         /\ leader \in [Executions -> LeaderRecord] /\ leader[e] \in LeaderRecord
         /\ LeaderIsKnown(e) /\ call[e].test \in Tests /\ Now(e) \in Cases
         /\ children \subseteq [of : Cases, inLeaf : BOOLEAN]
BY NowIsACase
   DEF Leafed, EngineInvariant, ExecutionTypeOK, ExecutionIsSound, SuiteTypes

\* A leaf that is taken was free, so nobody has anything in it.
LEMMA AllocateRemains ==
  ASSUME Leafed, NEW e \in Executions, Allocate(e)
  PROVE  LeafRemains'
<1>1. call \in [Executions -> CallRecord] /\ call[e] \in CallRecord
  BY LeafedOf
<1>2. /\ call[e].step = "called" /\ UNCHANGED <<leader, children, unconfined>>
      /\ leaves \subseteq leaves'
  BY DEF Allocate
<1>3. /\ \A x \in Executions \ {e} : call'[x] = call[x]
      /\ call'[e].test = call[e].test
      /\ call'[e].leased => call[e].test \notin leaves
  BY <1>1 DEF Allocate, CallRecord
<1>4. \A x \in Executions : \A t \in Tests : KeptLeaf(x, t) => KeptLeaf(x, t)'
  BY <1>2, <1>3 DEF KeptLeaf, Holds
<1>5. \A x \in Executions : Alive(x)' <=> Alive(x)
  BY <1>2 DEF Alive
<1>6. QED
  BY <1>2, <1>3, <1>4, <1>5, RemainsStay

\* What is attached has a leaf of its own.
LEMMA AttachRemains ==
  ASSUME Leafed, NEW e \in Executions, Attach(e)
  PROVE  LeafRemains'
<1>1. /\ call \in [Executions -> CallRecord] /\ call[e] \in CallRecord
      /\ leader \in [Executions -> LeaderRecord] /\ leader[e] \in LeaderRecord
      /\ call[e].test \in Tests
  BY LeafedOf
<1>2. /\ call[e].step = "launched" /\ UNCHANGED <<leaves, children, unconfined>>
  BY DEF Attach
<1>3. \A x \in Executions : \A t \in Tests : KeptLeaf(x, t) => KeptLeaf(x, t)'
  BY <1>2, OnlyAllocateTakes, LeavesStay DEF Leafed
<1>4. /\ \A x \in Executions \ {e} : call'[x] = call[x] /\ leader'[x] = leader[x]
      /\ call'[e].test = call[e].test /\ leader'[e].state = leader[e].state
      /\ leader'[e].inLeaf => call[e].leased
  BY <1>1 DEF Attach, CallRecord, LeaderRecord
<1>5. call[e].leased => KeptLeaf(e, call[e].test)
  <2>1. call[e].leased => Holds(e, call[e].test)
    BY <1>2 DEF Holds
  <2>2. QED
    BY <1>1, <2>1 DEF Leafed, LeafInvariant, LeafHasOneHolder, KeptLeaf
<1>6. ASSUME NEW x \in Executions, leader'[x].inLeaf /\ Alive(x)'
      PROVE  KeptLeaf(x, call[x].test)'
  <2>1. PICK t \in Tests : t = call[x].test
    BY DEF Leafed, SuiteTypes
  <2>2. KeptLeaf(x, t)
    <3>1. CASE x = e
      BY <1>4, <1>5, <1>6, <2>1, <3>1
    <3>2. CASE x # e
      BY <1>4, <1>6, <2>1, <3>2 DEF Leafed, LeafRemains, Alive
    <3>3. QED
      BY <3>1, <3>2
  <2>3. KeptLeaf(x, t)'
    BY <1>3, <2>2
  <2>4. call'[x].test = t
    BY <1>4, <2>1
  <2>5. QED
    BY <2>3, <2>4
<1>7. ASSUME NEW child \in children'
      PROVE  IF child.inLeaf THEN KeptLeaf(child.of[1], child.of[2])'
             ELSE child.of \in unconfined'
  <2>1. child.of[1] \in Executions /\ child.of[2] \in Tests
    BY <1>2 DEF Leafed, SuiteTypes, Cases
  <2>2. QED
    BY <1>2, <1>3, <2>1 DEF Leafed, LeafRemains
<1>8. QED
  BY <1>6, <1>7 DEF LeafRemains

\* Whoever removes a leaf has killed what was in it.
LEMMA ReleaseRemains ==
  ASSUME Leafed, NEW e \in Executions, Release(e)
  PROVE  LeafRemains'
<1>1. /\ call \in [Executions -> CallRecord] /\ call[e] \in CallRecord
      /\ LeaderIsKnown(e) /\ call[e].test \in Tests
      /\ children \subseteq [of : Cases, inLeaf : BOOLEAN]
  BY LeafedOf
<1>2. /\ call[e].step \in {"observed", "failed"} /\ UNCHANGED <<leader, unconfined>>
      /\ children' \subseteq children
  BY DEF Release, Members, ChildrenOf
<1>3. \A x \in Executions : call'[x].test = call[x].test
  BY OnlyJudgeGoesOn DEF CallStep, Leafed
<1>4. \A x \in Executions : Alive(x)' <=> Alive(x)
  BY <1>2 DEF Alive
<1>5. \A x \in Executions : \A t \in Tests : Holds(x, t)' => Holds(x, t)
  BY OnlyAllocateTakes DEF Leafed
<1>6. CASE leaves' = leaves
  BY <1>2, <1>3, <1>4, <1>5, <1>6, LeavesStay, RemainsStay
<1>7. CASE /\ call[e].leased /\ leaves' = leaves \ {call[e].test}
           /\ children' = children \ Members(Now(e))
  <2>1. Holds(e, call[e].test)
    BY <1>2, <1>7 DEF Holds
  <2>2. \A x \in Executions : \A t \in Tests :
          KeptLeaf(x, t) => KeptLeaf(x, t)' \/ (x = e /\ t = call[e].test)
    BY <1>5, <1>7, <2>1 DEF KeptLeaf
  <2>3. leader[e].state = "none"
    BY <1>1, <1>2 DEF LeaderIsKnown
  <2>4. ASSUME NEW x \in Executions, leader'[x].inLeaf /\ Alive(x)'
        PROVE  KeptLeaf(x, call[x].test)'
    <3>1. PICK t \in Tests : t = call[x].test
      BY DEF Leafed, SuiteTypes
    <3>2. x # e
      BY <1>4, <2>3, <2>4 DEF Alive
    <3>3. KeptLeaf(x, t)'
      BY <1>2, <1>4, <2>2, <2>4, <3>1, <3>2 DEF Leafed, LeafRemains
    <3>4. QED
      BY <1>3, <3>1, <3>3
  <2>5. ASSUME NEW child \in children'
        PROVE  IF child.inLeaf THEN KeptLeaf(child.of[1], child.of[2])'
               ELSE child.of \in unconfined'
    <3>1. /\ child.of[1] \in Executions /\ child.of[2] \in Tests
          /\ child.of = <<child.of[1], child.of[2]>>
      BY <1>1, <1>2 DEF Cases
    <3>2. child.inLeaf => child.of # Now(e)
      BY <1>2, <1>7 DEF Members, ChildrenOf
    <3>3. child.inLeaf => KeptLeaf(child.of[1], child.of[2])'
      BY <1>2, <2>2, <3>1, <3>2 DEF Leafed, LeafRemains, Now
    <3>4. QED
      BY <1>2, <3>3 DEF Leafed, LeafRemains
  <2>6. QED
    BY <2>4, <2>5 DEF LeafRemains
<1>8. QED
  BY <1>6, <1>7 DEF Release

\* A child is where its leader is: in the leaf that its leader keeps, or nowhere.
LEMMA WorkRemains ==
  ASSUME Leafed, NEW e \in Executions, Work(e)
  PROVE  LeafRemains'
<1>1. /\ leader \in [Executions -> LeaderRecord] /\ leader[e] \in LeaderRecord
      /\ call[e].test \in Tests /\ Now(e) = <<e, call[e].test>>
  BY LeafedOf DEF Now
<1>2. /\ UNCHANGED <<call, leaves>> /\ Alive(e)
      /\ unconfined \subseteq unconfined'
      /\ leader[e].inLeaf \/ Now(e) \in unconfined'
      /\ children' \subseteq children \cup {[of |-> Now(e), inLeaf |-> leader[e].inLeaf]}
  BY DEF Work, Alive
<1>3. /\ leader'[e].inLeaf = leader[e].inLeaf
      /\ \A x \in Executions \ {e} : leader'[x] = leader[x]
  <2>1. CASE leader[e].inLeaf /\ Does(call[e].test).mem > MemoryLimit
    BY <1>1, <2>1 DEF Work, Dead, LeaderRecord
  <2>2. CASE ~(leader[e].inLeaf /\ Does(call[e].test).mem > MemoryLimit)
    BY <1>1, <2>2 DEF Work, LeaderRecord
  <2>3. QED
    BY <2>1, <2>2
<1>4. \A x \in Executions : \A t \in Tests : KeptLeaf(x, t)' <=> KeptLeaf(x, t)
  BY <1>2 DEF KeptLeaf, Holds
<1>5. ASSUME NEW x \in Executions, leader'[x].inLeaf /\ Alive(x)'
      PROVE  KeptLeaf(x, call[x].test)'
  <2>1. leader[x].inLeaf /\ Alive(x)
    BY <1>2, <1>3, <1>5 DEF Alive
  <2>2. PICK t \in Tests : t = call[x].test
    BY DEF Leafed, SuiteTypes
  <2>3. KeptLeaf(x, t)'
    BY <1>4, <2>1, <2>2 DEF Leafed, LeafRemains
  <2>4. QED
    BY <1>2, <2>2, <2>3
<1>6. ASSUME NEW child \in children'
      PROVE  IF child.inLeaf THEN KeptLeaf(child.of[1], child.of[2])'
             ELSE child.of \in unconfined'
  <2>1. CASE child \in children
    <3>1. child.of[1] \in Executions /\ child.of[2] \in Tests
      BY <2>1 DEF Leafed, SuiteTypes, Cases
    <3>2. QED
      BY <1>2, <1>4, <2>1, <3>1 DEF Leafed, LeafRemains
  <2>2. CASE child = [of |-> Now(e), inLeaf |-> leader[e].inLeaf]
    <3>1. child.of = Now(e) /\ child.inLeaf = leader[e].inLeaf
      BY <2>2
    <3>2. PICK t \in Tests : t = call[e].test
      BY <1>1
    <3>3. child.inLeaf => KeptLeaf(e, t)'
      BY <1>2, <1>4, <3>1, <3>2 DEF Leafed, LeafRemains
    <3>4. child.of[1] = e /\ child.of[2] = t
      BY <1>1, <3>1, <3>2
    <3>5. QED
      BY <1>2, <3>1, <3>3, <3>4
  <2>3. QED
    BY <1>2, <2>1, <2>2
<1>7. QED
  BY <1>5, <1>6 DEF LeafRemains

LEMMA OthersRemain ==
  ASSUME Leafed, NEW e \in Executions,
         Launch(e) \/ Observe(e) \/ ObserveFails(e) \/ Crash(e) \/ Exit(e)
           \/ JailFails(e) \/ Start(e) \/ Judge(e) \/ Report(e)
  PROVE  LeafRemains'
<1>1. /\ call \in [Executions -> CallRecord]
      /\ leader \in [Executions -> LeaderRecord] /\ leader[e] \in LeaderRecord
      /\ LeaderIsKnown(e)
  BY LeafedOf
<1>2. UNCHANGED <<leaves, unconfined>> /\ children' \subseteq children
  BY DEF Launch, Observe, ObserveFails, Crash, Exit, JailFails, Start, Judge, Report,
         Orphans, ChildrenOf
<1>3. \A x \in Executions : \A t \in Tests : KeptLeaf(x, t) => KeptLeaf(x, t)'
  <2>1. \A x \in Executions : \A t \in Tests : Holds(x, t)' => Holds(x, t)
    BY OnlyAllocateTakes DEF Leafed, Exit, JailFails, Holds
  <2>2. QED
    BY <1>2, <2>1, LeavesStay
<1>4. /\ \A x \in Executions \ {e} :
           leader'[x] = leader[x] /\ call'[x].test = call[x].test
      /\ leader'[e].inLeaf /\ Alive(e)' =>
           leader[e].inLeaf /\ Alive(e) /\ call'[e].test = call[e].test
  <2>1. CASE Launch(e) \/ Observe(e) \/ ObserveFails(e)
    <3>1. \A x \in Executions : call'[x].test = call[x].test
      BY <2>1, OnlyJudgeGoesOn DEF CallStep, Leafed
    <3>2. /\ \A x \in Executions \ {e} : leader'[x] = leader[x]
          /\ leader'[e].inLeaf => leader' = leader
      <4>1. \/ leader' = [leader EXCEPT ![e] = [NoLeader EXCEPT !.state = "new"]]
            \/ leader' = [leader EXCEPT ![e] = NoLeader]
            \/ leader' = leader
        BY <2>1 DEF Launch, Observe, ObserveFails
      <4>2. ~[NoLeader EXCEPT !.state = "new"].inLeaf /\ ~NoLeader.inLeaf
        BY DEF NoLeader
      <4>3. QED
        BY <1>1, <4>1, <4>2
    <3>3. QED
      BY <3>1, <3>2 DEF Alive
  <2>2. CASE Crash(e) \/ Start(e) \/ Report(e)
    <3>1. \A x \in Executions : call'[x].test = call[x].test
      BY <2>2, OnlyJudgeGoesOn DEF Leafed
    <3>2. /\ \A x \in Executions \ {e} : leader'[x] = leader[x]
          /\ leader'[e].inLeaf => leader'[e] = leader[e]
      BY <1>1, <2>2 DEF Crash, Start, Report, NoLeader
    <3>3. QED
      BY <3>1, <3>2 DEF Alive
  <2>3. CASE Exit(e) \/ JailFails(e)
    <3>1. PICK ending : leader' = [leader EXCEPT ![e] = Dead(leader[e], ending)]
      BY <1>1, <2>3 DEF Exit, JailFails
    <3>2. call' = call /\ Dead(leader[e], ending).state = "ended"
      BY <1>1, <2>3 DEF Exit, JailFails, Dead, LeaderRecord
    <3>3. QED
      BY <1>1, <3>1, <3>2 DEF Alive
  <2>4. CASE Judge(e)
    <3>1. leader' = leader /\ leader[e].state = "none"
      BY <1>1, <2>4 DEF Judge, LeaderIsKnown
    <3>2. \A x \in Executions \ {e} : call'[x] = call[x]
      BY <1>1, <2>4 DEF Judge
    <3>3. QED
      BY <3>1, <3>2 DEF Alive
  <2>5. QED
    BY <2>1, <2>2, <2>3, <2>4
<1>5. \A x \in Executions : leader'[x].inLeaf /\ Alive(x)' =>
        leader[x].inLeaf /\ Alive(x) /\ call'[x].test = call[x].test
  BY <1>4 DEF Alive
<1>6. QED
  BY <1>2, <1>3, <1>5, RemainsStay

LEMMA DeadlineRemains ==
  ASSUME Leafed, NEW c \in Cases, DeadlineSets(c) \/ DeadlineKills(c)
  PROVE  LeafRemains'
<1>1. /\ UNCHANGED <<call, leaves, unconfined>> /\ children' \subseteq children
      /\ \/ leader' = leader
         \/ leader' = [leader EXCEPT ![c[1]] = Dead(leader[c[1]], "signal")]
  BY LeafedOf DEF DeadlineSets, DeadlineKills, Cases
<1>2. c[1] \in Executions
  BY DEF Cases
<1>3. leader \in [Executions -> LeaderRecord] /\ leader[c[1]] \in LeaderRecord
  BY <1>2, LeafedOf
<1>4. Dead(leader[c[1]], "signal").state = "ended"
  BY <1>3 DEF Dead, LeaderRecord
<1>5. \A x \in Executions : leader'[x] = leader[x] \/ leader'[x].state = "ended"
  BY <1>1, <1>3, <1>4
<1>6. \A x \in Executions : leader'[x].inLeaf /\ Alive(x)' =>
        leader[x].inLeaf /\ Alive(x) /\ call'[x].test = call[x].test
  BY <1>1, <1>5 DEF Alive
<1>7. \A x \in Executions : \A t \in Tests : KeptLeaf(x, t) => KeptLeaf(x, t)'
  BY <1>1 DEF KeptLeaf, Holds
<1>8. QED
  BY <1>1, <1>6, <1>7, RemainsStay

LEMMA RemainsInductive ==
  ASSUME Leafed, [EngineNext]_engineVars
  PROVE  LeafRemains'
<1>1. CASE UNCHANGED engineVars
  BY <1>1 DEF engineVars, sandboxVars, Leafed, LeafRemains, KeptLeaf, Holds, Alive
<1>2. ASSUME NEW e \in Executions, CallStep(e) PROVE LeafRemains'
  BY <1>2, AllocateRemains, AttachRemains, ReleaseRemains, OthersRemain DEF CallStep
<1>3. ASSUME NEW e \in Executions,
             Work(e) \/ Exit(e) \/ JailFails(e) \/ ObserveFails(e) \/ Crash(e)
               \/ Start(e) \/ Judge(e) \/ Report(e)
      PROVE  LeafRemains'
  BY <1>3, WorkRemains, OthersRemain
<1>4. ASSUME NEW c \in Cases, DeadlineSets(c) \/ DeadlineKills(c)
      PROVE  LeafRemains'
  BY <1>4, DeadlineRemains
<1>5. QED
  BY <1>1, <1>2, <1>3, <1>4 DEF EngineNext, HostStep

LEMMA RemainsAreAllowed ==
  ASSUME Jailed, LeafRemains
  PROVE  CasesLeaveNothing
<1> SUFFICES ASSUME NEW child \in children, child.of \in Judged
             PROVE  /\ isolation = "none"
                    /\ child.of \in unconfined \/ child.of[2] \in leaves
  BY DEF CasesLeaveNothing
<1>1. isolation \in {"none", "bwrap"} /\ child.inLeaf \in BOOLEAN
  BY DEF Jailed, SuiteTypes
<1>2. isolation # "bwrap"
  <2>1. SUFFICES ASSUME isolation = "bwrap" PROVE FALSE
    OBVIOUS
  <2>2. PICK e \in Executions : e = child.of[1]
    BY DEF Judged, Cases
  <2>3. /\ child.of = Now(e) /\ call[e].step \in {"launched", "waiting"}
    BY <2>1, <2>2 DEF Jailed, JailInvariant, RunsFor
  <2>4. /\ Len(cases[e]) = call[e].test - 1 /\ cases[e] \in Seq(CaseResult)
        /\ call[e].test \in Nat
    BY <2>3 DEF Jailed, EngineInvariant, ExecutionIsSound, CasesAreInOrder,
       Active, ExecutionTypeOK, CallRecord
  <2>5. call[e].test \in DOMAIN cases[e]
    BY <2>2, <2>3 DEF Judged, Now
  <2>6. QED
    BY <2>4, <2>5
<1>3. QED
  BY <1>1, <1>2 DEF LeafRemains, KeptLeaf

\* Whatever interleaves with a case and whenever its worker dies: nothing that it
\* forked survives its verdict, unless it ran before it was in its leaf or the
\* leaf is still there, and under bwrap nothing at all.
THEOREM NothingIsLeft == EngineSpec => []CasesLeaveNothing
<1>1. EngineInit => JailInvariant /\ LeafRemains /\ LeafInvariant
  BY DEF EngineInit, SandboxInit, NoCall, NoLeader, JailInvariant, LeafRemains,
         LeafInvariant, LeafHasOneHolder, Holds
<1>2. EngineInvariant /\ LeafInvariant /\ [EngineNext]_engineVars => LeafInvariant'
  BY LeafInductive DEF EngineInvariant
<1>3. EngineInvariant /\ SuiteTypes /\ JailInvariant /\ [EngineNext]_engineVars
        => JailInvariant'
  BY JailInductive DEF Jailed
<1>4. EngineInvariant /\ SuiteTypes /\ LeafInvariant /\ LeafRemains
        /\ [EngineNext]_engineVars => LeafRemains'
  BY RemainsInductive DEF Leafed
<1>5. EngineInvariant /\ SuiteTypes /\ JailInvariant /\ LeafRemains => CasesLeaveNothing
  BY RemainsAreAllowed DEF Jailed
<1>6. QED
  BY <1>1, <1>2, <1>3, <1>4, <1>5, EngineInvariantHolds, SuiteTypesHold, PTL
     DEF EngineSpec

-----------------------------------------------------------------------------
(* What becomes of a result.                                               *)

\* What excuses a lost result stays on record.
LEMMA ExcusesStay ==
  ASSUME EngineInvariant, SuiteTypes, [EngineNext]_engineVars
  PROVE  unconfined \subseteq unconfined' /\ (faults > 0 => faults' > 0)
<1>1. CASE UNCHANGED engineVars
  BY <1>1 DEF engineVars, sandboxVars
<1>2. ASSUME NEW e \in Executions, CallStep(e)
      PROVE  unconfined' = unconfined /\ (Sound \/ Fault)
  BY <1>2 DEF CallStep, Allocate, Launch, Attach, Observe, Release
<1>3. ASSUME NEW e \in Executions,
             ObserveFails(e) \/ Exit(e) \/ JailFails(e) \/ Crash(e)
      PROVE  unconfined' = unconfined /\ (Sound \/ Fault)
  BY <1>3 DEF ObserveFails, Exit, JailFails, Crash, Sound
<1>4. ASSUME NEW e \in Executions, Work(e)
      PROVE  unconfined \subseteq unconfined' /\ Sound
  BY <1>4 DEF Work, Sound
<1>5. ASSUME NEW c \in Cases, DeadlineSets(c) \/ DeadlineKills(c)
      PROVE  unconfined' = unconfined /\ Sound
  BY <1>5 DEF DeadlineSets, DeadlineKills, Sound
<1>6. ASSUME NEW e \in Executions, Start(e) \/ Judge(e) \/ Report(e)
      PROVE  unconfined' = unconfined /\ (Sound \/ Fault)
  BY <1>6 DEF Start, Judge, Report, Sound
<1>7. Sound \/ Fault => (faults > 0 => faults' > 0)
  BY DEF SuiteTypes, Sound, Fault
<1>8. QED
  BY <1>1, <1>2, <1>3, <1>4, <1>5, <1>6, <1>7 DEF EngineNext, HostStep

\* A child that its leaf kept was left there by a release that failed.
LEMMA WhoDisturbsTheRemoval ==
  ASSUME Leafed, NEW e \in Executions, call[e].step = "judged",
         NEW child \in children, child.of[1] = e
  PROVE  faults > 0 \/ \E t \in Tests : <<e, t>> \in unconfined
<1>1. PICK t \in Tests : child.of = <<e, t>>
  BY DEF Leafed, SuiteTypes, Cases
<1>2. CASE ~child.inLeaf
  BY <1>1, <1>2 DEF Leafed, LeafRemains
<1>3. CASE child.inLeaf
  <2>1. KeptLeaf(e, t)
    BY <1>1, <1>3 DEF Leafed, LeafRemains
  <2>2. \A x \in Executions : ~Holds(x, t)
    BY <2>1 DEF KeptLeaf, Holds
  <2>3. QED
    BY <2>1, <2>2 DEF KeptLeaf, Leafed, LeafInvariant, LeafHasOneHolder
<1>4. QED
  BY <1>2, <1>3

LEMMA LostInductive ==
  ASSUME Leafed, ResultLostForAReason, [EngineNext]_engineVars
  PROVE  ResultLostForAReason'
<1> SUFFICES ASSUME NEW e \in Executions, outcome'[e] = Raised
             PROVE  faults' > 0 \/ \E t \in Tests : <<e, t>> \in unconfined'
  BY DEF ResultLostForAReason
<1>1. EngineInvariant /\ outcome = [x \in Executions |-> outcome[x]]
  BY DEF Leafed, EngineInvariant, ExecutionTypeOK
<1>2. unconfined \subseteq unconfined' /\ (faults > 0 => faults' > 0)
  BY ExcusesStay DEF Leafed
<1>3. CASE outcome'[e] = outcome[e]
  BY <1>2, <1>3 DEF ResultLostForAReason
<1>4. ASSUME outcome'[e] # outcome[e] PROVE Start(e) \/ Report(e)
  <2>1. ~UNCHANGED outcome
    BY <1>4
  <2>2. PICK x \in Executions : Start(x) \/ Report(x)
    BY <2>1 DEF EngineNext, engineVars, sessionVars, Judge
  <2>3. x = e
    BY <1>1, <1>4, <2>2 DEF Start, Report, Over
  <2>4. QED
    BY <2>2, <2>3
<1>5. ASSUME Start(e), outcome'[e] # outcome[e] PROVE faults' > 0
  <2>1. PICK result : outcome' = [outcome EXCEPT ![e] = result] /\ (result = Raised => Fault)
    <3>1. /\ Unrun("INTERNAL_ERROR", 0).status # "raised"
          /\ Unrun("COMPILATION_ERROR", Total).status # "raised"
          /\ Raised.status = "raised"
      BY DEF Unrun, Raised
    <3>2. QED
      BY <1>5, <3>1 DEF Start, Over
  <2>2. result = Raised
    BY <1>1, <2>1
  <2>3. QED
    BY <2>1, <2>2 DEF Fault, Leafed, SuiteTypes
<1>6. ASSUME Report(e)
      PROVE  faults > 0 \/ \E t \in Tests : <<e, t>> \in unconfined
  <2>1. call[e].step = "judged"
    BY <1>6 DEF Report
  <2>2. Summary(cases[e], Total) # Raised
    <3>1. Raised.status \notin CaseVerdicts
      BY DEF Raised, Unrun, CaseVerdicts
    <3>2. QED
      BY <1>1, <2>1, <3>1, SummaryIsAVerdict
  <2>3. \E child \in children : child.of[1] = e
    BY <1>1, <1>6, <2>2 DEF Report, Over
  <2>4. QED
    BY <2>1, <2>3, WhoDisturbsTheRemoval
<1>7. QED
  BY <1>2, <1>3, <1>4, <1>5, <1>6

\* Whatever the programs, the deadlines and the host do: an execution gives its
\* worker an exception in place of a result only after a failure of the host, or
\* where a program of its own ran before it was in its leaf.
THEOREM ResultsAreNotLost == EngineSpec => []ResultLostForAReason
<1>1. EngineInit => LeafRemains /\ LeafInvariant /\ ResultLostForAReason
  <2>1. NoOutcome # Raised
    <3>1. NoOutcome.status # Raised.status
      BY DEF NoOutcome, Raised, Unrun
    <3>2. QED
      BY <3>1
  <2>2. QED
    BY <2>1 DEF EngineInit, SandboxInit, NoCall, NoLeader, LeafRemains,
       LeafInvariant, LeafHasOneHolder, Holds, ResultLostForAReason
<1>2. EngineInvariant /\ LeafInvariant /\ [EngineNext]_engineVars => LeafInvariant'
  BY LeafInductive DEF EngineInvariant
<1>3. EngineInvariant /\ SuiteTypes /\ LeafInvariant /\ LeafRemains
        /\ [EngineNext]_engineVars => LeafRemains'
  BY RemainsInductive DEF Leafed
<1>4. EngineInvariant /\ SuiteTypes /\ LeafInvariant /\ LeafRemains
        /\ ResultLostForAReason /\ [EngineNext]_engineVars => ResultLostForAReason'
  BY LostInductive DEF Leafed
<1>5. QED
  BY <1>1, <1>2, <1>3, <1>4, EngineInvariantHolds, SuiteTypesHold, PTL
     DEF EngineSpec

=============================================================================
