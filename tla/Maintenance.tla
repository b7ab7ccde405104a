----------------------------- MODULE Maintenance -----------------------------
(***************************************************************************)
(* The system while it is maintained: users open attempts and workers      *)
(* decide them, authors edit bundles, and the seeding and rebuilding       *)
(* scripts run beside them on the same database.  The queue and the outbox *)
(* are left out: the transactions of AttemptStore run in any order.        *)
(***************************************************************************)
EXTENDS ProjectionRebuild, ChallengeRevisions

\* Only seeding makes challenges.
ASSUME SeededAssumption == Seeded = Challenges

VARIABLE judgedBy   \* challenge_digest of each attempt's command

maintenanceVars == <<storeVars, rebuildVars, seedVars, judgedBy>>

NoDigest == << >>

MaintenanceInit ==
  /\ StoreInit
  /\ RebuildInit
  /\ SeedInit
  /\ judgedBy = [a \in Attempts |-> NoDigest]

\* ChallengeRevisionRepository.latest
latest(c) == Last(revisions[c])

\* AttemptService.create finds the challenge and names its latest revision.
OpenHere(a) ==
  /\ Present(ChallengeOf[a])
  /\ OpenAttempt(a)
  /\ judgedBy' = [judgedBy EXCEPT ![a] = latest(ChallengeOf[a])]
  /\ UNCHANGED <<rebuildVars, seedVars>>

\* An append waits for the projection row; a credit for the challenge row.
Transact(command) ==
  LET a == command.attempt
  IN  /\ Transaction(command)
      /\ history' # history => projectionLock[a] = Unlocked
      /\ acceptedCount' # acceptedCount => rowLock[ChallengeOf[a]] = Nobody
      /\ UNCHANGED <<rebuildVars, seedVars, judgedBy>>

othersThanCount == <<row, history, processed, completed, outbox, published>>

SeedStep(s) ==
  /\ \/ StartSeed(s) \/ Flush(s) \/ PrepareSnapshot(s) \/ Publish(s) \/ Ensure(s)
     \/ CrashSeed(s)
     \/ LoadChallenge(s, acceptedCount)
     \/ \E f \in Files : ReadFile(s, f) \/ CopyFile(s, f)
  /\ UNCHANGED <<storeVars, rebuildVars, judgedBy>>

SeedCommits(s) ==
  /\ CommitSeed(s, acceptedCount)
  /\ UNCHANGED <<othersThanCount, rebuildVars, judgedBy>>

RebuildStep(r) ==
  /\ \/ \E a \in Attempts : ReadEvents(r, a)
     \/ LoadProjection(r) \/ WriteProjection(r) \/ CrashRebuild(r)
  /\ UNCHANGED <<storeVars, seedVars, judgedBy>>

RebuildStarts(r) ==
  /\ runs < MaxScriptRuns
  /\ runs' = runs + 1
  /\ StartRebuild(r)
  /\ UNCHANGED <<storeVars, bundleVars, diskVars, tableVars, rowLock, seeder,
                 torn, judgedBy>>

RebuildCommits(r) ==
  /\ CommitRebuild(r)
  /\ UNCHANGED <<row, processed, completed, acceptedCount, outbox, published,
                 seedVars, judgedBy>>

AuthorEdits ==
  /\ \E c \in Seeded, f \in Files, version \in Versions : Edit(c, f, version)
  /\ UNCHANGED <<storeVars, rebuildVars, judgedBy>>

MaintenanceNext ==
  \/ \E a \in Attempts : OpenHere(a)
  \/ \E command \in EvaluationCommand : Transact(command)
  \/ \E s \in Scripts : SeedStep(s) \/ SeedCommits(s)
  \/ \E r \in Rebuilders : RebuildStarts(r) \/ RebuildStep(r) \/ RebuildCommits(r)
  \/ AuthorEdits

MaintenanceSpec == MaintenanceInit /\ [][MaintenanceNext]_maintenanceVars

=============================================================================
