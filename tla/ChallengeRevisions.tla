------------------------- MODULE ChallengeRevisions -------------------------
(***************************************************************************)
(* Seeding: what seed_challenge_catalog.py does, at every start of the     *)
(* stack, to the challenges and their revisions in PostgreSQL and to the   *)
(* directory of immutable bundles on disk (seed/package_catalog.py,        *)
(* storage/bundle_archive.py, persistence/revisions.py).                   *)
(*                                                                         *)
(* A bundle is its files and a digest is the content it was computed from: *)
(* SHA-256 is taken to have no collisions.  A run of the script is one     *)
(* transaction over all bundles.  Its UPDATE or INSERT of a challenge      *)
(* holds the lock of that row until the end, and what it writes is seen    *)
(* only after its commit.  Of the columns of a challenge the model keeps   *)
(* the profile, and accepted_count, which AttemptStore shares.             *)
(***************************************************************************)
EXTENDS Naturals, Sequences, FiniteSets, Functions

CONSTANTS
  Bundles,        \* discover_bundles: the challenges in the order of their names
  Files,          \* the files of a bundle
  Versions,       \* the contents a file may have; every file starts with 0
  Scripts,        \* processes that may run the script
  MaxEdits,       \* bound: edits of working bundles
  MaxScriptRuns   \* bound: runs of maintenance scripts

ASSUME VersionsAssumption == 0 \in Versions
\* Without a bundle the script writes nothing.
ASSUME BundlesAssumption  == Bundles \in Seq(Range(Bundles)) \ {<< >>}

VARIABLES
  bundle,      \* the working bundle of each challenge
  catalogue,   \* challenges.profile: what is shown and the revision it names
  revisions,   \* challenge_revisions: the digests of a challenge by number
  artifacts,   \* .runline/revisions/<digest>
  temp,        \* .runline/revisions/<digest>.tmp
  rowLock,     \* who holds the lock of each challenge row
  seeder,      \* each process's run of the script
  edits, runs,
  torn,        \* digests published by a run that an edit overlapped
  reseeded     \* challenges whose count a run found above zero and reset

bundleVars == <<bundle, edits>>
diskVars   == <<artifacts, temp>>
tableVars  == <<catalogue, revisions, reseeded>>
seedVars   == <<bundleVars, diskVars, tableVars, rowLock, seeder, runs, torn>>

Seeded == Range(Bundles)
Content == [Files -> Versions]
Digests == [challenge : Seeded, files : Content]
Nobody  == "nobody"
ASSUME ScriptsAssumption == Nobody \notin Scripts

NoEntry == [shown |-> << >>, digest |-> << >>, overlapped |-> FALSE]
Present(c) == catalogue[c] # NoEntry

\* No run: count is the accepted_count that was loaded, seen what the manifest
\* has of the files, writes what the open transaction will make visible.
Idle == [step |-> "idle", at |-> 1, item |-> << >>, found |-> FALSE, count |-> 0,
         seen |-> << >>, overlapped |-> FALSE, writes |-> {}]

SeedInit ==
  /\ bundle = [c \in Seeded |-> [f \in Files |-> 0]]
  /\ catalogue = [c \in Seeded |-> NoEntry]
  /\ revisions = [c \in Seeded |-> << >>]
  /\ artifacts = << >>
  /\ temp = << >>
  /\ rowLock = [c \in Seeded |-> Nobody]
  /\ seeder = [s \in Scripts |-> Idle]
  /\ edits = 0 /\ runs = 0
  /\ torn = {}
  /\ reseeded = {}

At(s) == Bundles[seeder[s].at]
InStep(s, step) == seeder[s].step = step

\* The files of a directory under construction.
With(files, f, version) == [x \in DOMAIN files \cup {f} |->
                              IF x = f THEN version ELSE files[x]]

\* An author edits a file of the working bundle.
Edit(c, f, version) ==
  /\ edits < MaxEdits
  /\ edits' = edits + 1
  /\ bundle[c][f] # version
  /\ bundle' = [bundle EXCEPT ![c][f] = version]
  /\ seeder' = [s \in Scripts |->
                  IF seeder[s].step \in {"flush", "manifest", "copy"} /\ At(s) = c
                  THEN [seeder[s] EXCEPT !.overlapped = TRUE] ELSE seeder[s]]
  /\ UNCHANGED <<diskVars, tableVars, rowLock, runs, torn>>

-----------------------------------------------------------------------------
(* One run of the script; count is challenges.accepted_count.              *)

StartSeed(s) ==
  /\ InStep(s, "idle")
  /\ runs < MaxScriptRuns
  /\ runs' = runs + 1
  /\ seeder' = [seeder EXCEPT ![s].step = "load"]
  /\ UNCHANGED <<bundleVars, diskVars, tableVars, rowLock, torn>>

\* load_challenge_bundle and session.get, which takes no lock.
LoadChallenge(s, count) ==
  /\ InStep(s, "load")
  /\ seeder' = [seeder EXCEPT ![s].step = "flush", ![s].item = bundle[At(s)],
                              ![s].found = Present(At(s)),
                              ![s].count = count[At(s)],
                              ![s].overlapped = FALSE]
  /\ UNCHANGED <<bundleVars, diskVars, tableVars, rowLock, runs, torn>>

Release(s) == rowLock' = [c \in Seeded |->
                            IF rowLock[c] = s THEN Nobody ELSE rowLock[c]]

\* Mutant: the challenge is written after its snapshot, at the commit.
FlushUnlocked(s) ==
  /\ InStep(s, "flush")
  /\ seeder' = [seeder EXCEPT ![s].step = "manifest", ![s].seen = << >>]
  /\ UNCHANGED <<bundleVars, diskVars, tableVars, rowLock, runs, torn>>

\* flush: the UPDATE (the profile always differs: the stored one names a
\* revision) or the INSERT waits for any other run.  An INSERT that finds the
\* row committed in the meantime fails, and the run with it.
Flush(s) ==
  /\ InStep(s, "flush")
  /\ rowLock[At(s)] = Nobody
  /\ \/ /\ seeder[s].found \/ ~Present(At(s))
        /\ rowLock' = [rowLock EXCEPT ![At(s)] = s]
        /\ seeder' = [seeder EXCEPT ![s].step = "manifest", ![s].seen = << >>]
     \/ /\ ~seeder[s].found /\ Present(At(s))
        /\ Release(s)
        /\ seeder' = [seeder EXCEPT ![s] = Idle]
  /\ UNCHANGED <<bundleVars, diskVars, tableVars, runs, torn>>

\* bundle_manifest reads one file after another.
ReadFile(s, f) ==
  /\ InStep(s, "manifest")
  /\ f \notin DOMAIN seeder[s].seen
  /\ seeder' = [seeder EXCEPT ![s].seen = With(@, f, bundle[At(s)][f])]
  /\ UNCHANGED <<bundleVars, diskVars, tableVars, rowLock, runs, torn>>

\* challenge.json names the challenge: no two challenges share a digest.
Digest(s) == [challenge |-> At(s), files |-> seeder[s].seen]

\* A digest that is published is taken as it is; otherwise what an earlier
\* run left in the temporary directory goes first.
PrepareSnapshot(s) ==
  /\ InStep(s, "manifest")
  /\ DOMAIN seeder[s].seen = Files
  /\ \/ /\ Digest(s) \in DOMAIN artifacts
        /\ seeder' = [seeder EXCEPT ![s].step = "ensure"]
        /\ UNCHANGED temp
     \/ /\ Digest(s) \notin DOMAIN artifacts
        /\ seeder' = [seeder EXCEPT ![s].step = "copy"]
        /\ temp' = With(temp, Digest(s), << >>)
  /\ UNCHANGED <<bundleVars, artifacts, tableVars, rowLock, runs, torn>>

\* shutil.copytree
CopyFile(s, f) ==
  /\ InStep(s, "copy")
  /\ Digest(s) \in DOMAIN temp
  /\ f \notin DOMAIN temp[Digest(s)]
  /\ temp' = [temp EXCEPT ![Digest(s)] = With(@, f, bundle[At(s)][f])]
  /\ UNCHANGED <<bundleVars, artifacts, tableVars, rowLock, seeder, runs, torn>>

\* Mutant: only the newest snapshot is kept.
PublishAlone(s) ==
  LET d == Digest(s)
  IN  /\ InStep(s, "copy")
      /\ d \in DOMAIN temp /\ DOMAIN temp[d] = Files
      /\ artifacts' = Restrict(temp, {d})
      /\ temp' = Restrict(temp, DOMAIN temp \ {d})
      /\ torn' = IF seeder[s].overlapped THEN torn \cup {d} ELSE torn
      /\ seeder' = [seeder EXCEPT ![s].step = "ensure"]
      /\ UNCHANGED <<bundleVars, tableVars, rowLock, runs>>

\* temp.rename(destination)
Publish(s) ==
  LET d == Digest(s)
  IN  /\ InStep(s, "copy")
      /\ d \in DOMAIN temp /\ DOMAIN temp[d] = Files
      /\ artifacts' = With(artifacts, d, temp[d])
      /\ temp' = Restrict(temp, DOMAIN temp \ {d})
      /\ torn' = IF seeder[s].overlapped THEN torn \cup {d} ELSE torn
      /\ seeder' = [seeder EXCEPT ![s].step = "ensure"]
      /\ UNCHANGED <<bundleVars, tableVars, rowLock, runs>>

\* Mutant: the loop does not end at the last bundle.
EnsureOn(s) ==
  /\ InStep(s, "ensure")
  /\ seeder' = [seeder EXCEPT ![s].step = "load", ![s].at = @ + 1]
  /\ UNCHANGED <<bundleVars, diskVars, tableVars, rowLock, runs, torn>>

\* ChallengeRevisionRepository.ensure and the profile; then the next bundle.
Ensure(s) ==
  LET write == [challenge |-> At(s), shown |-> seeder[s].item,
                digest |-> Digest(s), found |-> seeder[s].found,
                count |-> seeder[s].count, overlapped |-> seeder[s].overlapped]
  IN  /\ InStep(s, "ensure")
      /\ seeder' = [seeder EXCEPT ![s] =
           [Idle EXCEPT !.writes = seeder[s].writes \cup {write},
                        !.step = IF seeder[s].at = Len(Bundles) THEN "commit" ELSE "load",
                        !.at = IF seeder[s].at = Len(Bundles) THEN 1 ELSE seeder[s].at + 1]]
      /\ UNCHANGED <<bundleVars, diskVars, tableVars, rowLock, runs, torn>>

\* A digest the challenge has already had keeps its number.
Numbered(c, d) ==
  IF d \in Range(revisions[c]) THEN revisions[c] ELSE Append(revisions[c], d)

\* Mutant: the count of the bundle is written whatever was loaded.
CommitSeedCount(s, count) ==
  LET written(c) == {w \in seeder[s].writes : w.challenge = c}
      write(c) == CHOOSE w \in written(c) : TRUE
  IN  /\ InStep(s, "commit")
      /\ catalogue' = [c \in Seeded |-> IF written(c) = {} THEN catalogue[c]
           ELSE [shown |-> write(c).shown, digest |-> write(c).digest,
                 overlapped |-> write(c).overlapped]]
      /\ revisions' = [c \in Seeded |->
           IF written(c) = {} THEN revisions[c] ELSE Numbered(c, write(c).digest)]
      /\ count' = [c \in DOMAIN count |-> IF written(c) = {} THEN count[c] ELSE 0]
      /\ Release(s)
      /\ seeder' = [seeder EXCEPT ![s] = Idle]
      /\ UNCHANGED <<bundleVars, diskVars, reseeded, runs, torn>>

\* The commit.  Only a changed column is written: accepted_count goes back to
\* the bundle's, which is zero, where it was not zero when it was loaded.
CommitSeed(s, count) ==
  LET written(c) == {w \in seeder[s].writes : w.challenge = c}
      write(c) == CHOOSE w \in written(c) : TRUE
      resets(c) == \E w \in written(c) : w.count # 0
  IN  /\ InStep(s, "commit")
      /\ catalogue' = [c \in Seeded |->
           IF written(c) = {} THEN catalogue[c]
           ELSE [shown |-> write(c).shown, digest |-> write(c).digest,
                 overlapped |-> write(c).overlapped]]
      /\ revisions' = [c \in Seeded |->
           IF written(c) = {} THEN revisions[c] ELSE Numbered(c, write(c).digest)]
      /\ count' = [c \in DOMAIN count |-> IF resets(c) THEN 0 ELSE count[c]]
      /\ reseeded' = reseeded \cup {c \in Seeded : resets(c)}
      /\ Release(s)
      /\ seeder' = [seeder EXCEPT ![s] = Idle]
      /\ UNCHANGED <<bundleVars, diskVars, runs, torn>>

\* The process ends in the middle: the transaction is rolled back, and the
\* temporary directory stays.
CrashSeed(s) ==
  /\ ~InStep(s, "idle")
  /\ Release(s)
  /\ seeder' = [seeder EXCEPT ![s] = Idle]
  /\ UNCHANGED <<bundleVars, diskVars, tableVars, runs, torn>>

=============================================================================
