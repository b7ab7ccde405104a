-------------------------- MODULE MaintenanceProofs --------------------------
(***************************************************************************)
(* The theorems about Maintenance, for every set of attempts, challenges,  *)
(* files and processes, and for any number of edits and runs: what the     *)
(* seeding and the rebuilding script keep while everything else goes on.   *)
(***************************************************************************)
EXTENDS MaintenanceProperties, ServiceProofs

USE AccountOfAssumption, ChallengeOfAssumption, VerdictsAssumption,
    MaxAttemptsAssumption

-----------------------------------------------------------------------------
(* Types.                                                                   *)

SeedWrite ==
  [challenge : Seeded, shown : Content, digest : Digests, found : BOOLEAN,
   count : Nat, overlapped : BOOLEAN]

SeedSteps == {"idle", "load", "flush", "manifest", "copy", "ensure", "commit"}

SeedRun ==
  [step : SeedSteps, at : DOMAIN Bundles, item : Content \cup {<< >>},
   found : BOOLEAN, count : Nat, seen : PartialContent, overlapped : BOOLEAN,
   writes : SUBSET SeedWrite]

CatalogueEntry == [shown : Content, digest : Digests, overlapped : BOOLEAN]

RebuildWrite ==
  [attempt : Attempts, projection : AttemptProjection,
   effect : {"restores", "keeps", "races"}]

RebuildRun ==
  [step : {"idle", "next", "load", "write"}, todo : SUBSET Attempts,
   attempt : Attempts \cup {"none"}, events : Seq(LifecycleEvent),
   loaded : AttemptProjection, writes : SUBSET RebuildWrite]

\* The rows and the two directories.
SeedTypes ==
  /\ bundle \in [Seeded -> Content]
  /\ catalogue \in [Seeded -> CatalogueEntry \cup {NoEntry}]
  /\ revisions \in [Seeded -> Seq(Digests)]
  /\ rowLock \in [Seeded -> Scripts \cup {Nobody}]
  /\ seeder \in [Scripts -> SeedRun]
  /\ DOMAIN artifacts \subseteq Digests /\ DOMAIN temp \subseteq Digests
  /\ \A d \in DOMAIN artifacts : artifacts[d] \in Content
  /\ \A d \in DOMAIN temp : temp[d] \in PartialContent

RebuildTypes ==
  /\ rebuilder \in [Rebuilders -> RebuildRun]
  /\ projectionLock \in [Attempts -> Rebuilders \cup {Unlocked}]
  /\ judgedBy \in [Attempts -> Digests \cup {NoDigest}]

-----------------------------------------------------------------------------
(* Invariants *)

\* What an uncommitted write of a seeding run holds.
WriteIsGuarded(s, w) ==
  /\ rowLock[w.challenge] = s
  /\ w.digest \in DOMAIN artifacts
  /\ w.overlapped \/ w.shown = w.digest.files

\* A run that makes a snapshot holds the lock of its challenge.
SnapshotIsGuarded(s) ==
  /\ seeder[s].step \in {"flush", "manifest", "copy", "ensure"} =>
       seeder[s].item \in Content
  /\ seeder[s].step \in {"manifest", "copy", "ensure"} => rowLock[At(s)] = s
  /\ seeder[s].step \in {"copy", "ensure"} => DOMAIN seeder[s].seen = Files
  /\ seeder[s].step = "copy" => Digest(s) \notin DOMAIN artifacts
  /\ seeder[s].step = "ensure" => Digest(s) \in DOMAIN artifacts
  /\ \A w \in seeder[s].writes : WriteIsGuarded(s, w)

\* A run that no edit has overlapped has read what the bundle is.
SnapshotIsCurrent(s) ==
  ~seeder[s].overlapped =>
    /\ seeder[s].step \in {"flush", "manifest", "copy"} =>
         seeder[s].item = bundle[At(s)]
    /\ seeder[s].step \in {"manifest", "copy", "ensure"} =>
         \A f \in DOMAIN seeder[s].seen : seeder[s].seen[f] = seeder[s].item[f]
    /\ seeder[s].step = "copy" /\ Digest(s) \in DOMAIN temp =>
         \A f \in DOMAIN temp[Digest(s)] :
           temp[Digest(s)][f] = seeder[s].item[f]

RevisionsAreKept ==
  /\ \A d \in DOMAIN artifacts \ torn : artifacts[d] = d.files
  /\ \A c \in Seeded :
       /\ Range(revisions[c]) \subseteq DOMAIN artifacts
       /\ IsFiniteSet(Range(revisions[c]))
       /\ Cardinality(Range(revisions[c])) = Len(revisions[c])
       /\ Present(c) =>
            /\ catalogue[c].digest \in Range(revisions[c])
            /\ catalogue[c].overlapped \/ catalogue[c].shown = catalogue[c].digest.files

SeedInvariant ==
  /\ \A s \in Scripts : SnapshotIsGuarded(s) /\ SnapshotIsCurrent(s)
  /\ RevisionsAreKept

JudgedByNamed == \A a \in Attempts : row[a] # "ABSENT" => judgedBy[a] \in Named

\* A written projection waits under its lock.
ProjectionWriteIsGuarded(r, w) ==
  /\ projectionLock[w.attempt] = r
  /\ row[w.attempt] # "ABSENT"
  /\ w.effect = "restores" => w.projection = Replay(Events(w.attempt))
  /\ w.effect = "keeps" => w.projection = history[w.attempt].projection

RebuildIsGuarded(r) ==
  /\ \A a \in rebuilder[r].todo : row[a] # "ABSENT"
  /\ rebuilder[r].step \in {"load", "write"} =>
       rebuilder[r].attempt \in Attempts /\ row[rebuilder[r].attempt] # "ABSENT"
  /\ \A w \in rebuilder[r].writes : ProjectionWriteIsGuarded(r, w)

RebuildInvariant ==
  /\ \A r \in Rebuilders : RebuildIsGuarded(r)
  /\ ProjectionLagsOnlyAfterOverlap

CreditsInvariant ==
  IsFiniteSet(completed) /\ CreditsSurviveUnlessReseeded

-----------------------------------------------------------------------------
(* Contents and runs.                                                       *)

LEMMA NothingIsPartial == << >> \in PartialContent
<1>1. << >> \in [{} -> Versions]
  OBVIOUS
<1>2. QED
  BY <1>1 DEF PartialContent

LEMMA WithIsPartial ==
  ASSUME NEW p \in PartialContent, NEW f \in Files, NEW v \in Versions
  PROVE  /\ With(p, f, v) \in PartialContent
         /\ DOMAIN With(p, f, v) = DOMAIN p \cup {f}
         /\ With(p, f, v)[f] = v
         /\ \A x \in DOMAIN p : x # f => With(p, f, v)[x] = p[x]
<1>1. PICK fs \in SUBSET Files : p \in [fs -> Versions]
  BY DEF PartialContent
<1>2. With(p, f, v) \in [fs \cup {f} -> Versions]
  BY <1>1 DEF With
<1>3. fs \cup {f} \in SUBSET Files
  BY <1>1
<1>4. With(p, f, v) \in PartialContent
  BY <1>2, <1>3 DEF PartialContent
<1>5. DOMAIN p = fs
  BY <1>1
<1>6. QED
  BY <1>4, <1>5 DEF With

LEMMA WholeIsContent ==
  ASSUME NEW p \in PartialContent, DOMAIN p = Files
  PROVE  p \in Content
BY DEF PartialContent, Content

LEMMA BundlesExist ==
  /\ 1 \in DOMAIN Bundles
  /\ Len(Bundles) \in Nat \ {0} /\ DOMAIN Bundles = 1 .. Len(Bundles)
  /\ \A i \in DOMAIN Bundles : Bundles[i] \in Seeded
<1>1. Bundles \in Seq(Seeded) /\ Bundles # << >>
  BY BundlesAssumption DEF Seeded
<1>2. QED
  BY <1>1

LEMMA RunsAreOfBundles ==
  ASSUME SeedTypes, NEW s \in Scripts
  PROVE  /\ seeder[s] \in SeedRun
         /\ At(s) \in Seeded
         /\ Digest(s).challenge = At(s) /\ Digest(s).files = seeder[s].seen
         /\ DOMAIN seeder[s].seen = Files =>
              Digest(s) \in Digests /\ seeder[s].seen \in Content
<1>1. seeder[s] \in SeedRun
  BY DEF SeedTypes
<1>2. At(s) \in Seeded
  BY <1>1, BundlesExist DEF At, SeedRun
<1>3. DOMAIN seeder[s].seen = Files => seeder[s].seen \in Content
  BY <1>1, WholeIsContent DEF SeedRun
<1>4. QED
  BY <1>1, <1>2, <1>3 DEF Digest, Digests

LEMMA IdleIsRun == Idle \in SeedRun
BY BundlesExist, NothingIsPartial DEF Idle, SeedRun, SeedSteps

-----------------------------------------------------------------------------
(* Seeding keeps the types.                                                 *)

\* What a step of a run leaves to the other runs.
OnlyRun(s) ==
  /\ seeder' \in [Scripts -> SeedRun]
  /\ \A x \in Scripts \ {s} : seeder'[x] = seeder[x]

LEMMA RunGoesOn ==
  ASSUME SeedTypes, NEW s \in Scripts, NEW r \in SeedRun,
         seeder' = [seeder EXCEPT ![s] = r]
  PROVE  OnlyRun(s) /\ seeder'[s] = r
BY DEF SeedTypes, OnlyRun

LEMMA StartSeedRun ==
  ASSUME SeedTypes, NEW s \in Scripts, StartSeed(s)
  PROVE  /\ OnlyRun(s)
         /\ seeder'[s] = [seeder[s] EXCEPT !.step = "load"]
<1>1. [seeder[s] EXCEPT !.step = "load"] \in SeedRun
  BY RunsAreOfBundles DEF SeedRun, SeedSteps
<1>2. QED
  BY <1>1, RunGoesOn DEF StartSeed

LEMMA LoadChallengeRun ==
  ASSUME SeedTypes, StoreTypeOK, NEW s \in Scripts,
         LoadChallenge(s, acceptedCount)
  PROVE  /\ OnlyRun(s)
         /\ seeder'[s] = [seeder[s] EXCEPT !.step = "flush",
                            !.item = bundle[At(s)], !.found = Present(At(s)),
                            !.count = acceptedCount[At(s)], !.overlapped = FALSE]
<1>1. bundle[At(s)] \in Content /\ acceptedCount[At(s)] \in Nat
      /\ Present(At(s)) \in BOOLEAN
  BY RunsAreOfBundles, SeededAssumption DEF SeedTypes, StoreTypeOK, Present
<1>2. [seeder[s] EXCEPT !.step = "flush",
          !.item = bundle[At(s)], !.found = Present(At(s)),
          !.count = acceptedCount[At(s)], !.overlapped = FALSE] \in SeedRun
  BY <1>1, RunsAreOfBundles DEF SeedRun, SeedSteps
<1>3. seeder' = [seeder EXCEPT ![s] =
        [seeder[s] EXCEPT !.step = "flush",
          !.item = bundle[At(s)], !.found = Present(At(s)),
          !.count = acceptedCount[At(s)], !.overlapped = FALSE]]
  BY DEF LoadChallenge, SeedTypes, SeedRun
<1>4. QED
  BY <1>2, <1>3, RunGoesOn

LEMMA FlushRun ==
  ASSUME SeedTypes, NEW s \in Scripts, Flush(s)
  PROVE  /\ OnlyRun(s)
         /\ rowLock' \in [Seeded -> Scripts \cup {Nobody}]
         /\ \/ /\ seeder'[s] = [seeder[s] EXCEPT !.step = "manifest", !.seen = << >>]
               /\ rowLock[At(s)] = Nobody
               /\ rowLock' = [rowLock EXCEPT ![At(s)] = s]
            \/ seeder'[s] = Idle /\ Release(s)
<1>1. CASE /\ rowLock' = [rowLock EXCEPT ![At(s)] = s]
           /\ seeder' = [seeder EXCEPT ![s].step = "manifest", ![s].seen = << >>]
  <2>1. [seeder[s] EXCEPT !.step = "manifest", !.seen = << >>] \in SeedRun
    BY RunsAreOfBundles, NothingIsPartial DEF SeedRun, SeedSteps
  <2>2. rowLock' \in [Seeded -> Scripts \cup {Nobody}]
    BY <1>1, RunsAreOfBundles DEF SeedTypes
  <2>3. seeder' = [seeder EXCEPT ![s] =
          [seeder[s] EXCEPT !.step = "manifest", !.seen = << >>]]
    BY <1>1 DEF SeedTypes, SeedRun
  <2>4. OnlyRun(s)
        /\ seeder'[s] = [seeder[s] EXCEPT !.step = "manifest", !.seen = << >>]
    BY <2>1, <2>3, RunGoesOn
  <2>5. QED
    BY <1>1, <2>2, <2>4 DEF Flush
<1>2. CASE /\ Release(s)
           /\ seeder' = [seeder EXCEPT ![s] = Idle]
  <2>1. rowLock' \in [Seeded -> Scripts \cup {Nobody}]
    BY <1>2 DEF Release, SeedTypes
  <2>2. QED
    BY <1>2, <2>1, IdleIsRun, RunGoesOn
<1>3. QED
  BY <1>1, <1>2 DEF Flush

LEMMA ReadFileRun ==
  ASSUME SeedTypes, NEW s \in Scripts, NEW f \in Files, ReadFile(s, f)
  PROVE  /\ OnlyRun(s)
         /\ seeder'[s] = [seeder[s] EXCEPT
                            !.seen = With(seeder[s].seen, f, bundle[At(s)][f])]
<1>1. bundle[At(s)][f] \in Versions
  BY RunsAreOfBundles DEF SeedTypes, Content
<1>2. seeder[s].seen \in PartialContent
  BY RunsAreOfBundles DEF SeedRun
<1>3. With(seeder[s].seen, f, bundle[At(s)][f]) \in PartialContent
  BY <1>1, <1>2, WithIsPartial
<1>4. [seeder[s] EXCEPT !.seen = With(seeder[s].seen, f, bundle[At(s)][f])]
         \in SeedRun
  BY <1>3, RunsAreOfBundles DEF SeedRun
<1>5. QED
  BY <1>4, RunGoesOn DEF ReadFile

LEMMA NextStepRun ==
  ASSUME SeedTypes, NEW s \in Scripts, NEW p \in SeedSteps,
         seeder' = [seeder EXCEPT ![s].step = p]
  PROVE  OnlyRun(s) /\ seeder'[s] = [seeder[s] EXCEPT !.step = p]
<1>1. [seeder[s] EXCEPT !.step = p] \in SeedRun
  BY RunsAreOfBundles DEF SeedRun
<1>2. QED
  BY <1>1, RunGoesOn

\* What Ensure adds to the writes of a run.
WriteOf(s) ==
  [challenge |-> At(s), shown |-> seeder[s].item, digest |-> Digest(s),
   found |-> seeder[s].found, count |-> seeder[s].count,
   overlapped |-> seeder[s].overlapped]

LEMMA EnsureRun ==
  ASSUME SeedTypes, NEW s \in Scripts, Ensure(s),
         seeder[s].item \in Content, DOMAIN seeder[s].seen = Files
  PROVE  /\ OnlyRun(s)
         /\ WriteOf(s) \in SeedWrite
         /\ seeder'[s].step \in {"load", "commit"}
         /\ seeder'[s].writes = seeder[s].writes \cup {WriteOf(s)}
<1>1. WriteOf(s) \in SeedWrite
  BY RunsAreOfBundles DEF WriteOf, SeedWrite, SeedRun
<1>2. seeder[s].writes \subseteq SeedWrite /\ seeder[s].at \in DOMAIN Bundles
  BY RunsAreOfBundles DEF SeedRun
<1>3. seeder[s].at # Len(Bundles) => seeder[s].at + 1 \in DOMAIN Bundles
  BY <1>2, BundlesExist
<1>4. PICK p \in {"load", "commit"}, n \in DOMAIN Bundles :
        seeder' = [seeder EXCEPT ![s] =
          [Idle EXCEPT !.writes = seeder[s].writes \cup {WriteOf(s)},
                       !.step = p, !.at = n]]
  BY <1>3, BundlesExist DEF Ensure, WriteOf
<1>5. [Idle EXCEPT !.writes = seeder[s].writes \cup {WriteOf(s)},
                   !.step = p, !.at = n] \in SeedRun
  BY <1>1, <1>2, <1>4, IdleIsRun DEF SeedRun, SeedSteps
<1>6. /\ OnlyRun(s)
      /\ seeder'[s] = [Idle EXCEPT !.writes = seeder[s].writes \cup {WriteOf(s)},
                                   !.step = p, !.at = n]
  BY <1>4, <1>5, RunGoesOn
<1>7. QED
  BY <1>1, <1>6 DEF Idle

LEMMA RunEnds ==
  ASSUME SeedTypes, NEW s \in Scripts, Release(s),
         seeder' = [seeder EXCEPT ![s] = Idle]
  PROVE  /\ OnlyRun(s) /\ seeder'[s] = Idle
         /\ rowLock' \in [Seeded -> Scripts \cup {Nobody}]
         /\ \A c \in Seeded : rowLock[c] # s => rowLock'[c] = rowLock[c]
<1>1. rowLock' \in [Seeded -> Scripts \cup {Nobody}]
  BY DEF Release, SeedTypes
<1>2. QED
  BY <1>1, IdleIsRun, RunGoesOn DEF Release

\* The order of the digests of a challenge after a commit.
LEMMA NumberedIsRevisions ==
  ASSUME SeedTypes, NEW c \in Seeded, NEW d \in Digests
  PROVE  /\ Numbered(c, d) \in Seq(Digests)
         /\ Range(Numbered(c, d)) = Range(revisions[c]) \cup {d}
         /\ Len(Numbered(c, d)) =
              IF d \in Range(revisions[c])
              THEN Len(revisions[c]) ELSE Len(revisions[c]) + 1
<1>1. revisions[c] \in Seq(Digests)
  BY DEF SeedTypes
<1>2. CASE d \in Range(revisions[c])
  BY <1>1, <1>2 DEF Numbered
<1>3. CASE d \notin Range(revisions[c])
  <2>1. Numbered(c, d) = Append(revisions[c], d)
    BY <1>3 DEF Numbered
  <2>2. DOMAIN Append(revisions[c], d) = 1 .. Len(revisions[c]) + 1
    BY <1>1
  <2>3. DOMAIN revisions[c] = 1 .. Len(revisions[c]) /\ Len(revisions[c]) \in Nat
    BY <1>1
  <2>4. /\ Append(revisions[c], d)[Len(revisions[c]) + 1] = d
        /\ \A i \in 1 .. Len(revisions[c]) :
             Append(revisions[c], d)[i] = revisions[c][i]
    BY <1>1
  <2>5. Range(Append(revisions[c], d)) = Range(revisions[c]) \cup {d}
    BY <2>2, <2>3, <2>4 DEF Range
  <2>6. QED
    BY <1>1, <1>3, <2>1, <2>5
<1>4. QED
  BY <1>2, <1>3

\* What a commit makes visible of a challenge: nothing new, or one of the
\* writes of the run.
LEMMA CommitWrites ==
  ASSUME SeedTypes, NEW s \in Scripts, CommitSeed(s, acceptedCount),
         NEW c \in Seeded
  PROVE  \/ /\ catalogue'[c] = catalogue[c] /\ revisions'[c] = revisions[c]
            /\ \A w \in seeder[s].writes : w.challenge # c
         \/ \E w \in seeder[s].writes :
              /\ w.challenge = c
              /\ catalogue'[c] = [shown |-> w.shown, digest |-> w.digest,
                                  overlapped |-> w.overlapped]
              /\ revisions'[c] = Numbered(c, w.digest)
<1> DEFINE written == {w \in seeder[s].writes : w.challenge = c}
           write   == CHOOSE w \in written : TRUE
<1>1. CASE written = {}
  BY <1>1 DEF CommitSeed
<1>2. CASE written # {}
  <2>1. write \in written
    BY <1>2
  <2>2. /\ catalogue'[c] = [shown |-> write.shown, digest |-> write.digest,
                            overlapped |-> write.overlapped]
        /\ revisions'[c] = Numbered(c, write.digest)
    BY <1>2 DEF CommitSeed
  <2> HIDE DEF write
  <2>3. QED
    BY <2>1, <2>2
<1>3. QED
  BY <1>1, <1>2

LEMMA CommitSeedTypes ==
  ASSUME SeedTypes, NEW s \in Scripts, CommitSeed(s, acceptedCount)
  PROVE  SeedTypes'
<1>1. OnlyRun(s) /\ rowLock' \in [Seeded -> Scripts \cup {Nobody}]
  BY RunEnds DEF CommitSeed
<1>2. \A w \in seeder[s].writes : w \in SeedWrite
  BY RunsAreOfBundles DEF SeedRun
<1>3. ASSUME NEW c \in Seeded
      PROVE  /\ catalogue'[c] \in CatalogueEntry \cup {NoEntry}
             /\ revisions'[c] \in Seq(Digests)
  <2>1. CASE catalogue'[c] = catalogue[c] /\ revisions'[c] = revisions[c]
    BY <2>1 DEF SeedTypes
  <2>2. ASSUME NEW w \in seeder[s].writes,
               catalogue'[c] = [shown |-> w.shown, digest |-> w.digest,
                                overlapped |-> w.overlapped],
               revisions'[c] = Numbered(c, w.digest)
        PROVE  /\ catalogue'[c] \in CatalogueEntry \cup {NoEntry}
               /\ revisions'[c] \in Seq(Digests)
    <3>1. w.shown \in Content /\ w.digest \in Digests /\ w.overlapped \in BOOLEAN
      BY <1>2 DEF SeedWrite
    <3>2. QED
      BY <2>2, <3>1, NumberedIsRevisions DEF CatalogueEntry
  <2>3. QED
    BY <2>1, <2>2, CommitWrites
<1>4. /\ catalogue' = [c \in Seeded |-> catalogue'[c]]
      /\ revisions' = [c \in Seeded |-> revisions'[c]]
  BY DEF CommitSeed
<1>5. /\ catalogue' \in [Seeded -> CatalogueEntry \cup {NoEntry}]
      /\ revisions' \in [Seeded -> Seq(Digests)]
  BY <1>3, <1>4
<1>6. UNCHANGED <<bundle, artifacts, temp>>
  BY DEF CommitSeed, bundleVars, diskVars
<1>7. QED
  BY <1>1, <1>5, <1>6 DEF SeedTypes, OnlyRun

LEMMA PrepareSnapshotTypes ==
  ASSUME SeedTypes, NEW s \in Scripts, PrepareSnapshot(s)
  PROVE  /\ SeedTypes' /\ OnlyRun(s)
         /\ \E p \in {"copy", "ensure"} :
              seeder'[s] = [seeder[s] EXCEPT !.step = p]
<1>1. Digest(s) \in Digests
  BY RunsAreOfBundles DEF PrepareSnapshot
<1>2. PICK p \in {"copy", "ensure"} : seeder' = [seeder EXCEPT ![s].step = p]
  BY DEF PrepareSnapshot
<1>3. OnlyRun(s) /\ seeder'[s] = [seeder[s] EXCEPT !.step = p]
  BY <1>2, NextStepRun DEF SeedSteps
<1>4. temp' = temp \/ temp' = With(temp, Digest(s), << >>)
  BY DEF PrepareSnapshot
<1>5. /\ DOMAIN temp' \subseteq Digests
      /\ \A d \in DOMAIN temp' : temp'[d] \in PartialContent
  <2>1. CASE temp' = temp
    BY <2>1 DEF SeedTypes
  <2>2. CASE temp' = With(temp, Digest(s), << >>)
    <3>1. /\ DOMAIN temp' = DOMAIN temp \cup {Digest(s)}
          /\ temp'[Digest(s)] = << >>
          /\ \A x \in DOMAIN temp : x # Digest(s) => temp'[x] = temp[x]
      BY <2>2 DEF With
    <3>2. QED
      BY <1>1, <3>1, NothingIsPartial DEF SeedTypes
  <2>3. QED
    BY <1>4, <2>1, <2>2
<1>6. UNCHANGED <<bundle, artifacts, catalogue, revisions, rowLock>>
  BY DEF PrepareSnapshot, bundleVars, tableVars
<1>7. QED
  BY <1>3, <1>5, <1>6 DEF SeedTypes, OnlyRun

LEMMA CopyFileTypes ==
  ASSUME SeedTypes, NEW s \in Scripts, NEW f \in Files, CopyFile(s, f)
  PROVE  /\ SeedTypes'
         /\ temp' = [temp EXCEPT ![Digest(s)] =
                       With(temp[Digest(s)], f, bundle[At(s)][f])]
<1> DEFINE d == Digest(s)
<1>1. d \in DOMAIN temp /\ temp[d] \in PartialContent
  BY DEF CopyFile, SeedTypes
<1>2. bundle[At(s)][f] \in Versions
  BY RunsAreOfBundles DEF SeedTypes, Content
<1>3. temp' = [temp EXCEPT ![d] = With(temp[d], f, bundle[At(s)][f])]
  BY DEF CopyFile
<1>4. With(temp[d], f, bundle[At(s)][f]) \in PartialContent
  BY <1>1, <1>2, WithIsPartial
<1> HIDE DEF d
<1>5. /\ DOMAIN temp' = DOMAIN temp
      /\ \A x \in DOMAIN temp' : temp'[x] \in PartialContent
  BY <1>1, <1>3, <1>4 DEF SeedTypes
<1>6. UNCHANGED <<bundle, artifacts, catalogue, revisions, rowLock, seeder>>
  BY DEF CopyFile, bundleVars, tableVars
<1>7. QED
  BY <1>3, <1>5, <1>6 DEF SeedTypes, d

LEMMA PublishTypes ==
  ASSUME SeedTypes, NEW s \in Scripts, Publish(s)
  PROVE  /\ SeedTypes' /\ OnlyRun(s)
         /\ seeder'[s] = [seeder[s] EXCEPT !.step = "ensure"]
         /\ DOMAIN temp' = DOMAIN temp \ {Digest(s)}
         /\ \A x \in DOMAIN temp' : temp'[x] = temp[x]
<1> DEFINE d == Digest(s)
<1>1. d \in DOMAIN temp /\ temp[d] \in Content /\ d \in Digests
  BY WholeIsContent DEF Publish, SeedTypes
<1>2. OnlyRun(s) /\ seeder'[s] = [seeder[s] EXCEPT !.step = "ensure"]
  BY NextStepRun DEF Publish, SeedSteps
<1>3. artifacts' = With(artifacts, d, temp[d])
      /\ temp' = Restrict(temp, DOMAIN temp \ {d})
  BY DEF Publish
<1> HIDE DEF d
<1>4. /\ DOMAIN temp' = DOMAIN temp \ {d}
      /\ \A x \in DOMAIN temp' : temp'[x] = temp[x]
  BY <1>3 DEF Restrict
<1>5. /\ DOMAIN artifacts' \subseteq Digests
      /\ \A x \in DOMAIN artifacts' : artifacts'[x] \in Content
  <2>1. /\ DOMAIN artifacts' = DOMAIN artifacts \cup {d}
        /\ artifacts'[d] = temp[d]
        /\ \A x \in DOMAIN artifacts : x # d => artifacts'[x] = artifacts[x]
    BY <1>3 DEF With
  <2>2. QED
    BY <1>1, <2>1 DEF SeedTypes
<1>6. UNCHANGED <<bundle, catalogue, revisions, rowLock>>
  BY DEF Publish, bundleVars, tableVars
<1>7. QED
  BY <1>2, <1>4, <1>5, <1>6 DEF SeedTypes, OnlyRun, d

-----------------------------------------------------------------------------
(* One run and the others.                                                  *)

RunIsSound(s) == SnapshotIsGuarded(s) /\ SnapshotIsCurrent(s)

\* What a run works on is left alone.
RunUndisturbed(x) ==
  /\ seeder'[x] = seeder[x] /\ bundle' = bundle
  /\ \A c \in Seeded : rowLock[c] = x => rowLock'[c] = x
  /\ DOMAIN artifacts \subseteq DOMAIN artifacts'
  /\ seeder[x].step = "copy" =>
       /\ Digest(x) \in DOMAIN artifacts' => Digest(x) \in DOMAIN artifacts
       /\ Digest(x) \in DOMAIN temp' =>
            Digest(x) \in DOMAIN temp /\ temp'[Digest(x)] = temp[Digest(x)]

LEMMA UndisturbedIsSound ==
  ASSUME SeedTypes, NEW x \in Scripts, RunUndisturbed(x), RunIsSound(x)
  PROVE  RunIsSound(x)'
<1>1. /\ seeder'[x] = seeder[x] /\ bundle' = bundle
      /\ At(x)' = At(x) /\ Digest(x)' = Digest(x)
  BY DEF RunUndisturbed, At, Digest
<1>2. At(x) \in Seeded /\ \A w \in seeder[x].writes : w.challenge \in Seeded
  BY RunsAreOfBundles DEF SeedRun, SeedWrite
<1>3. \A w \in seeder[x].writes : WriteIsGuarded(x, w) => WriteIsGuarded(x, w)'
  BY <1>2 DEF RunUndisturbed, WriteIsGuarded
<1>4. SnapshotIsGuarded(x)'
  BY <1>1, <1>2, <1>3 DEF RunUndisturbed, RunIsSound, SnapshotIsGuarded
<1>5. SnapshotIsCurrent(x)'
  BY <1>1 DEF RunUndisturbed, RunIsSound, SnapshotIsCurrent
<1>6. QED
  BY <1>4, <1>5 DEF RunIsSound

\* The lock of the challenge keeps the snapshots of two runs apart.
LEMMA DigestsDiffer ==
  ASSUME SeedTypes, NEW s \in Scripts, NEW x \in Scripts \ {s},
         rowLock[At(s)] = s, rowLock[At(x)] = x
  PROVE  Digest(x) # Digest(s)
<1>1. At(x) # At(s)
  OBVIOUS
<1>2. QED
  BY <1>1, RunsAreOfBundles

\* A step of a run that touches neither directory.
LEMMA QuietStep ==
  ASSUME SeedTypes, SeedInvariant, NEW s \in Scripts, OnlyRun(s),
         UNCHANGED <<bundle, artifacts, temp>>,
         \A c \in Seeded : rowLock[c] \in {Nobody, s} \/ rowLock'[c] = rowLock[c],
         NEW x \in Scripts \ {s}
  PROVE  RunIsSound(x)'
<1>1. RunIsSound(x)
  BY DEF SeedInvariant, RunIsSound
<1>2. x # Nobody /\ x # s
  BY ScriptsAssumption
<1>3. RunUndisturbed(x)
  BY <1>2 DEF RunUndisturbed, OnlyRun
<1>4. QED
  BY <1>1, <1>3, UndisturbedIsSound

LEMMA IdleIsSound ==
  ASSUME NEW s \in Scripts, seeder'[s] = Idle
  PROVE  RunIsSound(s)'
BY DEF RunIsSound, SnapshotIsGuarded, SnapshotIsCurrent, Idle

\* The tables and what is published stay as they are.
LEMMA RevisionsUntouched ==
  ASSUME RevisionsAreKept, UNCHANGED <<artifacts, torn, revisions, catalogue>>
  PROVE  RevisionsAreKept'
BY DEF RevisionsAreKept, Present

LEMMA AllRunsSound ==
  ASSUME NEW s \in Scripts, RunIsSound(s)',
         \A x \in Scripts \ {s} : RunIsSound(x)', RevisionsAreKept'
  PROVE  SeedInvariant'
BY DEF SeedInvariant, RunIsSound

LEMMA WritesStayGuarded ==
  ASSUME SeedTypes, NEW s \in Scripts, SnapshotIsGuarded(s),
         seeder'[s].writes = seeder[s].writes,
         DOMAIN artifacts \subseteq DOMAIN artifacts',
         \A c \in Seeded : rowLock[c] = s => rowLock'[c] = s
  PROVE  \A w \in seeder'[s].writes : WriteIsGuarded(s, w)'
<1>1. \A w \in seeder[s].writes : w.challenge \in Seeded
  BY RunsAreOfBundles DEF SeedRun, SeedWrite
<1>2. QED
  BY <1>1 DEF SnapshotIsGuarded, WriteIsGuarded

LEMMA StartSeedIsSound ==
  ASSUME SeedTypes, SeedInvariant, NEW s \in Scripts, StartSeed(s)
  PROVE  SeedTypes' /\ SeedInvariant'
<1>1. UNCHANGED <<bundle, artifacts, temp, rowLock, torn, revisions, catalogue>>
  BY DEF StartSeed, bundleVars, diskVars, tableVars
<1>2. OnlyRun(s) /\ seeder'[s] = [seeder[s] EXCEPT !.step = "load"]
  BY StartSeedRun
<1>3. SeedTypes'
  BY <1>1, <1>2 DEF SeedTypes, OnlyRun
<1>4. /\ seeder'[s].step = "load" /\ seeder'[s].writes = seeder[s].writes
  BY <1>2, RunsAreOfBundles DEF SeedRun
<1>5. SnapshotIsGuarded(s)
  BY DEF SeedInvariant
<1>6. RunIsSound(s)'
  BY <1>1, <1>4, <1>5, WritesStayGuarded
  DEF RunIsSound, SnapshotIsGuarded, SnapshotIsCurrent
<1>7. QED
  BY <1>1, <1>2, <1>3, <1>6, QuietStep, RevisionsUntouched, AllRunsSound
  DEF SeedInvariant

LEMMA LoadChallengeIsSound ==
  ASSUME SeedTypes, SeedInvariant, StoreTypeOK, NEW s \in Scripts,
         LoadChallenge(s, acceptedCount)
  PROVE  SeedTypes' /\ SeedInvariant'
<1>1. UNCHANGED <<bundle, artifacts, temp, rowLock, torn, revisions, catalogue>>
  BY DEF LoadChallenge, bundleVars, diskVars, tableVars
<1>2. OnlyRun(s)
      /\ seeder'[s] = [seeder[s] EXCEPT !.step = "flush",
                         !.item = bundle[At(s)], !.found = Present(At(s)),
                         !.count = acceptedCount[At(s)], !.overlapped = FALSE]
  BY LoadChallengeRun
<1>3. SeedTypes'
  BY <1>1, <1>2 DEF SeedTypes, OnlyRun
<1>4. /\ seeder'[s].step = "flush" /\ seeder'[s].writes = seeder[s].writes
      /\ seeder'[s].at = seeder[s].at /\ seeder'[s].item = bundle[At(s)]
  BY <1>2, RunsAreOfBundles DEF SeedRun
<1>5. SnapshotIsGuarded(s)
  BY DEF SeedInvariant
<1>6. bundle[At(s)] \in Content /\ At(s)' = At(s)
  BY <1>4, RunsAreOfBundles DEF SeedTypes, At
<1>7. RunIsSound(s)'
  BY <1>1, <1>4, <1>5, <1>6, WritesStayGuarded
  DEF RunIsSound, SnapshotIsGuarded, SnapshotIsCurrent
<1>8. QED
  BY <1>1, <1>2, <1>3, <1>7, QuietStep, RevisionsUntouched, AllRunsSound
  DEF SeedInvariant

LEMMA FlushIsSound ==
  ASSUME SeedTypes, SeedInvariant, NEW s \in Scripts, Flush(s)
  PROVE  SeedTypes' /\ SeedInvariant'
<1>1. UNCHANGED <<bundle, artifacts, temp, torn, revisions, catalogue>>
  BY DEF Flush, bundleVars, diskVars, tableVars
<1>2. OnlyRun(s) /\ rowLock' \in [Seeded -> Scripts \cup {Nobody}]
  BY FlushRun
<1>3. SeedTypes'
  BY <1>1, <1>2 DEF SeedTypes, OnlyRun
<1>4. SnapshotIsGuarded(s) /\ SnapshotIsCurrent(s)
      /\ seeder[s].step = "flush" /\ At(s) \in Seeded
  BY RunsAreOfBundles DEF SeedInvariant, Flush, InStep
<1>5. CASE /\ seeder'[s] = [seeder[s] EXCEPT !.step = "manifest", !.seen = << >>]
           /\ rowLock[At(s)] = Nobody
           /\ rowLock' = [rowLock EXCEPT ![At(s)] = s]
  <2>1. /\ seeder'[s].step = "manifest" /\ seeder'[s].writes = seeder[s].writes
        /\ seeder'[s].at = seeder[s].at /\ seeder'[s].item = seeder[s].item
        /\ seeder'[s].overlapped = seeder[s].overlapped
        /\ DOMAIN seeder'[s].seen = {}
    BY <1>5, RunsAreOfBundles DEF SeedRun
  <2>2. /\ rowLock'[At(s)] = s
        /\ \A c \in Seeded : rowLock[c] = Nobody \/ rowLock'[c] = rowLock[c]
        /\ \A c \in Seeded : rowLock[c] = s => rowLock'[c] = s
    BY <1>4, <1>5 DEF SeedTypes
  <2>3. At(s)' = At(s)
    BY <2>1 DEF At
  <2>4. \A w \in seeder'[s].writes : WriteIsGuarded(s, w)'
    BY <1>1, <1>4, <2>1, <2>2, WritesStayGuarded
  <2>5. SnapshotIsGuarded(s)'
    BY <1>4, <2>1, <2>2, <2>3, <2>4 DEF SnapshotIsGuarded
  <2>6. SnapshotIsCurrent(s)'
    BY <1>1, <1>4, <2>1, <2>3 DEF SnapshotIsCurrent
  <2>7. \A x \in Scripts \ {s} : RunIsSound(x)'
    BY <1>1, <1>2, <2>2, QuietStep
  <2>8. QED
    BY <1>1, <1>3, <2>5, <2>6, <2>7, RevisionsUntouched, AllRunsSound
    DEF SeedInvariant, RunIsSound
<1>6. CASE seeder'[s] = Idle /\ Release(s)
  <2>1. \A c \in Seeded : rowLock[c] = s \/ rowLock'[c] = rowLock[c]
    BY <1>6 DEF Release
  <2>2. \A x \in Scripts \ {s} : RunIsSound(x)'
    BY <1>1, <1>2, <2>1, QuietStep
  <2>3. QED
    BY <1>1, <1>3, <1>6, <2>2, IdleIsSound, RevisionsUntouched, AllRunsSound
    DEF SeedInvariant
<1>7. QED
  BY <1>5, <1>6, FlushRun

LEMMA ReadFileIsSound ==
  ASSUME SeedTypes, SeedInvariant, NEW s \in Scripts, NEW f \in Files,
         ReadFile(s, f)
  PROVE  SeedTypes' /\ SeedInvariant'
<1>1. UNCHANGED <<bundle, artifacts, temp, rowLock, torn, revisions, catalogue>>
  BY DEF ReadFile, bundleVars, diskVars, tableVars
<1>2. OnlyRun(s)
      /\ seeder'[s] = [seeder[s] EXCEPT
                         !.seen = With(seeder[s].seen, f, bundle[At(s)][f])]
  BY ReadFileRun
<1>3. SeedTypes'
  BY <1>1, <1>2 DEF SeedTypes, OnlyRun
<1>4. SnapshotIsGuarded(s) /\ SnapshotIsCurrent(s)
      /\ seeder[s].step = "manifest" /\ At(s) \in Seeded
  BY RunsAreOfBundles DEF SeedInvariant, ReadFile, InStep
<1>5. /\ seeder'[s].step = "manifest" /\ seeder'[s].writes = seeder[s].writes
      /\ seeder'[s].at = seeder[s].at /\ seeder'[s].item = seeder[s].item
      /\ seeder'[s].overlapped = seeder[s].overlapped
      /\ seeder'[s].seen = With(seeder[s].seen, f, bundle[At(s)][f])
  BY <1>2, <1>4, RunsAreOfBundles DEF SeedRun
<1>6. At(s)' = At(s)
  BY <1>5 DEF At
<1>7. SnapshotIsGuarded(s)'
  BY <1>1, <1>4, <1>5, <1>6, WritesStayGuarded DEF SnapshotIsGuarded
<1>8. ~seeder[s].overlapped =>
        \A g \in DOMAIN seeder'[s].seen : seeder'[s].seen[g] = seeder[s].item[g]
  BY <1>4, <1>5 DEF SnapshotIsCurrent, With
<1>9. SnapshotIsCurrent(s)'
  BY <1>1, <1>4, <1>5, <1>6, <1>8 DEF SnapshotIsCurrent
<1>10. QED
  BY <1>1, <1>2, <1>3, <1>7, <1>9, QuietStep, RevisionsUntouched, AllRunsSound
  DEF SeedInvariant, RunIsSound

\* A step of a run in the directory of its own snapshot leaves the others alone.
LEMMA OwnDirectoryStep ==
  ASSUME SeedTypes, SeedInvariant, NEW s \in Scripts, OnlyRun(s),
         UNCHANGED <<bundle, rowLock>>, rowLock[At(s)] = s,
         \A d \in DOMAIN artifacts : d \in DOMAIN artifacts',
         \A d \in DOMAIN artifacts' : d # Digest(s) => d \in DOMAIN artifacts,
         \A d \in DOMAIN temp' : d # Digest(s) =>
           d \in DOMAIN temp /\ temp'[d] = temp[d],
         NEW x \in Scripts \ {s}
  PROVE  RunIsSound(x)'
<1>1. RunIsSound(x)
  BY DEF SeedInvariant, RunIsSound
<1>2. seeder[x].step = "copy" => Digest(x) # Digest(s)
  BY <1>1, DigestsDiffer DEF RunIsSound, SnapshotIsGuarded
<1>3. RunUndisturbed(x)
  BY <1>2 DEF RunUndisturbed, OnlyRun
<1>4. QED
  BY <1>1, <1>3, UndisturbedIsSound

LEMMA PrepareSnapshotIsSound ==
  ASSUME SeedTypes, SeedInvariant, NEW s \in Scripts, PrepareSnapshot(s)
  PROVE  SeedTypes' /\ SeedInvariant'
<1>1. UNCHANGED <<bundle, artifacts, rowLock, torn, revisions, catalogue>>
  BY DEF PrepareSnapshot, bundleVars, tableVars
<1>2. SeedTypes' /\ OnlyRun(s)
  BY PrepareSnapshotTypes
<1>3. /\ SnapshotIsGuarded(s) /\ SnapshotIsCurrent(s)
      /\ seeder[s].step = "manifest" /\ At(s) \in Seeded
      /\ DOMAIN seeder[s].seen = Files
      /\ rowLock[At(s)] = s /\ seeder[s].item \in Content
  BY RunsAreOfBundles
  DEF SeedInvariant, PrepareSnapshot, InStep, SnapshotIsGuarded
<1>4. PICK p \in {"copy", "ensure"} :
        /\ seeder' = [seeder EXCEPT ![s].step = p]
        /\ p = "ensure" => Digest(s) \in DOMAIN artifacts /\ temp' = temp
        /\ p = "copy" => /\ Digest(s) \notin DOMAIN artifacts
                         /\ temp' = With(temp, Digest(s), << >>)
  BY DEF PrepareSnapshot
<1>5. /\ seeder'[s].step = p /\ seeder'[s].writes = seeder[s].writes
      /\ seeder'[s].at = seeder[s].at /\ seeder'[s].item = seeder[s].item
      /\ seeder'[s].overlapped = seeder[s].overlapped
      /\ seeder'[s].seen = seeder[s].seen
  BY <1>4, RunsAreOfBundles DEF SeedRun, SeedTypes
<1>6. At(s)' = At(s) /\ Digest(s)' = Digest(s)
  BY <1>5 DEF At, Digest
<1>7. SnapshotIsGuarded(s)'
  BY <1>1, <1>3, <1>4, <1>5, <1>6, WritesStayGuarded DEF SnapshotIsGuarded
<1>8. /\ p = "copy" => Digest(s) \in DOMAIN temp' /\ DOMAIN temp'[Digest(s)] = {}
      /\ \A d \in DOMAIN temp' : d # Digest(s) =>
           d \in DOMAIN temp /\ temp'[d] = temp[d]
  BY <1>4 DEF With
<1>9. SnapshotIsCurrent(s)'
  BY <1>1, <1>3, <1>4, <1>5, <1>6, <1>8 DEF SnapshotIsCurrent
<1>10. \A x \in Scripts \ {s} : RunIsSound(x)'
  BY <1>1, <1>2, <1>3, <1>8, OwnDirectoryStep
<1>11. QED
  BY <1>1, <1>2, <1>7, <1>9, <1>10, RevisionsUntouched, AllRunsSound
  DEF SeedInvariant, RunIsSound

LEMMA CopyFileIsSound ==
  ASSUME SeedTypes, SeedInvariant, NEW s \in Scripts, NEW f \in Files,
         CopyFile(s, f)
  PROVE  SeedTypes' /\ SeedInvariant'
<1>1. UNCHANGED <<bundle, artifacts, rowLock, torn, revisions, catalogue, seeder>>
  BY DEF CopyFile, bundleVars, tableVars
<1>2. SeedTypes' /\ OnlyRun(s)
  BY <1>1, CopyFileTypes DEF OnlyRun, SeedTypes
<1>3. /\ SnapshotIsGuarded(s) /\ SnapshotIsCurrent(s)
      /\ seeder[s].step = "copy" /\ rowLock[At(s)] = s
      /\ Digest(s) \in DOMAIN temp
  BY DEF SeedInvariant, CopyFile, InStep, SnapshotIsGuarded
<1> DEFINE d == Digest(s)
<1>4. temp' = [temp EXCEPT ![d] = With(temp[d], f, bundle[At(s)][f])]
  BY CopyFileTypes
<1>5. At(s)' = At(s) /\ Digest(s)' = d
  BY <1>1 DEF At, Digest
<1>6. /\ \A x \in DOMAIN temp' : x # d => x \in DOMAIN temp /\ temp'[x] = temp[x]
      /\ temp'[d] = With(temp[d], f, bundle[At(s)][f])
  BY <1>3, <1>4
<1>7. SnapshotIsGuarded(s)'
  BY <1>1, <1>3, <1>5, WritesStayGuarded DEF SnapshotIsGuarded
<1>8. ~seeder[s].overlapped =>
        /\ bundle[At(s)] = seeder[s].item
        /\ \A g \in DOMAIN temp[d] : temp[d][g] = seeder[s].item[g]
  BY <1>3 DEF SnapshotIsCurrent
<1> HIDE DEF d
<1>9. ~seeder[s].overlapped =>
        \A g \in DOMAIN temp'[d] : temp'[d][g] = seeder[s].item[g]
  BY <1>6, <1>8 DEF With
<1>10. SnapshotIsCurrent(s)'
  BY <1>1, <1>3, <1>5, <1>9 DEF SnapshotIsCurrent
<1>11. \A x \in Scripts \ {s} : RunIsSound(x)'
  BY <1>1, <1>2, <1>3, <1>6, OwnDirectoryStep DEF d
<1>12. QED
  BY <1>1, <1>2, <1>7, <1>10, <1>11, RevisionsUntouched, AllRunsSound
  DEF SeedInvariant, RunIsSound

\* Contents that agree file by file are the same.
LEMMA SameContent ==
  ASSUME NEW p \in Content, NEW q \in Content, \A f \in Files : p[f] = q[f]
  PROVE  p = q
BY DEF Content

LEMMA PublishIsSound ==
  ASSUME SeedTypes, SeedInvariant, NEW s \in Scripts, Publish(s)
  PROVE  SeedTypes' /\ SeedInvariant'
<1> DEFINE d == Digest(s)
<1>1. UNCHANGED <<bundle, rowLock, revisions, catalogue>>
  BY DEF Publish, bundleVars, tableVars
<1>2. /\ SeedTypes' /\ OnlyRun(s)
      /\ seeder'[s] = [seeder[s] EXCEPT !.step = "ensure"]
      /\ DOMAIN temp' = DOMAIN temp \ {d}
      /\ \A x \in DOMAIN temp' : temp'[x] = temp[x]
  BY PublishTypes
<1>3. /\ SnapshotIsGuarded(s) /\ SnapshotIsCurrent(s)
      /\ seeder[s].step = "copy" /\ rowLock[At(s)] = s
      /\ seeder[s].item \in Content /\ DOMAIN seeder[s].seen = Files
      /\ d \notin DOMAIN artifacts
  BY DEF SeedInvariant, Publish, InStep, SnapshotIsGuarded
<1>4. /\ d \in DOMAIN temp /\ DOMAIN temp[d] = Files
      /\ artifacts' = With(artifacts, d, temp[d])
      /\ torn' = IF seeder[s].overlapped THEN torn \cup {d} ELSE torn
  BY DEF Publish
<1>5. /\ DOMAIN artifacts' = DOMAIN artifacts \cup {d}
      /\ artifacts'[d] = temp[d]
      /\ \A x \in DOMAIN artifacts : artifacts'[x] = artifacts[x]
  BY <1>3, <1>4 DEF With
<1>6. /\ seeder'[s].step = "ensure" /\ seeder'[s].writes = seeder[s].writes
      /\ seeder'[s].at = seeder[s].at /\ seeder'[s].item = seeder[s].item
      /\ seeder'[s].overlapped = seeder[s].overlapped
      /\ seeder'[s].seen = seeder[s].seen
  BY <1>2, RunsAreOfBundles DEF SeedRun
<1>7. At(s)' = At(s) /\ Digest(s)' = d
  BY <1>6 DEF At, Digest
<1>8. SnapshotIsGuarded(s)'
  BY <1>1, <1>3, <1>5, <1>6, <1>7, WritesStayGuarded DEF SnapshotIsGuarded
<1>9. SnapshotIsCurrent(s)'
  BY <1>3, <1>6 DEF SnapshotIsCurrent
<1>10. \A x \in Scripts \ {s} : RunIsSound(x)'
  BY <1>1, <1>2, <1>3, <1>5, OwnDirectoryStep
<1>11. temp[d] \in Content /\ seeder[s].seen \in Content
       /\ d.files = seeder[s].seen
  BY <1>3, <1>4, WholeIsContent, RunsAreOfBundles DEF SeedTypes
<1>12. ~seeder[s].overlapped => temp[d] = d.files
  <2> SUFFICES ASSUME ~seeder[s].overlapped PROVE temp[d] = d.files
    OBVIOUS
  <2>1. \A f \in Files : temp[d][f] = seeder[s].seen[f]
    BY <1>3, <1>4 DEF SnapshotIsCurrent
  <2>2. QED
    BY <1>11, <2>1, SameContent
<1>13. RevisionsAreKept'
  <2>1. \A x \in DOMAIN artifacts' \ torn' : artifacts'[x] = x.files
    BY <1>4, <1>5, <1>12 DEF SeedInvariant, RevisionsAreKept
  <2>2. QED
    BY <1>1, <1>5, <2>1 DEF SeedInvariant, RevisionsAreKept, Present
<1>14. QED
  BY <1>2, <1>8, <1>9, <1>10, <1>13, AllRunsSound DEF RunIsSound

LEMMA EnsureIsSound ==
  ASSUME SeedTypes, SeedInvariant, NEW s \in Scripts, Ensure(s)
  PROVE  SeedTypes' /\ SeedInvariant'
<1>1. UNCHANGED <<bundle, artifacts, temp, rowLock, torn, revisions, catalogue>>
  BY DEF Ensure, bundleVars, diskVars, tableVars
<1>2. /\ SnapshotIsGuarded(s) /\ SnapshotIsCurrent(s)
      /\ seeder[s].step = "ensure" /\ rowLock[At(s)] = s
      /\ seeder[s].item \in Content /\ DOMAIN seeder[s].seen = Files
      /\ Digest(s) \in DOMAIN artifacts
  BY DEF SeedInvariant, Ensure, InStep, SnapshotIsGuarded
<1>3. /\ OnlyRun(s) /\ seeder'[s].step \in {"load", "commit"}
      /\ seeder'[s].writes = seeder[s].writes \cup {WriteOf(s)}
  BY <1>2, EnsureRun
<1>4. SeedTypes'
  BY <1>1, <1>3 DEF SeedTypes, OnlyRun
<1>5. ~seeder[s].overlapped => seeder[s].item = seeder[s].seen
  <2> SUFFICES ASSUME ~seeder[s].overlapped
               PROVE  seeder[s].item = seeder[s].seen
    OBVIOUS
  <2>1. \A f \in Files : seeder[s].item[f] = seeder[s].seen[f]
    BY <1>2 DEF SnapshotIsCurrent
  <2>2. seeder[s].seen \in Content
    BY <1>2, RunsAreOfBundles
  <2>3. QED
    BY <1>2, <2>1, <2>2, SameContent
<1>6. ASSUME NEW w \in seeder'[s].writes
      PROVE  WriteIsGuarded(s, w)'
  <2>1. CASE w \in seeder[s].writes
    BY <1>1, <1>2, <2>1 DEF SnapshotIsGuarded, WriteIsGuarded
  <2>2. CASE w = WriteOf(s)
    BY <1>1, <1>2, <1>5, <2>2, RunsAreOfBundles DEF WriteIsGuarded, WriteOf
  <2>3. QED
    BY <1>3, <2>1, <2>2
<1>7. RunIsSound(s)'
  BY <1>3, <1>6 DEF RunIsSound, SnapshotIsGuarded, SnapshotIsCurrent
<1>8. QED
  BY <1>1, <1>3, <1>4, <1>7, QuietStep, RevisionsUntouched, AllRunsSound
  DEF SeedInvariant

LEMMA CrashSeedIsSound ==
  ASSUME SeedTypes, SeedInvariant, NEW s \in Scripts, CrashSeed(s)
  PROVE  SeedTypes' /\ SeedInvariant'
<1>1. UNCHANGED <<bundle, artifacts, temp, torn, revisions, catalogue>>
  BY DEF CrashSeed, bundleVars, diskVars, tableVars
<1>2. /\ OnlyRun(s) /\ seeder'[s] = Idle
      /\ rowLock' \in [Seeded -> Scripts \cup {Nobody}]
      /\ \A c \in Seeded : rowLock[c] # s => rowLock'[c] = rowLock[c]
  BY RunEnds DEF CrashSeed
<1>3. SeedTypes'
  BY <1>1, <1>2 DEF SeedTypes, OnlyRun
<1>4. \A x \in Scripts \ {s} : RunIsSound(x)'
  BY <1>1, <1>2, QuietStep
<1>5. QED
  BY <1>1, <1>2, <1>3, <1>4, IdleIsSound, RevisionsUntouched, AllRunsSound
  DEF SeedInvariant

\* A digest gets a new number only where it has none.
LEMMA NumberedIsUnique ==
  ASSUME SeedTypes, RevisionsAreKept, NEW c \in Seeded, NEW d \in Digests,
         revisions'[c] = Numbered(c, d)
  PROVE  /\ IsFiniteSet(Range(revisions'[c]))
         /\ Cardinality(Range(revisions'[c])) = Len(revisions'[c])
<1>1. /\ IsFiniteSet(Range(revisions[c]))
      /\ Cardinality(Range(revisions[c])) = Len(revisions[c])
  BY DEF RevisionsAreKept
<1>2. /\ Range(revisions'[c]) = Range(revisions[c]) \cup {d}
      /\ Len(revisions'[c]) = IF d \in Range(revisions[c])
           THEN Len(revisions[c]) ELSE Len(revisions[c]) + 1
  BY NumberedIsRevisions
<1>3. CASE d \in Range(revisions[c])
  <2>1. Range(revisions'[c]) = Range(revisions[c])
    BY <1>2, <1>3
  <2>2. QED
    BY <1>1, <1>2, <1>3, <2>1
<1>4. CASE d \notin Range(revisions[c])
  <2>1. /\ IsFiniteSet(Range(revisions[c]) \cup {d})
        /\ Cardinality(Range(revisions[c]) \cup {d}) =
             Cardinality(Range(revisions[c])) + 1
    BY <1>1, <1>4, FS_AddElement
  <2>2. QED
    BY <1>1, <1>2, <1>4, <2>1
<1>5. QED
  BY <1>3, <1>4

LEMMA CommitKeepsRevisions ==
  ASSUME SeedTypes, SeedInvariant, NEW s \in Scripts,
         CommitSeed(s, acceptedCount), NEW c \in Seeded
  PROVE  /\ Range(revisions[c]) \subseteq Range(revisions'[c])
         /\ Range(revisions'[c]) \subseteq DOMAIN artifacts
         /\ IsFiniteSet(Range(revisions'[c]))
         /\ Cardinality(Range(revisions'[c])) = Len(revisions'[c])
         /\ Present(c)' =>
              /\ catalogue'[c].digest \in Range(revisions'[c])
              /\ \/ catalogue'[c].overlapped
                 \/ catalogue'[c].shown = catalogue'[c].digest.files
<1>1. CASE catalogue'[c] = catalogue[c] /\ revisions'[c] = revisions[c]
  BY <1>1 DEF SeedInvariant, RevisionsAreKept, Present
<1>2. ASSUME NEW w \in seeder[s].writes, w.challenge = c,
             catalogue'[c] = [shown |-> w.shown, digest |-> w.digest,
                              overlapped |-> w.overlapped],
             revisions'[c] = Numbered(c, w.digest)
      PROVE  /\ Range(revisions[c]) \subseteq Range(revisions'[c])
             /\ Range(revisions'[c]) \subseteq DOMAIN artifacts
             /\ IsFiniteSet(Range(revisions'[c]))
             /\ Cardinality(Range(revisions'[c])) = Len(revisions'[c])
             /\ catalogue'[c].digest \in Range(revisions'[c])
             /\ \/ catalogue'[c].overlapped
                \/ catalogue'[c].shown = catalogue'[c].digest.files
  <2>1. w.digest \in Digests
    BY RunsAreOfBundles DEF SeedRun, SeedWrite
  <2>2. WriteIsGuarded(s, w)
    BY DEF SeedInvariant, SnapshotIsGuarded
  <2>3. Range(revisions'[c]) = Range(revisions[c]) \cup {w.digest}
    BY <1>2, <2>1, NumberedIsRevisions
  <2>4. Range(revisions[c]) \subseteq DOMAIN artifacts
    BY DEF SeedInvariant, RevisionsAreKept
  <2>5. /\ IsFiniteSet(Range(revisions'[c]))
        /\ Cardinality(Range(revisions'[c])) = Len(revisions'[c])
    BY <1>2, <2>1, NumberedIsUnique DEF SeedInvariant
  <2>6. QED
    BY <1>2, <2>2, <2>3, <2>4, <2>5 DEF WriteIsGuarded
<1>3. \/ catalogue'[c] = catalogue[c] /\ revisions'[c] = revisions[c]
      \/ \E w \in seeder[s].writes :
           /\ w.challenge = c
           /\ catalogue'[c] = [shown |-> w.shown, digest |-> w.digest,
                               overlapped |-> w.overlapped]
           /\ revisions'[c] = Numbered(c, w.digest)
  BY CommitWrites
<1>4. QED
  BY <1>1, <1>2, <1>3

LEMMA CommitSeedIsSound ==
  ASSUME SeedTypes, SeedInvariant, NEW s \in Scripts,
         CommitSeed(s, acceptedCount)
  PROVE  SeedTypes' /\ SeedInvariant'
<1>1. UNCHANGED <<bundle, artifacts, temp, torn>>
  BY DEF CommitSeed, bundleVars, diskVars
<1>2. /\ OnlyRun(s) /\ seeder'[s] = Idle
      /\ \A c \in Seeded : rowLock[c] # s => rowLock'[c] = rowLock[c]
  BY RunEnds DEF CommitSeed
<1>3. \A x \in Scripts \ {s} : RunIsSound(x)'
  BY <1>1, <1>2, QuietStep
<1>4. \A d \in DOMAIN artifacts' \ torn' : artifacts'[d] = d.files
  BY <1>1 DEF SeedInvariant, RevisionsAreKept
<1>5. RevisionsAreKept'
  BY <1>1, <1>4, CommitKeepsRevisions DEF RevisionsAreKept
<1>6. QED
  BY <1>2, <1>3, <1>5, CommitSeedTypes, IdleIsSound, AllRunsSound

\* An edit marks the runs that are reading the bundle.
LEMMA EditIsSound ==
  ASSUME SeedTypes, SeedInvariant, NEW c \in Seeded, NEW f \in Files,
         NEW v \in Versions, Edit(c, f, v)
  PROVE  SeedTypes' /\ SeedInvariant'
<1>1. UNCHANGED <<artifacts, temp, rowLock, torn, revisions, catalogue>>
      /\ bundle' = [bundle EXCEPT ![c][f] = v]
  BY DEF Edit, diskVars, tableVars
<1>2. bundle' \in [Seeded -> Content]
  <2>1. [bundle[c] EXCEPT ![f] = v] \in Content
    BY DEF SeedTypes, Content
  <2>2. bundle' = [bundle EXCEPT ![c] = [bundle[c] EXCEPT ![f] = v]]
    BY <1>1 DEF SeedTypes
  <2>3. QED
    BY <2>1, <2>2 DEF SeedTypes
<1>3. ASSUME NEW s \in Scripts
      PROVE  /\ seeder'[s] \in SeedRun
             /\ seeder'[s].step = seeder[s].step /\ seeder'[s].at = seeder[s].at
             /\ seeder'[s].item = seeder[s].item /\ seeder'[s].seen = seeder[s].seen
             /\ seeder'[s].writes = seeder[s].writes
             /\ \/ seeder'[s].overlapped
                \/ /\ seeder'[s].overlapped = seeder[s].overlapped
                   /\ seeder[s].step \in {"flush", "manifest", "copy"} => At(s) # c
  <2>1. seeder[s] \in SeedRun
    BY RunsAreOfBundles
  <2>2. CASE seeder[s].step \in {"flush", "manifest", "copy"} /\ At(s) = c
    <3>1. seeder'[s] = [seeder[s] EXCEPT !.overlapped = TRUE]
      BY <2>2 DEF Edit
    <3>2. QED
      BY <2>1, <3>1 DEF SeedRun
  <2>3. CASE ~(seeder[s].step \in {"flush", "manifest", "copy"} /\ At(s) = c)
    <3>1. seeder'[s] = seeder[s]
      BY <2>3 DEF Edit
    <3>2. QED
      BY <2>1, <2>3, <3>1
  <2>4. QED
    BY <2>2, <2>3
<1>4. SeedTypes'
  <2>1. seeder' = [s \in Scripts |-> seeder'[s]]
    BY DEF Edit
  <2>2. seeder' \in [Scripts -> SeedRun]
    BY <1>3, <2>1
  <2>3. QED
    BY <1>1, <1>2, <2>2 DEF SeedTypes
<1>5. ASSUME NEW s \in Scripts PROVE SnapshotIsGuarded(s)' /\ SnapshotIsCurrent(s)'
  <2>1. SnapshotIsGuarded(s) /\ SnapshotIsCurrent(s) /\ At(s) \in Seeded
    BY RunsAreOfBundles DEF SeedInvariant
  <2>2. At(s)' = At(s) /\ Digest(s)' = Digest(s)
    BY <1>3 DEF At, Digest
  <2>3. \A w \in seeder'[s].writes : WriteIsGuarded(s, w)'
    BY <1>1, <1>3, <2>1 DEF SnapshotIsGuarded, WriteIsGuarded
  <2>4. SnapshotIsGuarded(s)'
    BY <1>1, <1>3, <2>1, <2>2, <2>3 DEF SnapshotIsGuarded
  <2>5. At(s) # c => bundle'[At(s)] = bundle[At(s)]
    BY <1>1, <2>1 DEF SeedTypes
  <2>6. SnapshotIsCurrent(s)'
    BY <1>1, <1>3, <2>1, <2>2, <2>5 DEF SnapshotIsCurrent
  <2>7. QED
    BY <2>4, <2>6
<1>6. QED
  BY <1>1, <1>4, <1>5, RevisionsUntouched DEF SeedInvariant

LEMMA SeedInitially ==
  ASSUME SeedInit
  PROVE  SeedTypes /\ SeedInvariant
<1>1. [f \in Files |-> 0] \in Content
  BY VersionsAssumption DEF Content
<1>2. /\ \A s \in Scripts : seeder[s] = Idle
      /\ DOMAIN artifacts = {} /\ DOMAIN temp = {}
      /\ \A c \in Seeded : revisions[c] = << >> /\ ~Present(c)
  BY DEF SeedInit, Present
<1>3. SeedTypes
  BY <1>1, <1>2, IdleIsRun DEF SeedInit, SeedTypes
<1>4. \A c \in Seeded : Range(revisions[c]) = {} /\ Len(revisions[c]) = 0
  BY <1>2 DEF Range
<1>5. RevisionsAreKept
  BY <1>2, <1>4, FS_EmptySet DEF RevisionsAreKept
<1>6. \A s \in Scripts : SnapshotIsGuarded(s) /\ SnapshotIsCurrent(s)
  BY <1>2 DEF SnapshotIsGuarded, SnapshotIsCurrent, Idle
<1>7. QED
  BY <1>3, <1>5, <1>6 DEF SeedInvariant

LEMMA SeedUntouched ==
  ASSUME SeedTypes, SeedInvariant,
         UNCHANGED <<bundle, artifacts, temp, catalogue, revisions, rowLock,
                     seeder, torn>>
  PROVE  SeedTypes' /\ SeedInvariant'
<1>1. SeedTypes'
  BY DEF SeedTypes
<1>2. ASSUME NEW s \in Scripts PROVE RunIsSound(s)'
  <2>1. RunUndisturbed(s)
    BY DEF RunUndisturbed
  <2>2. QED
    BY <2>1, UndisturbedIsSound DEF SeedInvariant, RunIsSound
<1>3. QED
  BY <1>1, <1>2, RevisionsUntouched DEF SeedInvariant, RunIsSound

LEMMA SeedVarsUntouched ==
  ASSUME SeedTypes, SeedInvariant, UNCHANGED seedVars
  PROVE  SeedTypes' /\ SeedInvariant'
BY SeedUntouched DEF seedVars, bundleVars, diskVars, tableVars

LEMMA SeedStepIsSound ==
  ASSUME SeedTypes, SeedInvariant, StoreTypeOK, NEW s \in Scripts,
         SeedStep(s) \/ SeedCommits(s)
  PROVE  SeedTypes' /\ SeedInvariant'
<1>1. CASE SeedCommits(s)
  BY <1>1, CommitSeedIsSound DEF SeedCommits
<1>2. CASE SeedStep(s)
  BY <1>2, StartSeedIsSound, LoadChallengeIsSound, FlushIsSound,
     ReadFileIsSound, PrepareSnapshotIsSound, CopyFileIsSound, PublishIsSound,
     EnsureIsSound, CrashSeedIsSound DEF SeedStep
<1>3. QED
  BY <1>1, <1>2

\* Whatever runs, the seeding runs and what they have published stay sound.
LEMMA StepKeepsSeeding ==
  ASSUME SeedTypes, SeedInvariant, StoreTypeOK,
         [MaintenanceNext]_maintenanceVars
  PROVE  SeedTypes' /\ SeedInvariant'
<1>1. ASSUME NEW a \in Attempts, OpenHere(a) PROVE UNCHANGED seedVars
  BY <1>1 DEF OpenHere
<1>2. ASSUME NEW c \in EvaluationCommand, Transact(c) PROVE UNCHANGED seedVars
  BY <1>2 DEF Transact
<1>3. ASSUME NEW s \in Scripts, SeedStep(s) \/ SeedCommits(s)
      PROVE  SeedTypes' /\ SeedInvariant'
  BY <1>3, SeedStepIsSound
<1>4. ASSUME NEW r \in Rebuilders, RebuildStarts(r)
      PROVE  SeedTypes' /\ SeedInvariant'
  BY <1>4, SeedUntouched DEF RebuildStarts, bundleVars, diskVars, tableVars
<1>5. ASSUME NEW r \in Rebuilders, RebuildStep(r) \/ RebuildCommits(r)
      PROVE  UNCHANGED seedVars
  BY <1>5 DEF RebuildStep, RebuildCommits
<1>6. ASSUME AuthorEdits PROVE SeedTypes' /\ SeedInvariant'
  BY <1>6, EditIsSound DEF AuthorEdits
<1>7. CASE UNCHANGED maintenanceVars
  BY <1>7, SeedVarsUntouched DEF maintenanceVars
<1>8. QED
  BY <1>1, <1>2, <1>3, <1>4, <1>5, <1>6, <1>7, SeedVarsUntouched
  DEF MaintenanceNext

-----------------------------------------------------------------------------
(* Merging.                                                                 *)

\* Column by column, the loaded row and the reducer's are told apart.
LEMMA MergedColumns ==
  ASSUME NEW p \in AttemptProjection, NEW q \in AttemptProjection,
         NEW m \in AttemptProjection
  PROVE  Merged(p, q, m) =
           [phase |-> IF m.phase # q.phase THEN m.phase ELSE p.phase,
            verdict |-> IF m.verdict # q.verdict THEN m.verdict ELSE p.verdict,
            retryIndex |-> IF m.retryIndex # q.retryIndex
                           THEN m.retryIndex ELSE p.retryIndex,
            lastSequence |-> IF m.lastSequence # q.lastSequence
                             THEN m.lastSequence ELSE p.lastSequence,
            finished |-> IF m.finished # q.finished
                         THEN m.finished ELSE p.finished]
<1>1. DOMAIN p = {"phase", "verdict", "retryIndex", "lastSequence", "finished"}
  BY DEF AttemptProjection
<1>2. QED
  BY <1>1 DEF Merged

LEMMA ProjectionColumns ==
  ASSUME NEW m \in AttemptProjection
  PROVE  m = [phase |-> m.phase, verdict |-> m.verdict,
              retryIndex |-> m.retryIndex, lastSequence |-> m.lastSequence,
              finished |-> m.finished]
BY DEF AttemptProjection

\* A merge is a projection; against the current row it writes the reducer's,
\* and where there is nothing to correct it writes nothing.
LEMMA MergedProjection ==
  ASSUME NEW p \in AttemptProjection, NEW q \in AttemptProjection,
         NEW m \in AttemptProjection
  PROVE  /\ Merged(p, q, m) \in AttemptProjection
         /\ Merged(p, p, m) = m
         /\ Merged(p, m, m) = p
<1>1. Merged(p, q, m) \in AttemptProjection
  <2>1. PICK a \in {p.phase, m.phase}, b \in {p.verdict, m.verdict},
             c \in {p.retryIndex, m.retryIndex},
             d \in {p.lastSequence, m.lastSequence},
             e \in {p.finished, m.finished} :
          Merged(p, q, m) = [phase |-> a, verdict |-> b, retryIndex |-> c,
                             lastSequence |-> d, finished |-> e]
    BY MergedColumns
  <2>2. QED
    BY <2>1 DEF AttemptProjection
<1>2. Merged(p, p, m) =
        [phase |-> m.phase, verdict |-> m.verdict, retryIndex |-> m.retryIndex,
         lastSequence |-> m.lastSequence, finished |-> m.finished]
  BY MergedColumns
<1>3. Merged(p, m, m) =
        [phase |-> p.phase, verdict |-> p.verdict, retryIndex |-> p.retryIndex,
         lastSequence |-> p.lastSequence, finished |-> p.finished]
  BY MergedColumns
<1>4. QED
  BY <1>1, <1>2, <1>3, ProjectionColumns

\* What the reducer makes of a log is a projection.
LEMMA ReplayType ==
  ASSUME NEW s \in Seq(LifecycleEvent)
  PROVE  Replay(s) \in AttemptProjection
<1> DEFINE T == {n \in Nat : \A t \in Seq(LifecycleEvent) :
                   Len(t) = n => Replay(t) \in AttemptProjection}
<1>1. 0 \in T
  <2>1. NewProjection \in AttemptProjection
    BY DEF NewProjection, AttemptProjection, Phases
  <2>2. \A t \in Seq(LifecycleEvent) : Len(t) = 0 => t = << >>
    OBVIOUS
  <2>3. QED
    BY <2>1, <2>2, ReplayOfNothing
<1>2. ASSUME NEW n \in T PROVE n + 1 \in T
  <2> SUFFICES ASSUME NEW t \in Seq(LifecycleEvent), Len(t) = n + 1
               PROVE  Replay(t) \in AttemptProjection
    OBVIOUS
  <2> DEFINE front == [i \in 1 .. n |-> t[i]]
             e     == t[n + 1]
  <2>1. n \in Nat /\ DOMAIN t = 1 .. n + 1 /\ e \in LifecycleEvent
    BY <1>2
  <2>2. front \in Seq(LifecycleEvent) /\ Len(front) = n
    <3>1. \A i \in 1 .. n : t[i] \in LifecycleEvent
      BY <2>1
    <3>2. QED
      BY <2>1, <3>1
  <2>3. t = Append(front, e)
    <3>1. /\ Append(front, e) \in Seq(LifecycleEvent)
          /\ Len(Append(front, e)) = n + 1
      BY <2>1, <2>2
    <3>2. \A i \in 1 .. n + 1 : Append(front, e)[i] = t[i]
      BY <2>1, <2>2
    <3>3. QED
      BY <2>1, <3>1, <3>2
  <2> HIDE DEF front, e
  <2>4. Replay(front) \in AttemptProjection
    BY <1>2, <2>2
  <2>5. QED
    BY <2>1, <2>2, <2>3, <2>4, ReplayAppend, EvolveType
<1> HIDE DEF T
<1>3. T = Nat
  <2>1. T \in SUBSET Nat
    BY DEF T
  <2>2. QED
    BY <1>1, <1>2, <2>1, SetInduction
<1>4. QED
  BY <1>3 DEF T

-----------------------------------------------------------------------------
(* What a step does to the store.                                           *)

\* A transaction changes the row and the log of its own attempt, if at all.
LEMMA TransactionIsLocal ==
  ASSUME StoreTypeOK, KnownIsOpen, NEW c \in EvaluationCommand, Transaction(c)
  PROVE  /\ row[c.attempt] # "ABSENT" /\ row'[c.attempt] # "ABSENT"
         /\ \A a \in Attempts \ {c.attempt} :
              row'[a] = row[a] /\ history'[a] = history[a]
<1>1. c.attempt \in Attempts /\ row[c.attempt] # "ABSENT"
  BY CommandIsOpen, CommandType DEF Transaction
<1>2. "INTERNAL_ERROR" \in TERMINAL_STATUSES
  BY DEF TERMINAL_STATUSES
<1>3. ASSUME NEW p \in TERMINAL_STATUSES, PersistResult(c.attempt, p)
      PROVE  /\ row'[c.attempt] # "ABSENT"
             /\ \A a \in Attempts \ {c.attempt} : row'[a] = row[a]
  BY <1>1, <1>3 DEF PersistResult, StoreTypeOK, TERMINAL_STATUSES
<1>4. ASSUME NEW b \in BOOLEAN, Claim(c, b)
      PROVE  /\ row'[c.attempt] # "ABSENT"
             /\ \A a \in Attempts \ {c.attempt} : row'[a] = row[a]
  BY <1>1, <1>4 DEF Claim, StoreTypeOK
<1>5. ASSUME ResetForRetry(c)
      PROVE  /\ row'[c.attempt] # "ABSENT"
             /\ \A a \in Attempts \ {c.attempt} : row'[a] = row[a]
  BY <1>1, <1>5 DEF ResetForRetry, StoreTypeOK
<1>6. \A a \in Attempts \ {c.attempt} : history'[a] = history[a]
  BY <1>1 DEF Transaction, Claim, StoreSuccess, StoreTerminalFailure,
              ResetForRetry, StoreTypeOK
<1>7. QED
  BY <1>1, <1>2, <1>3, <1>4, <1>5, <1>6
  DEF Transaction, StoreSuccess, StoreTerminalFailure

\* What a step of a client of the store leaves to the scripts.
ClientStep ==
  /\ StoreNext
  /\ UNCHANGED rebuildVars /\ UNCHANGED seedVars
  /\ \A a \in Attempts :
       /\ row[a] # "ABSENT" => row'[a] # "ABSENT"
       /\ row[a] # "ABSENT" /\ projectionLock[a] # Unlocked =>
            history'[a] = history[a]

LEMMA OpenHereIsClient ==
  ASSUME StoreTypeOK, NEW a \in Attempts, OpenHere(a)
  PROVE  ClientStep
<1>1. OpenAttempt(a)
  BY DEF OpenHere
<1>2. \A b \in Attempts : row[b] # "ABSENT" =>
        row'[b] = row[b] /\ history'[b] = history[b]
  BY <1>1 DEF OpenAttempt, StoreTypeOK
<1>3. QED
  BY <1>1, <1>2 DEF ClientStep, StoreNext, OpenHere

LEMMA TransactIsClient ==
  ASSUME StoreTypeOK, KnownIsOpen, NEW c \in EvaluationCommand, Transact(c)
  PROVE  ClientStep
<1>1. Transaction(c) /\ c.attempt \in Attempts
  BY CommandType DEF Transact
<1>2. projectionLock[c.attempt] # Unlocked => history' = history
  BY DEF Transact
<1>3. QED
  BY <1>1, <1>2, TransactionIsLocal DEF ClientStep, StoreNext, Transact

\* Every step is one of a client, a commit of one of the scripts, or leaves
\* the store as it is.
LEMMA StepOfStore ==
  ASSUME StoreTypeOK, KnownIsOpen, [MaintenanceNext]_maintenanceVars
  PROVE  \/ ClientStep
         \/ \E s \in Scripts : SeedCommits(s)
         \/ \E r \in Rebuilders : RebuildCommits(r)
         \/ UNCHANGED storeVars
BY OpenHereIsClient, TransactIsClient
DEF MaintenanceNext, SeedStep, RebuildStarts, RebuildStep, AuthorEdits,
    maintenanceVars

\* What a commit of the rebuild makes of a projection: nothing new, or what
\* the run has written of it.
LEMMA CommitRebuildWrites ==
  ASSUME NEW r \in Rebuilders, CommitRebuild(r), NEW a \in Attempts
  PROVE  \/ /\ history'[a] = history[a]
            /\ a \in raced' <=> a \in raced
         \/ \E w \in rebuilder[r].writes :
              /\ w.attempt = a
              /\ history'[a] = [history[a] EXCEPT !.projection = w.projection]
              /\ a \in raced' <=> IF w.effect # "keeps"
                                  THEN w.effect = "races" ELSE a \in raced
<1> DEFINE writes == {w \in rebuilder[r].writes : w.attempt = a}
           write  == CHOOSE w \in writes : TRUE
<1>1. CASE writes = {}
  BY <1>1 DEF CommitRebuild
<1>2. CASE writes # {}
  <2>1. write \in writes
    BY <1>2
  <2>2. /\ history'[a] = [history[a] EXCEPT !.projection = write.projection]
        /\ a \in raced' <=> IF write.effect # "keeps"
                            THEN write.effect = "races" ELSE a \in raced
    BY <1>2 DEF CommitRebuild
  <2> HIDE DEF write
  <2>3. QED
    BY <2>1, <2>2
<1>3. QED
  BY <1>1, <1>2

LEMMA CommitRebuildKeepsLogs ==
  ASSUME StoreTypeOK, RebuildTypes, NEW r \in Rebuilders, CommitRebuild(r)
  PROVE  /\ history' \in [Attempts -> History]
         /\ \A a \in Attempts : history'[a].events = history[a].events
<1>1. ASSUME NEW a \in Attempts
      PROVE  /\ history'[a] \in History
             /\ history'[a].events = history[a].events
  <2>1. history[a] \in History
    BY DEF StoreTypeOK
  <2>2. ASSUME NEW w \in rebuilder[r].writes,
               history'[a] = [history[a] EXCEPT !.projection = w.projection]
        PROVE  /\ history'[a] \in History
               /\ history'[a].events = history[a].events
    <3>1. w.projection \in AttemptProjection
      BY DEF RebuildTypes, RebuildRun, RebuildWrite
    <3>2. QED
      BY <2>1, <2>2, <3>1 DEF History
  <2>3. QED
    BY <2>1, <2>2, CommitRebuildWrites
<1>2. history' = [a \in Attempts |-> history'[a]]
  BY DEF CommitRebuild
<1>3. QED
  BY <1>1, <1>2

LEMMA StepKeepsStore ==
  ASSUME StoreTypeOK, KnownIsOpen, RebuildTypes,
         [MaintenanceNext]_maintenanceVars
  PROVE  /\ StoreTypeOK' /\ KnownIsOpen'
         /\ \A a \in Attempts : row[a] # "ABSENT" => row'[a] # "ABSENT"
<1>1. CASE ClientStep
  BY <1>1, StepTypeOK, StepKnownIsOpen DEF ClientStep
<1>2. ASSUME NEW s \in Scripts, SeedCommits(s)
      PROVE  /\ StoreTypeOK' /\ UNCHANGED <<row, history>>
  <2>1. acceptedCount' \in [Challenges -> Nat]
    BY <1>2 DEF SeedCommits, CommitSeed, StoreTypeOK
  <2>2. QED
    BY <1>2, <2>1 DEF SeedCommits, othersThanCount, StoreTypeOK
<1>3. ASSUME NEW r \in Rebuilders, RebuildCommits(r)
      PROVE  /\ StoreTypeOK' /\ UNCHANGED row
             /\ \A a \in Attempts : history'[a].events = history[a].events
  <2>1. CommitRebuild(r)
    BY <1>3 DEF RebuildCommits
  <2>2. QED
    BY <1>3, <2>1, CommitRebuildKeepsLogs DEF RebuildCommits, StoreTypeOK
<1>4. CASE UNCHANGED storeVars
  BY <1>4 DEF storeVars, StoreTypeOK, KnownIsOpen, Events
<1>5. QED
  BY <1>1, <1>2, <1>3, <1>4, StepOfStore DEF KnownIsOpen, Events

-----------------------------------------------------------------------------
(* Rebuilding.                                                              *)

OnlyRebuild(r) ==
  /\ rebuilder' \in [Rebuilders -> RebuildRun]
  /\ \A x \in Rebuilders \ {r} : rebuilder'[x] = rebuilder[x]

LEMMA RebuildGoesOn ==
  ASSUME RebuildTypes, NEW r \in Rebuilders, NEW run \in RebuildRun,
         rebuilder' = [rebuilder EXCEPT ![r] = run]
  PROVE  OnlyRebuild(r) /\ rebuilder'[r] = run
BY DEF RebuildTypes, OnlyRebuild

LEMMA AsleepIsRun == Asleep \in RebuildRun
<1>1. NewProjection \in AttemptProjection
  BY DEF NewProjection, AttemptProjection, Phases
<1>2. << >> \in Seq(LifecycleEvent)
  OBVIOUS
<1>3. QED
  BY <1>1, <1>2 DEF Asleep, RebuildRun

\* What a run works on is left alone.
RebuildUndisturbed(x) ==
  /\ rebuilder'[x] = rebuilder[x]
  /\ \A a \in Attempts :
       /\ row[a] # "ABSENT" => row'[a] # "ABSENT"
       /\ row[a] # "ABSENT" /\ projectionLock[a] = x =>
            projectionLock'[a] = x /\ history'[a] = history[a]

LEMMA UndisturbedRebuild ==
  ASSUME RebuildTypes, NEW x \in Rebuilders, RebuildUndisturbed(x),
         RebuildIsGuarded(x)
  PROVE  RebuildIsGuarded(x)'
<1>1. rebuilder[x] \in RebuildRun /\ rebuilder'[x] = rebuilder[x]
  BY DEF RebuildTypes, RebuildUndisturbed
<1>2. /\ rebuilder[x].todo \subseteq Attempts
      /\ \A w \in rebuilder[x].writes : w.attempt \in Attempts
  BY <1>1 DEF RebuildRun, RebuildWrite
<1>3. ASSUME NEW w \in rebuilder[x].writes
      PROVE  ProjectionWriteIsGuarded(x, w)'
  <2>1. ProjectionWriteIsGuarded(x, w) /\ w.attempt \in Attempts
    BY <1>2 DEF RebuildIsGuarded
  <2>2. /\ projectionLock'[w.attempt] = x /\ row'[w.attempt] # "ABSENT"
        /\ history'[w.attempt] = history[w.attempt]
    BY <2>1 DEF ProjectionWriteIsGuarded, RebuildUndisturbed
  <2>3. QED
    BY <2>1, <2>2 DEF ProjectionWriteIsGuarded, Events
<1>4. \A a \in rebuilder[x].todo : row'[a] # "ABSENT"
  BY <1>2 DEF RebuildUndisturbed, RebuildIsGuarded
<1>5. rebuilder[x].step \in {"load", "write"} =>
        /\ rebuilder[x].attempt \in Attempts
        /\ row'[rebuilder[x].attempt] # "ABSENT"
  BY DEF RebuildUndisturbed, RebuildIsGuarded
<1>6. QED
  BY <1>1, <1>3, <1>4, <1>5 DEF RebuildIsGuarded

LEMMA AsleepIsGuarded ==
  ASSUME NEW r \in Rebuilders, rebuilder'[r] = Asleep
  PROVE  RebuildIsGuarded(r)'
BY DEF RebuildIsGuarded, Asleep

\* A step of a run that leaves the store alone and takes free locks only.
LEMMA QuietRebuild ==
  ASSUME RebuildTypes, RebuildInvariant, NEW r \in Rebuilders, OnlyRebuild(r),
         UNCHANGED <<row, history>>,
         \A a \in Attempts :
           projectionLock[a] \in {Unlocked, r} \/ projectionLock'[a] = projectionLock[a],
         NEW x \in Rebuilders \ {r}
  PROVE  RebuildIsGuarded(x)'
<1>1. x # Unlocked /\ RebuildIsGuarded(x)
  BY RebuildersAssumption DEF RebuildInvariant
<1>2. RebuildUndisturbed(x)
  BY <1>1 DEF RebuildUndisturbed, OnlyRebuild
<1>3. QED
  BY <1>1, <1>2, UndisturbedRebuild

LEMMA SameLag ==
  ASSUME ProjectionLagsOnlyAfterOverlap, UNCHANGED <<history, raced>>
  PROVE  ProjectionLagsOnlyAfterOverlap'
BY DEF ProjectionLagsOnlyAfterOverlap, Events

LEMMA AllRebuildsGuarded ==
  ASSUME NEW r \in Rebuilders, RebuildIsGuarded(r)',
         \A x \in Rebuilders \ {r} : RebuildIsGuarded(x)',
         ProjectionLagsOnlyAfterOverlap'
  PROVE  RebuildInvariant'
BY DEF RebuildInvariant

LEMMA StartRebuildIsSound ==
  ASSUME RebuildTypes, RebuildInvariant, NEW r \in Rebuilders,
         StartRebuild(r), UNCHANGED <<row, history, judgedBy>>
  PROVE  RebuildTypes' /\ RebuildInvariant'
<1> DEFINE open == {a \in Attempts : row[a] # "ABSENT"}
           run  == [rebuilder[r] EXCEPT !.step = "next", !.todo = open]
<1>1. rebuilder[r] \in RebuildRun
  BY DEF RebuildTypes
<1>2. run \in RebuildRun
  BY <1>1 DEF RebuildRun
<1>3. rebuilder' = [rebuilder EXCEPT ![r] = run]
  BY <1>1 DEF StartRebuild, RebuildTypes, RebuildRun
<1>4. OnlyRebuild(r) /\ rebuilder'[r] = run
  BY <1>2, <1>3, RebuildGoesOn
<1>5. UNCHANGED <<projectionLock, raced>>
  BY DEF StartRebuild
<1>6. RebuildTypes'
  BY <1>4, <1>5 DEF RebuildTypes, OnlyRebuild
<1>7. /\ rebuilder'[r].step = "next" /\ rebuilder'[r].todo = open
      /\ rebuilder'[r].writes = rebuilder[r].writes
  BY <1>1, <1>4 DEF RebuildRun
<1>8. RebuildIsGuarded(r)'
  BY <1>5, <1>7 DEF RebuildInvariant, RebuildIsGuarded,
                    ProjectionWriteIsGuarded, Events
<1>9. QED
  BY <1>4, <1>5, <1>6, <1>8, QuietRebuild, SameLag, AllRebuildsGuarded
  DEF RebuildInvariant

LEMMA ReadEventsIsSound ==
  ASSUME StoreTypeOK, RebuildTypes, RebuildInvariant, NEW r \in Rebuilders,
         NEW a \in Attempts, ReadEvents(r, a), UNCHANGED <<row, history, judgedBy>>
  PROVE  RebuildTypes' /\ RebuildInvariant'
<1> DEFINE run == [rebuilder[r] EXCEPT !.step = "load", !.attempt = a,
                     !.todo = rebuilder[r].todo \ {a}, !.events = Events(a)]
<1>1. rebuilder[r] \in RebuildRun /\ a \in rebuilder[r].todo
  BY DEF RebuildTypes, ReadEvents
<1>2. Events(a) \in Seq(LifecycleEvent)
  BY DEF StoreTypeOK, History, Events
<1>3. run \in RebuildRun
  BY <1>1, <1>2 DEF RebuildRun
<1>4. rebuilder' = [rebuilder EXCEPT ![r] = run]
  BY <1>1 DEF ReadEvents, RebuildTypes, RebuildRun
<1>5. OnlyRebuild(r) /\ rebuilder'[r] = run
  BY <1>3, <1>4, RebuildGoesOn
<1>6. UNCHANGED <<projectionLock, raced>>
  BY DEF ReadEvents
<1>7. RebuildTypes'
  BY <1>5, <1>6 DEF RebuildTypes, OnlyRebuild
<1>8. /\ rebuilder'[r].step = "load" /\ rebuilder'[r].attempt = a
      /\ rebuilder'[r].todo \subseteq rebuilder[r].todo
      /\ rebuilder'[r].writes = rebuilder[r].writes
  BY <1>1, <1>5 DEF RebuildRun
<1>9. RebuildIsGuarded(r)'
  BY <1>1, <1>6, <1>8 DEF RebuildInvariant, RebuildIsGuarded,
                          ProjectionWriteIsGuarded, Events
<1>10. QED
  BY <1>5, <1>6, <1>7, <1>9, QuietRebuild, SameLag, AllRebuildsGuarded
  DEF RebuildInvariant

LEMMA LoadProjectionIsSound ==
  ASSUME StoreTypeOK, RebuildTypes, RebuildInvariant, NEW r \in Rebuilders,
         LoadProjection(r), UNCHANGED <<row, history, judgedBy>>
  PROVE  RebuildTypes' /\ RebuildInvariant'
<1> DEFINE p   == history[rebuilder[r].attempt].projection
           run == [rebuilder[r] EXCEPT !.step = "write", !.loaded = p]
<1>1. /\ rebuilder[r] \in RebuildRun /\ rebuilder[r].step = "load"
      /\ rebuilder[r].attempt \in Attempts /\ RebuildIsGuarded(r)
  BY DEF RebuildTypes, LoadProjection, RebuildInvariant, RebuildIsGuarded
<1>2. p \in AttemptProjection
  BY <1>1 DEF StoreTypeOK, History
<1>3. run \in RebuildRun
  BY <1>1, <1>2 DEF RebuildRun
<1>4. rebuilder' = [rebuilder EXCEPT ![r] = run]
  BY <1>1 DEF LoadProjection, RebuildTypes, RebuildRun
<1> HIDE DEF p
<1>5. OnlyRebuild(r) /\ rebuilder'[r] = run
  BY <1>3, <1>4, RebuildGoesOn
<1>6. UNCHANGED <<projectionLock, raced>>
  BY DEF LoadProjection
<1>7. RebuildTypes'
  BY <1>5, <1>6 DEF RebuildTypes, OnlyRebuild
<1>8. /\ rebuilder'[r].attempt = rebuilder[r].attempt
      /\ rebuilder'[r].todo = rebuilder[r].todo
      /\ rebuilder'[r].writes = rebuilder[r].writes
  BY <1>1, <1>5 DEF RebuildRun
<1>9. RebuildIsGuarded(r)'
  BY <1>1, <1>6, <1>8 DEF RebuildIsGuarded, ProjectionWriteIsGuarded, Events
<1>10. QED
  BY <1>5, <1>6, <1>7, <1>9, QuietRebuild, SameLag, AllRebuildsGuarded
  DEF RebuildInvariant

\* A write that restores is the replay of the log, and one that keeps is the
\* row as it is.
LEMMA WrittenIsSound ==
  ASSUME StoreTypeOK, RebuildTypes, NEW r \in Rebuilders,
         rebuilder[r].attempt \in Attempts
  PROVE  /\ Written(r) \in RebuildWrite
         /\ Written(r).attempt = rebuilder[r].attempt
         /\ Written(r).effect = "restores" =>
              Written(r).projection = Replay(Events(rebuilder[r].attempt))
         /\ Written(r).effect = "keeps" =>
              Written(r).projection = history[rebuilder[r].attempt].projection
<1> DEFINE a == rebuilder[r].attempt
           p == history[a].projection
           q == rebuilder[r].loaded
           m == Replay(rebuilder[r].events)
<1>1. rebuilder[r] \in RebuildRun
  BY DEF RebuildTypes
<1>2. p \in AttemptProjection /\ q \in AttemptProjection
      /\ m \in AttemptProjection
  BY <1>1, ReplayType DEF StoreTypeOK, History, RebuildRun
<1>3. Written(r) = [attempt |-> a, projection |-> Merged(p, q, m),
                    effect |-> Effect(r, m)]
  BY DEF Written
<1>4. /\ Effect(r, m) \in {"restores", "keeps", "races"}
      /\ Effect(r, m) = "restores" => q = p /\ rebuilder[r].events = Events(a)
      /\ Effect(r, m) = "keeps" => m = q
  BY DEF Effect, Events
<1>5. Merged(p, q, m) \in AttemptProjection
      /\ Merged(p, p, m) = m /\ Merged(p, m, m) = p
  BY <1>2, MergedProjection
<1>6. Written(r) \in RebuildWrite
  BY <1>3, <1>4, <1>5 DEF RebuildWrite
<1>7. Effect(r, m) = "restores" => Merged(p, q, m) = Replay(Events(a))
  BY <1>4, <1>5
<1>8. Effect(r, m) = "keeps" => Merged(p, q, m) = p
  BY <1>4, <1>5
<1>9. QED
  BY <1>3, <1>6, <1>7, <1>8

LEMMA WriteProjectionIsSound ==
  ASSUME StoreTypeOK, RebuildTypes, RebuildInvariant, NEW r \in Rebuilders,
         WriteProjection(r), UNCHANGED <<row, history, judgedBy>>
  PROVE  RebuildTypes' /\ RebuildInvariant'
<1> DEFINE a   == rebuilder[r].attempt
           ws  == rebuilder[r].writes \cup {Written(r)}
           run == [Asleep EXCEPT !.step = "next", !.todo = rebuilder[r].todo,
                                 !.writes = ws]
<1>1. /\ rebuilder[r] \in RebuildRun /\ a \in Attempts
      /\ row[a] # "ABSENT" /\ RebuildIsGuarded(r)
  BY DEF RebuildTypes, WriteProjection, RebuildInvariant, RebuildIsGuarded
<1>2. Written(r) \in RebuildWrite
  BY <1>1, WrittenIsSound
<1>3. ws \subseteq RebuildWrite
  BY <1>1, <1>2 DEF RebuildRun
<1>4. rebuilder' = [rebuilder EXCEPT ![r] = run]
  BY DEF WriteProjection
<1>5. /\ projectionLock[a] = Unlocked
      /\ projectionLock' = [projectionLock EXCEPT ![a] = r]
      /\ raced' = raced
  BY DEF WriteProjection
<1>6. /\ projectionLock'[a] = r
      /\ \A b \in Attempts : projectionLock[b] = Unlocked
                             \/ projectionLock'[b] = projectionLock[b]
      /\ projectionLock' \in [Attempts -> Rebuilders \cup {Unlocked}]
  BY <1>1, <1>5 DEF RebuildTypes
<1> HIDE DEF ws
<1>7. run \in RebuildRun
  BY <1>1, <1>3, AsleepIsRun DEF RebuildRun
<1>8. OnlyRebuild(r) /\ rebuilder'[r] = run
  BY <1>4, <1>7, RebuildGoesOn
<1>9. RebuildTypes'
  BY <1>6, <1>8 DEF RebuildTypes, OnlyRebuild
<1>10. /\ rebuilder'[r].step = "next" /\ rebuilder'[r].todo = rebuilder[r].todo
       /\ rebuilder'[r].writes = ws
  BY <1>8 DEF Asleep
<1>11. ASSUME NEW w \in ws PROVE ProjectionWriteIsGuarded(r, w)'
  <2>1. CASE w \in rebuilder[r].writes
    <3>1. ProjectionWriteIsGuarded(r, w) /\ w.attempt \in Attempts
      BY <1>1, <2>1 DEF RebuildIsGuarded, RebuildRun, RebuildWrite
    <3>2. projectionLock'[w.attempt] = r
      BY <1>6, <3>1, RebuildersAssumption DEF ProjectionWriteIsGuarded
    <3>3. QED
      BY <3>1, <3>2 DEF ProjectionWriteIsGuarded, Events
  <2>2. CASE w = Written(r)
    BY <1>1, <1>6, <2>2, WrittenIsSound DEF ProjectionWriteIsGuarded, Events
  <2>3. QED
    BY <2>1, <2>2 DEF ws
<1>12. RebuildIsGuarded(r)'
  BY <1>1, <1>10, <1>11 DEF RebuildIsGuarded
<1>13. QED
  BY <1>5, <1>6, <1>8, <1>9, <1>12, QuietRebuild, SameLag, AllRebuildsGuarded
  DEF RebuildInvariant

LEMMA RebuildEnds ==
  ASSUME RebuildTypes, NEW r \in Rebuilders, Unlock(r),
         rebuilder' = [rebuilder EXCEPT ![r] = Asleep], UNCHANGED judgedBy
  PROVE  /\ RebuildTypes' /\ OnlyRebuild(r) /\ rebuilder'[r] = Asleep
         /\ \A a \in Attempts :
              projectionLock[a] # r => projectionLock'[a] = projectionLock[a]
<1>1. OnlyRebuild(r) /\ rebuilder'[r] = Asleep
  BY AsleepIsRun, RebuildGoesOn
<1>2. projectionLock' \in [Attempts -> Rebuilders \cup {Unlocked}]
  BY DEF Unlock, RebuildTypes
<1>3. QED
  BY <1>1, <1>2 DEF Unlock, RebuildTypes, OnlyRebuild

LEMMA CrashRebuildIsSound ==
  ASSUME RebuildTypes, RebuildInvariant, NEW r \in Rebuilders,
         CrashRebuild(r), UNCHANGED <<row, history, judgedBy>>
  PROVE  RebuildTypes' /\ RebuildInvariant'
<1>1. /\ RebuildTypes' /\ OnlyRebuild(r) /\ rebuilder'[r] = Asleep
      /\ \A a \in Attempts :
           projectionLock[a] # r => projectionLock'[a] = projectionLock[a]
  BY RebuildEnds DEF CrashRebuild
<1>2. raced' = raced
  BY DEF CrashRebuild
<1>3. \A x \in Rebuilders \ {r} : RebuildIsGuarded(x)'
  BY <1>1, QuietRebuild
<1>4. QED
  BY <1>1, <1>2, <1>3, AsleepIsGuarded, SameLag, AllRebuildsGuarded
  DEF RebuildInvariant

LEMMA CommitRebuildIsSound ==
  ASSUME StoreTypeOK, RebuildTypes, RebuildInvariant, NEW r \in Rebuilders,
         CommitRebuild(r), UNCHANGED <<row, judgedBy>>
  PROVE  RebuildTypes' /\ RebuildInvariant'
<1>1. /\ RebuildTypes' /\ OnlyRebuild(r) /\ rebuilder'[r] = Asleep
      /\ \A a \in Attempts :
           projectionLock[a] # r => projectionLock'[a] = projectionLock[a]
  BY RebuildEnds DEF CommitRebuild
<1>2. ASSUME NEW a \in Attempts, projectionLock[a] # r
      PROVE  history'[a] = history[a]
  <2>1. \A w \in rebuilder[r].writes : w.attempt # a
    BY <1>2 DEF RebuildInvariant, RebuildIsGuarded, ProjectionWriteIsGuarded
  <2>2. ~ \E w \in rebuilder[r].writes :
            /\ w.attempt = a
            /\ history'[a] = [history[a] EXCEPT !.projection = w.projection]
            /\ a \in raced' <=> IF w.effect # "keeps"
                                THEN w.effect = "races" ELSE a \in raced
    BY <2>1
  <2>3. QED
    BY <2>2, CommitRebuildWrites, Zenon
<1>3. ASSUME NEW x \in Rebuilders \ {r} PROVE RebuildIsGuarded(x)'
  <2>1. RebuildIsGuarded(x) /\ x # r
    BY DEF RebuildInvariant
  <2>2. RebuildUndisturbed(x)
    BY <1>1, <1>2 DEF RebuildUndisturbed, OnlyRebuild
  <2>3. QED
    BY <2>1, <2>2, UndisturbedRebuild
<1>4. ASSUME NEW a \in Attempts, a \notin raced'
      PROVE  history'[a].projection = Replay(history'[a].events)
  <2>1. a \notin raced => history[a].projection = Replay(history[a].events)
    BY DEF RebuildInvariant, ProjectionLagsOnlyAfterOverlap, Events
  <2>2. CASE history'[a] = history[a] /\ (a \in raced' <=> a \in raced)
    BY <1>4, <2>1, <2>2
  <2>3. ASSUME NEW w \in rebuilder[r].writes, w.attempt = a,
               history'[a] = [history[a] EXCEPT !.projection = w.projection],
               a \in raced' <=> IF w.effect # "keeps"
                                THEN w.effect = "races" ELSE a \in raced
        PROVE  history'[a].projection = Replay(history'[a].events)
    <3>1. /\ ProjectionWriteIsGuarded(r, w)
          /\ w.effect \in {"restores", "keeps", "races"}
          /\ history[a] \in History
      BY DEF RebuildInvariant, RebuildIsGuarded, RebuildTypes, RebuildRun,
             RebuildWrite, StoreTypeOK
    <3>2. /\ history'[a].projection = w.projection
          /\ history'[a].events = history[a].events
      BY <2>3, <3>1 DEF History
    <3>3. w.effect = "restores" \/ (w.effect = "keeps" /\ a \notin raced)
      BY <1>4, <2>3, <3>1
    <3>4. QED
      BY <2>1, <2>3, <3>1, <3>2, <3>3 DEF ProjectionWriteIsGuarded, Events
  <2>4. QED
    BY <2>2, <2>3, CommitRebuildWrites
<1>5. ProjectionLagsOnlyAfterOverlap'
  BY <1>4 DEF ProjectionLagsOnlyAfterOverlap, Events
<1>6. QED
  BY <1>1, <1>3, <1>5, AsleepIsGuarded, AllRebuildsGuarded

\* A client appends to a log and to its projection alike.
LEMMA ClientKeepsReplay ==
  ASSUME StoreTypeOK, ClientStep, NEW a \in Attempts, IsReplayed(history[a])
  PROVE  IsReplayed(history'[a])
<1>1. /\ history[a] \in History
      /\ \/ history'[a] = history[a]
         \/ Appended(history[a], history'[a])
         \/ \E h \in History : Appended(history[a], h) /\ Appended(h, history'[a])
  BY StepAppends DEF ClientStep, StoreTypeOK
<1>2. ASSUME NEW h \in History, IsReplayed(h), NEW k, Appended(h, k)
      PROVE  IsReplayed(k)
  BY <1>2, AppendEventReplayed DEF Appended
<1>3. QED
  BY <1>1, <1>2

LEMMA ClientKeepsRebuilds ==
  ASSUME StoreTypeOK, RebuildTypes, RebuildInvariant, ClientStep
  PROVE  RebuildInvariant'
<1>1. UNCHANGED <<rebuilder, projectionLock, raced>>
  BY DEF ClientStep, rebuildVars
<1>2. ASSUME NEW x \in Rebuilders PROVE RebuildIsGuarded(x)'
  <2>1. RebuildIsGuarded(x) /\ x # Unlocked
    BY RebuildersAssumption DEF RebuildInvariant
  <2>2. RebuildUndisturbed(x)
    BY <1>1, <2>1 DEF RebuildUndisturbed, ClientStep
  <2>3. QED
    BY <2>1, <2>2, UndisturbedRebuild
<1>3. ASSUME NEW a \in Attempts \ raced PROVE IsReplayed(history'[a])
  BY ClientKeepsReplay
  DEF RebuildInvariant, ProjectionLagsOnlyAfterOverlap, IsReplayed, Events
<1>4. ProjectionLagsOnlyAfterOverlap'
  BY <1>1, <1>3 DEF ProjectionLagsOnlyAfterOverlap, IsReplayed, Events
<1>5. QED
  BY <1>2, <1>4 DEF RebuildInvariant

LEMMA RebuildUntouched ==
  ASSUME RebuildInvariant, UNCHANGED rebuildVars, UNCHANGED <<row, history>>
  PROVE  RebuildInvariant'
BY DEF rebuildVars, RebuildInvariant, RebuildIsGuarded,
       ProjectionWriteIsGuarded, ProjectionLagsOnlyAfterOverlap, Events

\* Only an attempt that is opened gets a digest to be judged by.
LEMMA LatestIsNamed ==
  ASSUME SeedTypes, SeedInvariant, NEW c \in Seeded, Present(c)
  PROVE  latest(c) \in Range(revisions[c]) /\ latest(c) \in Digests
<1>1. revisions[c] \in Seq(Digests) /\ Range(revisions[c]) # {}
  BY DEF SeedTypes, SeedInvariant, RevisionsAreKept
<1>2. Len(revisions[c]) \in DOMAIN revisions[c]
  BY <1>1 DEF Range
<1>3. QED
  BY <1>1, <1>2 DEF latest, Last, Range

\* Whatever runs, the rebuilding runs stay sound.
LEMMA StepKeepsRebuilds ==
  ASSUME StoreTypeOK, KnownIsOpen, SeedTypes, SeedInvariant, RebuildTypes,
         RebuildInvariant, [MaintenanceNext]_maintenanceVars
  PROVE  RebuildTypes' /\ RebuildInvariant'
<1>1. ASSUME NEW a \in Attempts, OpenHere(a)
      PROVE  RebuildTypes' /\ RebuildInvariant'
  <2>1. latest(ChallengeOf[a]) \in Digests
    BY <1>1, LatestIsNamed, SeededAssumption DEF OpenHere
  <2>2. UNCHANGED <<rebuilder, projectionLock>>
        /\ judgedBy' = [judgedBy EXCEPT ![a] = latest(ChallengeOf[a])]
    BY <1>1 DEF OpenHere, rebuildVars
  <2>3. RebuildTypes'
    BY <2>1, <2>2 DEF RebuildTypes
  <2>4. QED
    BY <1>1, <2>3, OpenHereIsClient, ClientKeepsRebuilds
<1>2. ASSUME NEW c \in EvaluationCommand, Transact(c)
      PROVE  RebuildTypes' /\ RebuildInvariant'
  <2>1. RebuildTypes'
    BY <1>2 DEF Transact, rebuildVars, RebuildTypes
  <2>2. QED
    BY <1>2, <2>1, TransactIsClient, ClientKeepsRebuilds
<1>3. ASSUME UNCHANGED rebuildVars, UNCHANGED <<row, history, judgedBy>>
      PROVE  RebuildTypes' /\ RebuildInvariant'
  BY <1>3, RebuildUntouched DEF rebuildVars, RebuildTypes
<1>4. ASSUME NEW s \in Scripts, SeedStep(s) \/ SeedCommits(s)
      PROVE  RebuildTypes' /\ RebuildInvariant'
  BY <1>3, <1>4 DEF SeedStep, SeedCommits, storeVars, othersThanCount
<1>5. ASSUME NEW r \in Rebuilders, RebuildStarts(r)
      PROVE  RebuildTypes' /\ RebuildInvariant'
  BY <1>5, StartRebuildIsSound DEF RebuildStarts, storeVars
<1>6. ASSUME NEW r \in Rebuilders, RebuildStep(r)
      PROVE  RebuildTypes' /\ RebuildInvariant'
  BY <1>6, ReadEventsIsSound, LoadProjectionIsSound, WriteProjectionIsSound,
     CrashRebuildIsSound DEF RebuildStep, storeVars
<1>7. ASSUME NEW r \in Rebuilders, RebuildCommits(r)
      PROVE  RebuildTypes' /\ RebuildInvariant'
  BY <1>7, CommitRebuildIsSound DEF RebuildCommits
<1>8. CASE AuthorEdits \/ UNCHANGED maintenanceVars
  BY <1>3, <1>8 DEF AuthorEdits, maintenanceVars, storeVars
<1>9. QED
  BY <1>1, <1>2, <1>4, <1>5, <1>6, <1>7, <1>8 DEF MaintenanceNext

-----------------------------------------------------------------------------
(* What the commands name.                                                  *)

\* What is published stays; so does what a challenge has been revised to.
LEMMA StepKeepsArtifacts ==
  ASSUME SeedTypes, SeedInvariant, [MaintenanceNext]_maintenanceVars
  PROVE  /\ \A d \in DOMAIN artifacts :
              d \in DOMAIN artifacts' /\ artifacts'[d] = artifacts[d]
         /\ Named \subseteq Named'
<1>1. \/ UNCHANGED <<artifacts, revisions>>
      \/ \E s \in Scripts : Publish(s)
      \/ \E s \in Scripts : SeedCommits(s)
  <2>1. ASSUME NEW s \in Scripts, SeedStep(s)
        PROVE  UNCHANGED <<artifacts, revisions>> \/ Publish(s)
    BY <2>1 DEF SeedStep, StartSeed, LoadChallenge, Flush, ReadFile,
                PrepareSnapshot, CopyFile, Ensure, CrashSeed, diskVars, tableVars
  <2>2. ASSUME UNCHANGED seedVars PROVE UNCHANGED <<artifacts, revisions>>
    BY <2>2 DEF seedVars, diskVars, tableVars
  <2>3. ASSUME AuthorEdits PROVE UNCHANGED <<artifacts, revisions>>
    BY <2>3 DEF AuthorEdits, Edit, diskVars, tableVars
  <2>4. ASSUME NEW r \in Rebuilders,
               RebuildStarts(r) \/ RebuildStep(r) \/ RebuildCommits(r)
        PROVE  UNCHANGED <<artifacts, revisions>>
    BY <2>2, <2>4 DEF RebuildStarts, RebuildStep, RebuildCommits, diskVars,
                      tableVars
  <2>5. QED
    BY <2>1, <2>2, <2>3, <2>4
    DEF MaintenanceNext, OpenHere, Transact, maintenanceVars
<1>2. CASE UNCHANGED <<artifacts, revisions>>
  BY <1>2 DEF Named
<1>3. ASSUME NEW s \in Scripts, Publish(s)
      PROVE  /\ \A d \in DOMAIN artifacts :
                  d \in DOMAIN artifacts' /\ artifacts'[d] = artifacts[d]
             /\ Named \subseteq Named'
  <2>1. Digest(s) \notin DOMAIN artifacts
    BY <1>3 DEF Publish, InStep, SeedInvariant, SnapshotIsGuarded
  <2>2. artifacts' = With(artifacts, Digest(s), temp[Digest(s)])
        /\ revisions' = revisions
    BY <1>3 DEF Publish, tableVars
  <2>3. \A d \in DOMAIN artifacts :
          d \in DOMAIN artifacts' /\ artifacts'[d] = artifacts[d]
    BY <2>1, <2>2 DEF With
  <2>4. QED
    BY <2>2, <2>3 DEF Named
<1>4. ASSUME NEW s \in Scripts, SeedCommits(s)
      PROVE  /\ artifacts' = artifacts
             /\ Named \subseteq Named'
  <2>1. CommitSeed(s, acceptedCount) /\ artifacts' = artifacts
    BY <1>4 DEF SeedCommits, CommitSeed, diskVars
  <2>2. \A c \in Seeded : Range(revisions[c]) \subseteq Range(revisions'[c])
    BY <2>1, CommitKeepsRevisions
  <2>3. QED
    BY <2>1, <2>2 DEF Named
<1>5. QED
  BY <1>1, <1>2, <1>3, <1>4

LEMMA StepKeepsJudgedBy ==
  ASSUME StoreTypeOK, KnownIsOpen, SeedTypes, SeedInvariant, RebuildTypes,
         JudgedByNamed, [MaintenanceNext]_maintenanceVars
  PROVE  JudgedByNamed'
<1>1. Named \subseteq Named'
  BY StepKeepsArtifacts
<1>2. ASSUME NEW a \in Attempts, OpenHere(a) PROVE JudgedByNamed'
  <2>1. /\ row' = [row EXCEPT ![a] = "QUEUED"]
        /\ judgedBy' = [judgedBy EXCEPT ![a] = latest(ChallengeOf[a])]
        /\ Present(ChallengeOf[a])
    BY <1>2 DEF OpenHere, OpenAttempt
  <2>2. latest(ChallengeOf[a]) \in Named
    BY <2>1, LatestIsNamed, SeededAssumption DEF Named
  <2>3. \A b \in Attempts : b # a => row'[b] = row[b] /\ judgedBy'[b] = judgedBy[b]
    BY <2>1 DEF StoreTypeOK, RebuildTypes
  <2>4. judgedBy'[a] \in Named
    BY <2>1, <2>2 DEF RebuildTypes
  <2>5. QED
    BY <1>1, <2>3, <2>4 DEF JudgedByNamed
<1>3. ASSUME NEW c \in EvaluationCommand, Transact(c) PROVE JudgedByNamed'
  <2>1. Transaction(c) /\ judgedBy' = judgedBy
    BY <1>3 DEF Transact
  <2>2. \A a \in Attempts : row'[a] # "ABSENT" => row[a] # "ABSENT"
    BY <2>1, TransactionIsLocal
  <2>3. QED
    BY <1>1, <2>1, <2>2 DEF JudgedByNamed
<1>4. ASSUME UNCHANGED <<row, judgedBy>> PROVE JudgedByNamed'
  BY <1>1, <1>4 DEF JudgedByNamed
<1>5. QED
  BY <1>2, <1>3, <1>4
  DEF MaintenanceNext, SeedStep, SeedCommits, RebuildStarts, RebuildStep,
      RebuildCommits, AuthorEdits, storeVars, othersThanCount, maintenanceVars

-----------------------------------------------------------------------------
(* Credits.                                                                 *)

\* A transaction credits an account at a challenge at most once.
LEMMA TransactionTallies ==
  ASSUME NEW c \in EvaluationCommand, Transaction(c)
  PROVE  \/ UNCHANGED <<completed, acceptedCount>>
         \/ /\ Solved(c.attempt) \notin completed
            /\ completed' = completed \cup {Solved(c.attempt)}
            /\ acceptedCount' =
                 [acceptedCount EXCEPT ![ChallengeOf[c.attempt]] = @ + 1]
BY DEF Transaction, Claim, StoreSuccess, StoreTerminalFailure, ResetForRetry,
       RecordCompletion, Credited

LEMMA SolutionsAreFinite ==
  ASSUME IsFiniteSet(completed), NEW k
  PROVE  IsFiniteSet(SolutionsOf(k)) /\ Cardinality(SolutionsOf(k)) \in Nat
<1>1. SolutionsOf(k) \subseteq completed
  BY DEF SolutionsOf
<1>2. IsFiniteSet(SolutionsOf(k))
  BY <1>1, FS_Subset
<1>3. QED
  BY <1>2, FS_CardinalityType

LEMMA CreditKeepsCredits ==
  ASSUME StoreTypeOK, CreditsInvariant, NEW a \in Attempts,
         Solved(a) \notin completed, completed' = completed \cup {Solved(a)},
         acceptedCount' = [acceptedCount EXCEPT ![ChallengeOf[a]] = @ + 1],
         reseeded' = reseeded
  PROVE  CreditsInvariant'
<1> DEFINE x == Solved(a)
<1>1. x[2] = ChallengeOf[a] /\ ChallengeOf[a] \in Challenges
  BY DEF Solved
<1>2. IsFiniteSet(completed) /\ acceptedCount \in [Challenges -> Nat]
  BY DEF CreditsInvariant, StoreTypeOK
<1> HIDE DEF x
<1>3. IsFiniteSet(completed')
  BY <1>2, FS_AddElement
<1>4. ASSUME NEW k \in Seeded
      PROVE  /\ acceptedCount'[k] <= Cardinality(SolutionsOf(k)')
             /\ k \notin reseeded => acceptedCount'[k] = Cardinality(SolutionsOf(k)')
  <2>1. /\ acceptedCount[k] <= Cardinality(SolutionsOf(k))
        /\ k \notin reseeded => acceptedCount[k] = Cardinality(SolutionsOf(k))
        /\ k \in Challenges
    BY SeededAssumption DEF CreditsInvariant, CreditsSurviveUnlessReseeded
  <2>2. IsFiniteSet(SolutionsOf(k)) /\ Cardinality(SolutionsOf(k)) \in Nat
    BY <1>2, SolutionsAreFinite
  <2>3. CASE k = ChallengeOf[a]
    <3>1. SolutionsOf(k)' = SolutionsOf(k) \cup {x} /\ x \notin SolutionsOf(k)
      BY <1>1, <2>3 DEF SolutionsOf, x
    <3>2. Cardinality(SolutionsOf(k) \cup {x}) = Cardinality(SolutionsOf(k)) + 1
      BY <2>2, <3>1, FS_AddElement
    <3>3. acceptedCount'[k] = acceptedCount[k] + 1 /\ acceptedCount[k] \in Nat
      BY <1>2, <2>1, <2>3
    <3>4. QED
      BY <2>1, <2>2, <3>1, <3>2, <3>3
  <2>4. CASE k # ChallengeOf[a]
    <3>1. SolutionsOf(k)' = SolutionsOf(k)
      BY <1>1, <2>4 DEF SolutionsOf, x
    <3>2. acceptedCount'[k] = acceptedCount[k]
      BY <1>2, <2>1, <2>4
    <3>3. QED
      BY <2>1, <3>1, <3>2
  <2>5. QED
    BY <2>3, <2>4
<1>5. QED
  BY <1>3, <1>4 DEF CreditsInvariant, CreditsSurviveUnlessReseeded

LEMMA CreditsUntouched ==
  ASSUME CreditsInvariant, UNCHANGED <<completed, acceptedCount, reseeded>>
  PROVE  CreditsInvariant'
BY DEF CreditsInvariant, CreditsSurviveUnlessReseeded, SolutionsOf

\* The seeding sets a count to zero, which is never too many, and says so.
LEMMA ReseedKeepsCredits ==
  ASSUME StoreTypeOK, CreditsInvariant, NEW s \in Scripts, SeedCommits(s)
  PROVE  CreditsInvariant'
<1> DEFINE resets(c) == \E w \in seeder[s].writes : w.challenge = c /\ w.count # 0
<1>1. /\ completed' = completed /\ IsFiniteSet(completed)
      /\ acceptedCount \in [Challenges -> Nat]
  BY DEF SeedCommits, othersThanCount, CreditsInvariant, StoreTypeOK
<1>2. /\ \A c \in Challenges : acceptedCount'[c] = acceptedCount[c]
                               \/ (acceptedCount'[c] = 0 /\ resets(c))
      /\ reseeded \subseteq reseeded'
      /\ \A c \in Seeded : resets(c) => c \in reseeded'
  <2> DEFINE found(c) == \E w \in {x \in seeder[s].writes : x.challenge = c} :
                           w.count # 0
  <2>1. /\ acceptedCount' = [c \in DOMAIN acceptedCount |->
                               IF found(c) THEN 0 ELSE acceptedCount[c]]
        /\ reseeded' = reseeded \cup {c \in Seeded : found(c)}
    BY DEF SeedCommits, CommitSeed
  <2>2. \A c : found(c) <=> resets(c)
    OBVIOUS
  <2> HIDE DEF found
  <2> HIDE DEF resets
  <2>3. \A c \in Challenges : acceptedCount'[c] = acceptedCount[c]
                             \/ (acceptedCount'[c] = 0 /\ found(c))
    BY <1>1, <2>1
  <2>4. \A c \in Challenges : acceptedCount'[c] = acceptedCount[c]
                             \/ (acceptedCount'[c] = 0 /\ resets(c))
    BY <2>2, <2>3
  <2>5. reseeded \subseteq reseeded' /\ \A c \in Seeded : found(c) => c \in reseeded'
    BY <2>1
  <2>6. QED
    BY <2>2, <2>4, <2>5
<1> HIDE DEF resets
<1>3. \A c \in Seeded : /\ SolutionsOf(c)' = SolutionsOf(c)
                        /\ Cardinality(SolutionsOf(c)) \in Nat
  BY <1>1, SolutionsAreFinite DEF SolutionsOf
<1>4. QED
  BY <1>1, <1>2, <1>3, SeededAssumption
  DEF CreditsInvariant, CreditsSurviveUnlessReseeded

LEMMA StepKeepsCreditsApart ==
  ASSUME StoreTypeOK, CreditsInvariant, [MaintenanceNext]_maintenanceVars
  PROVE  CreditsInvariant'
<1>1. ASSUME NEW c \in EvaluationCommand, Transact(c) PROVE CreditsInvariant'
  <2>1. Transaction(c) /\ c.attempt \in Attempts /\ reseeded' = reseeded
    BY <1>1, CommandType DEF Transact, seedVars, tableVars
  <2>2. QED
    BY <2>1, TransactionTallies, CreditKeepsCredits, CreditsUntouched
<1>2. ASSUME NEW s \in Scripts, SeedStep(s)
      PROVE  UNCHANGED <<completed, acceptedCount, reseeded>>
  BY <1>2 DEF SeedStep, StartSeed, LoadChallenge, Flush, ReadFile,
              PrepareSnapshot, CopyFile, Publish, Ensure, CrashSeed, tableVars,
              storeVars
<1>3. ASSUME NEW a \in Attempts, OpenHere(a)
      PROVE  UNCHANGED <<completed, acceptedCount, reseeded>>
  BY <1>3 DEF OpenHere, OpenAttempt, seedVars, tableVars
<1>4. ASSUME NEW r \in Rebuilders,
             RebuildStarts(r) \/ RebuildStep(r) \/ RebuildCommits(r)
      PROVE  UNCHANGED <<completed, acceptedCount, reseeded>>
  BY <1>4 DEF RebuildStarts, RebuildStep, RebuildCommits, storeVars, seedVars,
              tableVars
<1>5. ASSUME AuthorEdits \/ UNCHANGED maintenanceVars
      PROVE  UNCHANGED <<completed, acceptedCount, reseeded>>
  BY <1>5 DEF AuthorEdits, Edit, maintenanceVars, storeVars, seedVars, tableVars
<1>6. QED
  BY <1>1, <1>2, <1>3, <1>4, <1>5, ReseedKeepsCredits, CreditsUntouched
  DEF MaintenanceNext

-----------------------------------------------------------------------------
(* The theorems.                                                            *)

MaintenanceInvariant ==
  /\ StoreTypeOK /\ KnownIsOpen
  /\ SeedTypes /\ SeedInvariant
  /\ RebuildTypes /\ RebuildInvariant
  /\ JudgedByNamed
  /\ CreditsInvariant

LEMMA MaintenanceInitially == MaintenanceInit => MaintenanceInvariant
<1> SUFFICES ASSUME MaintenanceInit PROVE MaintenanceInvariant
  OBVIOUS
<1>1. StoreInit /\ RebuildInit /\ SeedInit
      /\ judgedBy = [a \in Attempts |-> NoDigest]
  BY DEF MaintenanceInit
<1>2. StoreTypeOK
  BY <1>1, InitTypeOK
<1>3. \A a \in Attempts : row[a] = "ABSENT" /\ history[a] = NewHistory
  BY <1>1 DEF StoreInit
<1>4. KnownIsOpen /\ JudgedByNamed
  BY <1>3 DEF KnownIsOpen, JudgedByNamed, Events, NewHistory
<1>5. SeedTypes /\ SeedInvariant
  BY <1>1, SeedInitially
<1>6. RebuildTypes
  BY <1>1, AsleepIsRun DEF RebuildInit, RebuildTypes
<1>7. RebuildInvariant
  <2>1. \A r \in Rebuilders : RebuildIsGuarded(r)
    BY <1>1 DEF RebuildInit, RebuildIsGuarded, Asleep
  <2>2. ProjectionLagsOnlyAfterOverlap
    BY <1>3, ReplayOfNothing DEF ProjectionLagsOnlyAfterOverlap, Events, NewHistory
  <2>3. QED
    BY <2>1, <2>2 DEF RebuildInvariant
<1>8. CreditsInvariant
  <2>1. completed = {} /\ \A c \in Seeded : acceptedCount[c] = 0
    BY <1>1, SeededAssumption DEF StoreInit
  <2>2. \A c \in Seeded : SolutionsOf(c) = {}
    BY <2>1 DEF SolutionsOf
  <2>3. QED
    BY <2>1, <2>2, FS_EmptySet DEF CreditsInvariant, CreditsSurviveUnlessReseeded
<1>9. QED
  BY <1>2, <1>4, <1>5, <1>6, <1>7, <1>8 DEF MaintenanceInvariant

LEMMA MaintenanceInductive ==
  MaintenanceInvariant /\ [MaintenanceNext]_maintenanceVars
    => MaintenanceInvariant'
BY StepKeepsStore, StepKeepsSeeding, StepKeepsRebuilds, StepKeepsJudgedBy,
   StepKeepsCreditsApart DEF MaintenanceInvariant

LEMMA MaintenanceInvariantHolds == MaintenanceSpec => []MaintenanceInvariant
<1>1. QED
  BY MaintenanceInitially, MaintenanceInductive, PTL DEF MaintenanceSpec

LEMMA InvariantMeansTypeOK == MaintenanceInvariant => MaintenanceTypeOK
<1> SUFFICES ASSUME MaintenanceInvariant PROVE MaintenanceTypeOK
  OBVIOUS
<1>1. StoreTypeOK /\ SeedTypes /\ RebuildTypes
  BY DEF MaintenanceInvariant
<1>2. ASSUME NEW c \in Seeded
      PROVE  /\ rowLock[c] \in Scripts \cup {Nobody}
             /\ Present(c) => catalogue[c].shown \in Content
             /\ \A i \in DOMAIN revisions[c] : revisions[c][i] \in Digests
  BY <1>1 DEF SeedTypes, Present, CatalogueEntry
<1>3. \A d \in DOMAIN artifacts : artifacts[d] \in PartialContent
  BY <1>1 DEF SeedTypes, Content, PartialContent
<1>4. ASSUME NEW s \in Scripts
      PROVE  /\ seeder[s].step \in
                  {"idle", "load", "flush", "manifest", "copy", "ensure", "commit"}
             /\ seeder[s].seen \in PartialContent
             /\ seeder[s].at \in DOMAIN Bundles
  BY <1>1, RunsAreOfBundles DEF SeedRun, SeedSteps
<1>5. \A r \in Rebuilders :
        rebuilder[r].step \in {"idle", "next", "load", "write"}
  BY <1>1 DEF RebuildTypes, RebuildRun
<1>6. QED
  BY <1>1, <1>2, <1>3, <1>4, <1>5 DEF MaintenanceTypeOK, SeedTypes, RebuildTypes

\* The runs of the scripts, the directories and the rows are what they hold,
\* and no run ever is at a bundle that there is not.
THEOREM MaintenanceTypeCorrect == MaintenanceSpec => []MaintenanceTypeOK
BY MaintenanceInvariantHolds, InvariantMeansTypeOK, PTL

\* The lock of a challenge admits one snapshot of it at a time.
LEMMA OneSnapshot ==
  ASSUME SeedInvariant, NEW c \in Seeded
  PROVE  Cardinality(Snapshotting(c)) <= 1
<1>1. \A s \in Snapshotting(c) : rowLock[c] = s
  BY DEF Snapshotting, SeedInvariant, SnapshotIsGuarded
<1>2. CASE Snapshotting(c) = {}
  BY <1>2, FS_EmptySet
<1>3. CASE Snapshotting(c) # {}
  <2>1. Snapshotting(c) = {rowLock[c]}
    BY <1>1, <1>3
  <2>2. Cardinality({rowLock[c]}) = 1
    BY FS_Singleton
  <2>3. QED
    BY <2>1, <2>2
<1>4. QED
  BY <1>2, <1>3

\* However many runs are made, killed and overlapped by edits, a directory is
\* the content it is named after and the catalogue shows the revision it
\* names, unless an edit fell into the run that wrote it; and the numbers and
\* digests of the revisions are unique.
THEOREM RevisionsAreFaithful == MaintenanceSpec => []RevisionIsFaithful
<1>1. MaintenanceInvariant => RevisionIsFaithful
  BY OneSnapshot
  DEF MaintenanceInvariant, SeedInvariant, RevisionsAreKept, RevisionIsFaithful
<1>2. QED
  BY <1>1, MaintenanceInvariantHolds, PTL

\* No step of anyone takes away or changes a directory that a command can
\* name, and the command of every attempt names one of those.
THEOREM QueuedMeaningStays == MaintenanceSpec => QueuedMeaningIsFixed
<1>1. MaintenanceInvariant /\ [MaintenanceNext]_maintenanceVars =>
        [/\ \A d \in Named :
              /\ d \in DOMAIN artifacts \cap DOMAIN artifacts'
              /\ artifacts'[d] = artifacts[d]
         /\ \A a \in Attempts : row[a] # "ABSENT" => judgedBy[a] \in Named
        ]_maintenanceVars
  <2> SUFFICES ASSUME MaintenanceInvariant, [MaintenanceNext]_maintenanceVars
               PROVE  /\ \A d \in Named :
                           /\ d \in DOMAIN artifacts \cap DOMAIN artifacts'
                           /\ artifacts'[d] = artifacts[d]
                      /\ \A a \in Attempts :
                           row[a] # "ABSENT" => judgedBy[a] \in Named
    OBVIOUS
  <2>1. SeedTypes /\ SeedInvariant /\ JudgedByNamed
    BY DEF MaintenanceInvariant
  <2>2. Named \subseteq DOMAIN artifacts
    BY <2>1 DEF Named, SeedInvariant, RevisionsAreKept
  <2>3. QED
    BY <2>1, <2>2, StepKeepsArtifacts DEF JudgedByNamed
<1>2. QED
  BY <1>1, MaintenanceInvariantHolds, PTL DEF MaintenanceSpec, QueuedMeaningIsFixed

\* Also while projections are rebuilt beside the workers, one that differs
\* from a replay of its events was written by a run whose reads were overtaken.
THEOREM ProjectionsLagOnlyAfterOverlap ==
  MaintenanceSpec => []ProjectionLagsOnlyAfterOverlap
<1>1. MaintenanceInvariant => ProjectionLagsOnlyAfterOverlap
  BY DEF MaintenanceInvariant, RebuildInvariant
<1>2. QED
  BY <1>1, MaintenanceInvariantHolds, PTL

\* A count is what the accounts remember until a run of the seeding finds it
\* above zero, and never more than that.
THEOREM CreditsSurvive == MaintenanceSpec => []CreditsSurviveUnlessReseeded
<1>1. MaintenanceInvariant => CreditsSurviveUnlessReseeded
  BY DEF MaintenanceInvariant, CreditsInvariant
<1>2. QED
  BY <1>1, MaintenanceInvariantHolds, PTL

=============================================================================
