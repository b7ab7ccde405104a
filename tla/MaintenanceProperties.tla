----------------------- MODULE MaintenanceProperties -----------------------
(***************************************************************************)
(* What survives the maintenance scripts, and what exactly they break.     *)
(***************************************************************************)
EXTENDS Maintenance

PartialContent == UNION {[fs -> Versions] : fs \in SUBSET Files}

\* The runs of the scripts, the directories and the rows are what they hold.
MaintenanceTypeOK ==
  /\ StoreTypeOK
  /\ bundle \in [Seeded -> Content]
  /\ \A c \in Seeded :
       /\ rowLock[c] \in Scripts \cup {Nobody}
       /\ Present(c) => catalogue[c].shown \in Content
       /\ \A i \in DOMAIN revisions[c] : revisions[c][i] \in Digests
  /\ DOMAIN artifacts \cup DOMAIN temp \subseteq Digests
  /\ \A d \in DOMAIN artifacts : artifacts[d] \in PartialContent
  /\ \A s \in Scripts :
       /\ seeder[s].step \in
            {"idle", "load", "flush", "manifest", "copy", "ensure", "commit"}
       /\ seeder[s].seen \in PartialContent
       /\ seeder[s].at \in DOMAIN Bundles
  /\ \A r \in Rebuilders :
       rebuilder[r].step \in {"idle", "next", "load", "write"}
  /\ \A a \in Attempts : projectionLock[a] \in Rebuilders \cup {Unlocked}

Named == UNION {Range(revisions[c]) : c \in Seeded}

\* README, "Immutable revisions": a queued submission does not change its
\* meaning when challenge files are edited.  The directory of a revision that a
\* command can name is there and stays as it is, whatever is seeded, edited or
\* killed; and the command of every attempt names such a revision.
QueuedMeaningIsFixed ==
  [][/\ \A d \in Named :
          /\ d \in DOMAIN artifacts \cap DOMAIN artifacts'
          /\ artifacts'[d] = artifacts[d]
     /\ \A a \in Attempts : row[a] # "ABSENT" => judgedBy[a] \in Named
    ]_maintenanceVars

Snapshotting(c) ==
  {s \in Scripts : seeder[s].step \in {"manifest", "copy", "ensure"} /\ At(s) = c}

\* A published directory is the content it is named after, and what the
\* catalogue shows is the revision it names, unless an edit fell into the very
\* run that wrote it: however many runs start together or die half-way, the
\* lock of the challenge lets one at a time make a snapshot, and the numbers
\* and digests of the revisions stay unique.
RevisionIsFaithful ==
  /\ \A d \in DOMAIN artifacts \ torn : artifacts[d] = d.files
  /\ \A c \in Seeded :
       /\ Cardinality(Snapshotting(c)) <= 1
       /\ Cardinality(Range(revisions[c])) = Len(revisions[c])
       /\ Present(c) =>
            /\ catalogue[c].digest \in Range(revisions[c])
            /\ catalogue[c].overlapped \/ catalogue[c].shown = catalogue[c].digest.files

\* README: the projection is disposable.  It is what a replay of the events
\* gives, also while it is rebuilt beside the workers, except after a run that
\* loaded a projection which did not match the events it had read, and wrote
\* it although either had moved on; and a later run that nothing disturbs
\* restores it.
ProjectionLagsOnlyAfterOverlap ==
  \A a \in Attempts \ raced : history[a].projection = Replay(Events(a))

\* Seeding at every start does not touch the credits earned since, until it
\* finds some when it loads the challenge: then it sets the count back, and it
\* is the accounts alone that remember.  No challenge ever counts too many.
CreditsSurviveUnlessReseeded ==
  \A c \in Seeded :
    /\ acceptedCount[c] <= Cardinality(SolutionsOf(c))
    /\ c \notin reseeded => acceptedCount[c] = Cardinality(SolutionsOf(c))

=============================================================================
