------------------------- MODULE ProjectionRebuild -------------------------
(***************************************************************************)
(* rebuild_attempt_projections.py while the workers go on: one transaction *)
(* that, attempt by attempt, reads the events and then the projection      *)
(* without a lock, and writes what the reducer makes of the events.        *)
(*                                                                         *)
(* The flush always writes updated_at and with it takes the lock of the    *)
(* projection row; of the other columns it writes those that differ from   *)
(* what was loaded.                                                        *)
(***************************************************************************)
EXTENDS AttemptStoreProperties

CONSTANT Rebuilders   \* processes that may run the script

VARIABLES
  rebuilder,        \* each process's run of the script
  projectionLock,   \* who holds the lock of each projection row
  raced             \* attempts whose projection an overlapped run has written

rebuildVars == <<rebuilder, projectionLock, raced>>

Unlocked == "unlocked"
ASSUME RebuildersAssumption == Unlocked \notin Rebuilders

Asleep == [step |-> "idle", todo |-> {}, attempt |-> "none", events |-> << >>,
           loaded |-> NewProjection, writes |-> {}]

RebuildInit ==
  /\ rebuilder = [r \in Rebuilders |-> Asleep]
  /\ projectionLock = [a \in Attempts |-> Unlocked]
  /\ raced = {}

\* select(AttemptRow.key)
StartRebuild(r) ==
  /\ rebuilder[r].step = "idle"
  /\ rebuilder' = [rebuilder EXCEPT ![r].step = "next",
                     ![r].todo = {a \in Attempts : row[a] # "ABSENT"}]
  /\ UNCHANGED <<projectionLock, raced>>

\* list_for_attempt
ReadEvents(r, a) ==
  /\ rebuilder[r].step = "next"
  /\ a \in rebuilder[r].todo
  /\ rebuilder' = [rebuilder EXCEPT ![r].step = "load", ![r].attempt = a,
                     ![r].todo = @ \ {a}, ![r].events = Events(a)]
  /\ UNCHANGED <<projectionLock, raced>>

LoadProjection(r) ==
  /\ rebuilder[r].step = "load"
  /\ rebuilder' = [rebuilder EXCEPT ![r].step = "write",
                     ![r].loaded = history[rebuilder[r].attempt].projection]
  /\ UNCHANGED <<projectionLock, raced>>

\* What an UPDATE of the changed columns makes of a row.
Merged(current, loaded, computed) ==
  [column \in DOMAIN current |->
     IF computed[column] # loaded[column] THEN computed[column] ELSE current[column]]

\* What a write does to the agreement of a projection with its events: it
\* restores it where nothing was appended since the events were read, or
\* written since the row was loaded; it leaves it where there was nothing to
\* correct; and otherwise it may break it.
Effect(r, computed) ==
  IF history[rebuilder[r].attempt] =
       [events |-> rebuilder[r].events, projection |-> rebuilder[r].loaded]
  THEN "restores"
  ELSE IF computed = rebuilder[r].loaded THEN "keeps" ELSE "races"

Written(r) ==
  LET current  == history[rebuilder[r].attempt].projection
      computed == Replay(rebuilder[r].events)
  IN  [attempt |-> rebuilder[r].attempt,
       projection |-> Merged(current, rebuilder[r].loaded, computed),
       effect |-> Effect(r, computed)]

\* Mutant: the write waits for nobody and makes nobody wait.
WriteUnlocked(r) ==
  /\ rebuilder[r].step = "write"
  /\ rebuilder' = [rebuilder EXCEPT ![r] =
       [Asleep EXCEPT !.step = "next", !.todo = rebuilder[r].todo,
                      !.writes = rebuilder[r].writes \cup {Written(r)}]]
  /\ UNCHANGED <<projectionLock, raced>>

\* _write_projection and its flush.
WriteProjection(r) ==
  /\ rebuilder[r].step = "write"
  /\ projectionLock[rebuilder[r].attempt] = Unlocked
  /\ projectionLock' = [projectionLock EXCEPT ![rebuilder[r].attempt] = r]
  /\ rebuilder' = [rebuilder EXCEPT ![r] =
       [Asleep EXCEPT !.step = "next", !.todo = rebuilder[r].todo,
                      !.writes = rebuilder[r].writes \cup {Written(r)}]]
  /\ UNCHANGED raced

Unlock(r) == projectionLock' = [a \in Attempts |->
               IF projectionLock[a] = r THEN Unlocked ELSE projectionLock[a]]

\* The commit.
CommitRebuild(r) ==
  LET writes(a) == {w \in rebuilder[r].writes : w.attempt = a}
      write(a)  == CHOOSE w \in writes(a) : TRUE
      touched   == {a \in Attempts : writes(a) # {}}
  IN  /\ rebuilder[r].step = "next" /\ rebuilder[r].todo = {}
      /\ history' = [a \in Attempts |->
           IF a \in touched
           THEN [history[a] EXCEPT !.projection = write(a).projection]
           ELSE history[a]]
      /\ raced' = {a \in Attempts :
                     IF a \in touched /\ write(a).effect # "keeps"
                     THEN write(a).effect = "races" ELSE a \in raced}
      /\ Unlock(r)
      /\ rebuilder' = [rebuilder EXCEPT ![r] = Asleep]

CrashRebuild(r) ==
  /\ rebuilder[r].step # "idle"
  /\ Unlock(r)
  /\ rebuilder' = [rebuilder EXCEPT ![r] = Asleep]
  /\ UNCHANGED raced

=============================================================================
