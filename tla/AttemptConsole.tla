--------------------------- MODULE AttemptConsole ---------------------------
(***************************************************************************)
(* The browser: the challenge page with its composer and its list of       *)
(* attempts (useChallengeWorkspace, AttemptComposer), and the page of one  *)
(* attempt (AttemptDetails), polling the API over a network that may be    *)
(* slow or fail.  Tabs, drafts and wording are left out; a tab can be left *)
(* and entered again, so that a submission does not wait for the last one. *)
(***************************************************************************)
EXTENDS AttemptIntake, AttemptViews, SequencesExt

CONSTANTS
  ComposerInput,  \* what the composer posts: no headers, so no request key
  PageSize,       \* 40 in the code
  MaxLoads,       \* how many loads of the page of an attempt overlap
  MaxWithdrawals  \* how often the API takes back the result of each attempt

ASSUME PageSizeAssumption       == PageSize \in 1..100
ASSUME MaxWithdrawalsAssumption == MaxWithdrawals \in [Attempts -> Nat]

VARIABLES
  page,       \* "workspace" or the attempt whose page is open
  shown,      \* the attempts of the workspace, the first one on top
  sync,       \* its two synchronisations: of the mount and of the poll
  newest,     \* the synchronisation that carries the latest generation
  awaiting,   \* the submissions whose answers the workspace waits for
  details,    \* the phase the page of the attempt shows, and its loads
  told,       \* the attempts this mount of the workspace was told it queued
  overtaken,  \* those of told that its list lacks for a reason: see Answered
  withdrawals \* history: how often the API has shown a result and then not

workspaceVars == <<shown, sync, newest, awaiting, told, overtaken>>
consoleVars   == <<page, workspaceVars, details>>
apiVars       == <<shownVars, intakeVars, withdrawals>>
vars          == <<apiVars, consoleVars>>

Slots == {"mount", "poll"}
Loads == 1..MaxLoads

\* What a list has of an attempt.  The third field is not in the code: the
\* withdrawals there were when this was read, which no guard looks at.
Entry(a, seenPhase, before) ==
  [attempt |-> a, phase |-> seenPhase, since |-> before]

\* The API shows the phase of the projection, not that of the row.
View(a) == Entry(a, public_phase(projected[a]), withdrawals[a])

\* A row without its projection: its own phase is never shown.
Bare(a) == Entry(a, "waiting", 0)

Keys(rows) == {rows[i].attempt : i \in DOMAIN rows}

Pending(rows) == \E i \in DOMAIN rows : rows[i].phase \notin FINISHED

Off      == [step |-> "off", rows |-> <<>>, told |-> {}]
NoLoads  == [l \in Loads |-> "none"]
NotShown == "loading"

\* Mounting synchronises at once, in a new generation.
MountWorkspace ==
  /\ page' = "workspace"
  /\ shown' = <<>>
  /\ sync' = [mount |-> [Off EXCEPT !.step = "sent"], poll |-> Off]
  /\ newest' = "mount"
  /\ awaiting' = {} /\ told' = {} /\ overtaken' = {}
  /\ details' = [phase |-> NotShown, loads |-> NoLoads]

ConsoleInit ==
  /\ ShownInit /\ IntakeInit
  /\ withdrawals = [a \in Attempts |-> 0]
  /\ page = "workspace"
  /\ shown = <<>>
  /\ sync = [mount |-> [Off EXCEPT !.step = "sent"], poll |-> Off]
  /\ newest = "mount"
  /\ awaiting = {} /\ told = {} /\ overtaken = {}
  /\ details = [phase |-> NotShown, loads |-> NoLoads]

-----------------------------------------------------------------------------
(* The list of the workspace.                                               *)

\* The effect on hasPending: it starts its timer when something becomes
\* pending, and stops it when nothing is; it does not stop a request.
Rescheduled(poll, rows) ==
  CASE Pending(rows) /\ poll.step = "off"    -> [Off EXCEPT !.step = "timer"]
    [] ~Pending(rows) /\ poll.step = "timer" -> Off
    [] OTHER                                 -> poll

\* The rows of the first page, newest first.
NewestRows ==
  PageOf(Where(Reverse(stamped), {a \in Attempts : Committed(a)}), 1, PageSize)

Tick ==
  /\ sync["poll"].step = "timer"
  /\ sync' = [sync EXCEPT !["poll"] =
       [Off EXCEPT !.step = "sent", !.told = told]]
  /\ newest' = "poll"
  /\ UNCHANGED <<shown, awaiting, told, overtaken>>

ListRows(slot) ==
  /\ sync[slot].step = "sent"
  /\ sync' = [sync EXCEPT
       ![slot].step = "rows",
       ![slot].rows = [i \in DOMAIN NewestRows |-> Bare(NewestRows[i])]]
  /\ UNCHANGED <<shown, newest, awaiting, told, overtaken>>

\* Their projections are another statement, of a later moment.
ReadPhases(slot) ==
  /\ sync[slot].step = "rows"
  /\ sync' = [sync EXCEPT
       ![slot].step = "answered",
       ![slot].rows = [i \in DOMAIN @ |-> View(@[i].attempt)]]
  /\ UNCHANGED <<shown, newest, awaiting, told, overtaken>>

\* A poll that has its answer, or an error, sets its timer again.
Ended(slot, rows) ==
  [sync EXCEPT
     ![slot]  = Off,
     !["poll"] = Rescheduled(IF slot = "poll" THEN Off ELSE @, rows)]

\* Mutant: an answer is taken whatever generation it is of.
AnsweredAnyway(slot) ==
  /\ sync[slot].step = "answered"
  /\ shown' = sync[slot].rows
  /\ sync' = Ended(slot, shown')
  /\ overtaken' = {a \in told \ Keys(shown') :
       a \notin sync[slot].told \/ Len(shown') = PageSize}
  /\ UNCHANGED <<newest, awaiting, told>>

\* Only the latest generation is shown.  It replaces the list: an attempt that
\* was queued after it was asked for is gone until the next one.
Answered(slot) ==
  /\ sync[slot].step = "answered"
  /\ shown' = IF slot = newest THEN sync[slot].rows ELSE shown
  /\ sync' = Ended(slot, shown')
  /\ overtaken' =
       IF slot = newest
       THEN {a \in told \ Keys(shown') :
               a \notin sync[slot].told \/ Len(shown') = PageSize}
       ELSE overtaken
  /\ UNCHANGED <<newest, awaiting, told>>

\* Mutant: a poll that failed does not set its timer again.
FailedForGood(slot) ==
  /\ sync[slot].step = "answered"
  /\ sync' = [sync EXCEPT ![slot] = Off]
  /\ UNCHANGED <<shown, newest, awaiting, told, overtaken>>

\* A timeout of the transport, a broken connection, or an answer that is an
\* error.  To the console it does not matter how far the API had come.
Failed(slot) ==
  /\ sync[slot].step = "answered"
  /\ sync' = Ended(slot, shown)
  /\ UNCHANGED <<shown, newest, awaiting, told, overtaken>>

SyncStep ==
  \/ Tick
  \/ \E slot \in Slots :
       ListRows(slot) \/ ReadPhases(slot) \/ Answered(slot) \/ Failed(slot)

-----------------------------------------------------------------------------
(* The composer.                                                            *)

Submit(r) ==
  /\ page = "workspace"
  /\ Send(r, ComposerInput)
  /\ awaiting' = awaiting \cup {r}
  /\ UNCHANGED <<page, shown, sync, newest, told, overtaken, details,
                 withdrawals>>

\* Mutant: the new attempt takes the place of the list.
QueuedAlone(a) == <<Bare(a)>>

\* Mutant: the new attempt is put before the list, which may have it already.
QueuedTwice(a) == <<Bare(a)>> \o shown

\* The "queued" dispatch puts the attempt on top, as the answer shows it: it
\* has no request key, so it was just inserted, and is waiting.
Queued(a) ==
  <<Bare(a)>> \o
    Where(shown, {entry \in Range(shown) : entry.attempt # a})

ReceiveAnswer(r) ==
  /\ r \in awaiting
  /\ request[r].step = "answered"
  /\ awaiting' = awaiting \ {r}
  /\ IF request[r].code = "accepted"
     THEN LET a == request[r].attempt
          IN  /\ shown' = Queued(a)
              /\ sync' = [sync EXCEPT !["poll"] = Rescheduled(@, shown')]
              /\ told' = told \cup {a}
              /\ overtaken' = overtaken \ {a}
     ELSE UNCHANGED <<shown, sync, told, overtaken>>
  /\ UNCHANGED <<page, newest, details, apiVars>>

\* The transport gives up after its deadline or on a broken connection; the
\* API goes on with what it received.
GiveUp(r) ==
  /\ r \in awaiting
  /\ awaiting' = awaiting \ {r}
  /\ UNCHANGED <<page, shown, sync, newest, told, overtaken, details,
                 apiVars>>

-----------------------------------------------------------------------------
(* The page of one attempt.                                                 *)

\* A link of the list: the workspace unmounts and takes no answer any more.
OpenDetails(a) ==
  /\ page = "workspace"
  /\ a \in Keys(shown)
  /\ page' = a
  /\ details' = [phase |-> NotShown, loads |-> [NoLoads EXCEPT ![1] = "sent"]]
  /\ shown' = <<>>
  /\ sync' = [slot \in Slots |-> Off]
  /\ newest' = "none"
  /\ awaiting' = {} /\ told' = {} /\ overtaken' = {}

BackToWorkspace == page # "workspace" /\ MountWorkspace

\* setInterval does not wait for the last load: loads overlap.
LoadAgain ==
  /\ page # "workspace"
  /\ details.phase \notin FINISHED \cup {NotShown}
  /\ \E l \in Loads :
       /\ details.loads[l] = "none"
       /\ \A k \in Loads : k < l => details.loads[k] # "none"
       /\ details' = [details EXCEPT !.loads[l] = "sent"]
  /\ UNCHANGED <<page, workspaceVars>>

ReadDetails(l) ==
  /\ details.loads[l] = "sent"
  /\ details' = [details EXCEPT !.loads[l] = public_phase(projected[page])]
  /\ UNCHANGED <<page, workspaceVars>>

\* Answers are shown in the order they arrive, and no answer is too old.
ShowDetails(l) ==
  /\ details.loads[l] \notin {"none", "sent"}
  /\ details' = [phase |-> details.loads[l],
                 loads |-> [details.loads EXCEPT ![l] = "none"]]
  /\ UNCHANGED <<page, workspaceVars>>

\* The error is shown; without an attempt there is no interval to load again.
FailDetails(l) ==
  /\ details.loads[l] \notin {"none", "sent"}
  /\ details' = [details EXCEPT !.loads[l] = "none"]
  /\ UNCHANGED <<page, workspaceVars>>

DetailsStep ==
  \/ LoadAgain
  \/ \E l \in Loads : ReadDetails(l) \/ ShowDetails(l) \/ FailDetails(l)

-----------------------------------------------------------------------------

\* A step of the server, and what it takes back of what the API has shown.
Withdraws(a) ==
  projected[a] \in TERMINAL_STATUSES /\ projected'[a] # projected[a]

Withdraw ==
  /\ withdrawals' = [a \in Attempts |->
       IF Withdraws(a) THEN withdrawals[a] + 1 ELSE withdrawals[a]]
  /\ \A a \in Attempts : withdrawals'[a] <= MaxWithdrawals[a]

ServerStep ==
  /\ \/ IntakeStep
     \/ JudgingStep
     \/ \E r \in Attempts, input \in Inputs : Send(r, input)
  /\ Withdraw
  /\ UNCHANGED consoleVars

ConsoleStep ==
  /\ \/ SyncStep /\ UNCHANGED <<page, details>>
     \/ DetailsStep
     \/ \E a \in Attempts : OpenDetails(a)
     \/ BackToWorkspace
  /\ UNCHANGED apiVars

ComposerStep == \E r \in Attempts : Submit(r) \/ ReceiveAnswer(r) \/ GiveUp(r)

ConsoleNext == ServerStep \/ ConsoleStep \/ ComposerStep

ConsoleSpec == ConsoleInit /\ [][ConsoleNext]_vars

\* The steps with which a page that polls gets its next answer.
PollingStep ==
  \/ /\ Tick \/ ListRows("poll") \/ ReadPhases("poll")
     /\ UNCHANGED <<page, details, apiVars>>
  \/ /\ LoadAgain \/ \E l \in Loads : ReadDetails(l)
     /\ UNCHANGED apiVars

ShowPoll ==
  Answered("poll") /\ UNCHANGED <<page, details, apiVars>>

ShowLoad(l) == ShowDetails(l) /\ UNCHANGED apiVars

\* Timers fire and the API reads; of answers without end some arrive.  Nobody
\* has to submit, and nothing is assumed of the judging.
ConsoleFairness ==
  /\ WF_vars(PollingStep)
  /\ SF_vars(ShowPoll)
  /\ \A l \in Loads : SF_vars(ShowLoad(l))

FairConsoleSpec == ConsoleSpec /\ ConsoleFairness

=============================================================================
