-------------------------- MODULE ConsoleProperties --------------------------
(***************************************************************************)
(* What a client may rely on when it submits and looks at its attempts.    *)
(***************************************************************************)
EXTENDS AttemptConsole

Steps == {"unsent", "received", "admitted", "flushed", "answered"}
Codes == Refused \cup {"none", "accepted"}

PublicPhases == {PublicPhase[p] : p \in DOMAIN PublicPhase}

IsListing(rows) ==
  /\ rows \in Seq([attempt : Attempts, phase : PublicPhases,
                  since : Nat])
  /\ Cardinality(Keys(rows)) = Len(rows)

\* The requests, lists and loads are what the code holds; no list shows an
\* attempt twice, and only stamped requests are in the database.
ConsoleTypeOK ==
  /\ \A r \in Attempts :
       /\ phase[r] \in Phases \cup {"ABSENT"} /\ projected[r] \in Phases
       /\ withdrawals[r] \in 0..MaxWithdrawals[r]
       /\ request[r].step \in Steps /\ request[r].code \in Codes
       /\ Committed(r) \/ Flushed(r) =>
            \E i \in DOMAIN stamped : stamped[i] = r
  /\ crashes \in 0..MaxCrashes
  /\ page \in Attempts \cup {"workspace"}
  /\ IsListing(shown)
  /\ \A slot \in Slots :
       /\ sync[slot].step \in {"off", "timer", "sent", "rows", "answered"}
       /\ IsListing(sync[slot].rows) /\ Len(sync[slot].rows) <= PageSize
       /\ sync[slot].told \subseteq Attempts
  /\ newest \in Slots \cup {"none"}
  /\ overtaken \subseteq told /\ awaiting \cup told \subseteq Attempts
  /\ details.phase \in PublicPhases \cup {NotShown}
  /\ details.loads \in [Loads -> PublicPhases \cup {"none", "sent"}]

Accepted(r) == request[r].step = "answered" /\ request[r].code = "accepted"

\* AttemptService.create and uq_attempt_actor_request: two requests of an account with one
\* key, however their transactions interleave, crash or are sent again, open
\* one attempt, and those that are accepted are answered with that attempt.
KeyedRequestsAgree ==
  \A r \in Attempts :
    /\ Accepted(r) => Committed(request[r].attempt)
    /\ \A s \in Siblings(r) :
         /\ ~(Committed(r) /\ Committed(s))
         /\ Accepted(r) /\ Accepted(s) => request[r].attempt = request[s].attempt

\* A request that loses the race for its key is refused with an error, but
\* only when the attempt of its sibling is there: to send it again is enough.
ConflictMeansSiblingOpened ==
  \A r \in Attempts :
    request[r].code = "conflict" =>
      ~Committed(r) /\ \E s \in Siblings(r) : Committed(s)

\* AttemptHistory: your submitted solutions will appear here.  An attempt the
\* page was told it queued is in its list, unless the answer that replaced the
\* list had been asked for before the page was told, or filled its page.
HiddenOnlyByStaleListing == told \ Keys(shown) \subseteq overtaken

EntryShown(a) ==
  LET i == CHOOSE i \in DOMAIN shown : shown[i].attempt = a
  IN  shown[i]

\* A listing never puts an older answer in the place of what is shown, nor
\* takes back a result of its own accord: if a result that the list has shown
\* changes, then the API has withdrawn it after it was read.  (The API may do
\* so: shown_result and two_results of EvaluationPipeline.)  A slow answer may
\* have been asked for before the one that is shown, and the phases are read
\* later than the rows.
ListingsKeepResults ==
  [][(\E slot \in Slots : Answered(slot)) =>
       \A a \in Keys(shown) \cap Keys(shown') :
         /\ EntryShown(a).since <= EntryShown(a)'.since
         /\ /\ EntryShown(a).phase \in FINISHED
            /\ EntryShown(a)'.phase # EntryShown(a).phase
            => EntryShown(a).since < EntryShown(a)'.since
    ]_vars

Unsettled(a) ==
  \/ a \in Keys(shown) /\ EntryShown(a).phase \notin FINISHED
  \/ page = a /\ details.phase \notin FINISHED \cup {NotShown}

\* Once the API shows a result of an attempt for good, no page shows it as
\* waiting or executing for ever, although requests fail, answers come late
\* and the timers stop and start: again and again the API shows no result of
\* it, or no page shows it unsettled.  (The row has a result for good; that
\* the API shows it for good is what shown_result refutes.)
ShownSettles ==
  \A a \in Attempts : []<>(projected[a] \in Results => ~Unsettled(a))

=============================================================================
