---------------------------- MODULE ConsoleProofs ----------------------------
(***************************************************************************)
(* The list of the workspace misses no attempt without a reason and takes  *)
(* back no result of its own accord, for every number of attempts, page    *)
(* size, and order in which the answers of the API arrive.                 *)
(***************************************************************************)
EXTENDS IntakeProofs, FiniteSetTheorems

USE PageSizeAssumption, MaxCrashesAssumption, VerdictsAreTerminal

SyncSteps == {"off", "timer", "sent", "rows", "answered"}
Row       == [attempt : Attempts, phase : PublicPhases, since : Nat]
Rows      == Seq(Row)
Syncs     == [step : SyncSteps, rows : Rows, told : SUBSET Attempts]

\* What the API knows of each attempt.
Api ==
  [a \in Attempts |-> [open |-> Committed(a), phase |-> projected[a],
                       withdrawn |-> withdrawals[a]]]

ApiTypes ==
  /\ projected \in [Attempts -> Phases]
  /\ withdrawals \in [Attempts -> Nat]
  /\ \A a \in Attempts : withdrawals[a] <= MaxWithdrawals[a]

StampTypes ==
  /\ stamped \in Seq(Attempts)
  /\ crashes \in 0..MaxCrashes

WorkspaceTypes ==
  /\ page \in Attempts \cup {"workspace"}
  /\ shown \in Rows
  /\ sync \in [Slots -> Syncs]
  /\ newest \in Slots \cup {"none"}
  /\ awaiting \in SUBSET Attempts
  /\ told \in SUBSET Attempts
  /\ overtaken \in SUBSET told
  /\ details \in [phase : PublicPhases \cup {NotShown},
                  loads : [Loads -> PublicPhases \cup {"none", "sent"}]]

\* The attempts in the order of their created_at, each once, and no other.
StampInvariant ==
  /\ \A i, j \in DOMAIN stamped : stamped[i] = stamped[j] => i = j
  /\ \A i \in DOMAIN stamped :
       request[stamped[i]].step \in {"admitted", "flushed", "answered"}
  /\ \A r \in Attempts :
       request[r].step \in {"admitted", "flushed"} \/ Committed(r) =>
         \E i \in DOMAIN stamped : stamped[i] = r

Distinct(rows) ==
  \A i, j \in DOMAIN rows : rows[i].attempt = rows[j].attempt => i = j

\* A row is of a committed attempt, and a result it shows is what the API still
\* shows, unless that was withdrawn since.
Truthful(api, entry) ==
  /\ api[entry.attempt].open
  /\ entry.since <= api[entry.attempt].withdrawn
  /\ entry.phase \in FINISHED /\ entry.since = api[entry.attempt].withdrawn =>
       entry.phase = public_phase(api[entry.attempt].phase)

AllTruthful(api, rows) == \A i \in DOMAIN rows : Truthful(api, rows[i])

\* What was known before the request is in its answer, or the page is full.
Complete(s) ==
  \A a \in s.told : a \in Keys(s.rows) \/ Len(s.rows) = PageSize

\* An entry is not older than another, and shows its result if it is as old.
Follows(entry, earlier) ==
  /\ earlier.since <= entry.since
  /\ earlier.phase \in FINISHED /\ entry.phase # earlier.phase =>
       earlier.since < entry.since

\* An answer is not older than what is on the screen.
NotOlder(screen, rows) ==
  \A i \in DOMAIN screen, j \in DOMAIN rows :
    screen[i].attempt = rows[j].attempt => Follows(rows[j], screen[i])

SoundSync(api, s) ==
  /\ Distinct(s.rows) /\ Len(s.rows) <= PageSize
  /\ AllTruthful(api, s.rows)
  /\ \A a \in s.told : api[a].open
  /\ s.step \in {"rows", "answered"} => Complete(s)

\* Only the latest generation is shown, and its phases were read after those
\* that are shown.
SyncInvariant ==
  \A slot \in Slots :
    /\ SoundSync(Api, sync[slot])
    /\ newest = slot /\ sync[slot].step = "answered" =>
         NotOlder(shown, sync[slot].rows)

ShownInvariant ==
  /\ Distinct(shown)
  /\ AllTruthful(Api, shown)
  /\ \A a \in told : Api[a].open
  /\ HiddenOnlyByStaleListing

DetailsInvariant ==
  page # "workspace" \/ (\E l \in Loads : details.loads[l] # "none") =>
    page \in Attempts /\ phase[page] # "ABSENT"

ConsoleInvariant ==
  /\ ApiTypes
  /\ StampTypes
  /\ StampInvariant
  /\ WorkspaceTypes
  /\ ShownInvariant
  /\ SyncInvariant
  /\ DetailsInvariant

-----------------------------------------------------------------------------
(* Induction over the natural numbers, with a set for the hypothesis.       *)

LEMMA LeastNumber ==
  ASSUME NEW T \in SUBSET Nat, T # {}
  PROVE  \E x \in T : \A y \in T : x <= y
<1> DEFINE R == {p \in Nat \X Nat : p[1] < p[2]}
<1>1. IsWellFoundedOn(R, Nat)
  BY NatLessThanWellFounded DEF OpToRel
<1>2. ASSUME NEW x \in T, NEW y \in T, y < x PROVE <<y, x>> \in R
  <2>1. <<y, x>> \in Nat \X Nat /\ <<y, x>>[1] = y /\ <<y, x>>[2] = x
    OBVIOUS
  <2>2. QED
    BY <1>2, <2>1
<1> HIDE DEF R
<1>3. PICK x \in T : \A y \in T : ~ (<<y, x>> \in R)
  BY <1>1, WFMin
<1>4. \A y \in T : ~ (y < x)
  BY <1>2, <1>3
<1>5. \A y \in T : x <= y
  BY <1>4
<1>6. QED
  BY <1>5

LEMMA SetInduction ==
  ASSUME NEW T \in SUBSET Nat, 0 \in T, \A n \in T : n + 1 \in T
  PROVE  T = Nat
<1> SUFFICES ASSUME Nat \ T # {} PROVE FALSE
  OBVIOUS
<1>1. PICK x \in Nat \ T : \A y \in Nat \ T : x <= y
  BY LeastNumber
<1>2. x \in Nat /\ x # 0 /\ x - 1 \in Nat /\ ~ (x <= x - 1)
  OBVIOUS
<1>3. x - 1 \in T
  BY <1>1, <1>2
<1>4. (x - 1) + 1 \in T
  BY <1>3
<1>5. QED
  BY <1>2, <1>4

-----------------------------------------------------------------------------
(* The rows of a query.                                                     *)

\* What Where computes on the first n rows.
IsFound(f, rows, wanted, n) ==
  f = [k \in 0..n |->
         IF k = 0 THEN <<>>
         ELSE IF rows[k] \in wanted THEN Append(f[k - 1], rows[k])
         ELSE f[k - 1]]

LEMMA WhereIsFound ==
  ASSUME NEW rows, NEW wanted
  PROVE  Where(rows, wanted) =
           (CHOOSE f : IsFound(f, rows, wanted, Len(rows)))[Len(rows)]
BY DEF Where, IsFound

LEMMA FoundExists ==
  ASSUME NEW rows, NEW wanted, NEW n \in Nat
  PROVE  \E f : IsFound(f, rows, wanted, n)
<1> DEFINE T == {k \in Nat : \E f : IsFound(f, rows, wanted, k)}
<1>1. 0 \in T
  <2> DEFINE f == [k \in 0..0 |-> <<>>]
  <2>1. IsFound(f, rows, wanted, 0)
    BY DEF IsFound
  <2>2. QED
    BY <2>1
<1>2. ASSUME NEW k \in T PROVE k + 1 \in T
  <2>1. k \in Nat
    OBVIOUS
  <2>2. PICK f : IsFound(f, rows, wanted, k)
    OBVIOUS
  <2> DEFINE g == [i \in 0..k + 1 |->
                     IF i = k + 1
                     THEN IF rows[k + 1] \in wanted
                          THEN Append(f[k], rows[k + 1]) ELSE f[k]
                     ELSE f[i]]
  <2>3. ASSUME NEW i \in 0..k + 1
        PROVE  g[i] = IF i = 0 THEN <<>>
                      ELSE IF rows[i] \in wanted
                      THEN Append(g[i - 1], rows[i]) ELSE g[i - 1]
    <3>1. CASE i = k + 1
      BY <2>1, <3>1
    <3>2. CASE i # k + 1
      <4>1. i \in 0..k /\ g[i] = f[i] /\ (i # 0 => i - 1 \in 0..k /\ g[i - 1] = f[i - 1])
        BY <2>1, <3>2
      <4>2. f[i] = IF i = 0 THEN <<>>
                   ELSE IF rows[i] \in wanted
                   THEN Append(f[i - 1], rows[i]) ELSE f[i - 1]
        BY <2>2, <4>1 DEF IsFound
      <4> HIDE DEF g
      <4>3. QED
        BY <4>1, <4>2
    <3>3. QED
      BY <3>1, <3>2
  <2>4. IsFound(g, rows, wanted, k + 1)
    <3>1. g = [i \in 0..k + 1 |-> g[i]]
      OBVIOUS
    <3> HIDE DEF g
    <3>2. QED
      BY <2>3, <3>1 DEF IsFound
  <2> HIDE DEF g
  <2>5. QED
    BY <2>1, <2>4
<1>3. QED
  <2>1. T \in SUBSET Nat
    OBVIOUS
  <2> HIDE DEF T
  <2>2. n \in T
    BY <1>1, <1>2, <2>1, SetInduction
  <2>3. QED
    BY <2>2 DEF T

\* found picks the wanted ones of the first n rows, at positions at, each once.
Picks(found, at, S, rows, wanted, n) ==
  /\ found \in Seq(S)
  /\ at \in [1..Len(found) -> 1..n]
  /\ \A i, j \in 1..Len(found) : at[i] = at[j] => i = j
  /\ \A i \in 1..Len(found) : found[i] = rows[at[i]] /\ found[i] \in wanted
  /\ \A j \in 1..n : rows[j] \in wanted => \E i \in 1..Len(found) : at[i] = j

LEMMA PicksNext ==
  ASSUME NEW S, NEW rows, NEW wanted, NEW n \in Nat, NEW found, NEW at,
         Picks(found, at, S, rows, wanted, n), rows[n + 1] \in S
  PROVE  \E next : Picks(IF rows[n + 1] \in wanted
                         THEN Append(found, rows[n + 1]) ELSE found,
                         next, S, rows, wanted, n + 1)
<1> DEFINE x == rows[n + 1]
           l == Len(found)
<1>1. found \in Seq(S) /\ l \in Nat /\ x \in S
  BY DEF Picks
<1>2. CASE x \notin wanted
  <2>1. Picks(found, at, S, rows, wanted, n + 1)
    BY <1>1, <1>2 DEF Picks
  <2>2. QED
    BY <1>2, <2>1
<1>3. CASE x \in wanted
  <2> DEFINE more == Append(found, x)
             next == [i \in 1..l + 1 |-> IF i = l + 1 THEN n + 1 ELSE at[i]]
  <2>1. /\ more \in Seq(S) /\ Len(more) = l + 1 /\ more[l + 1] = x
        /\ \A i \in 1..l : more[i] = found[i]
    BY <1>1
  <2>2. /\ next[l + 1] = n + 1 /\ l + 1 \in 1..l + 1
        /\ \A i \in 1..l : next[i] = at[i] /\ at[i] \in 1..n /\ i \in 1..l + 1
        /\ \A i \in 1..l + 1 : i \in 1..l \/ i = l + 1
    <3>1. \A i \in 1..l : at[i] \in 1..n
      BY DEF Picks
    <3> HIDE DEF l
    <3>2. /\ l + 1 \in 1..l + 1
          /\ \A i \in 1..l : i \in 1..l + 1 /\ i # l + 1
          /\ \A i \in 1..l + 1 : i \in 1..l \/ i = l + 1
      BY <1>1
    <3>3. QED
      BY <3>1, <3>2
  <2>3. next \in [1..l + 1 -> 1..n + 1]
    <3>1. next = [i \in 1..l + 1 |-> next[i]]
      OBVIOUS
    <3> HIDE DEF next
    <3>2. \A i \in 1..l : next[i] \in 1..n + 1
      <4>1. \A k \in 1..n : k \in 1..n + 1
        OBVIOUS
      <4>2. QED
        BY <2>2, <4>1
    <3>3. \A i \in 1..l + 1 : next[i] \in 1..n + 1
      BY <2>2, <3>2
    <3>4. QED
      BY <3>1, <3>3
  <2> HIDE DEF next, more
  <2>4. \A i, j \in 1..l + 1 : next[i] = next[j] => i = j
    <3>1. n + 1 \notin 1..n /\ \A i, j \in 1..l : at[i] = at[j] => i = j
      BY DEF Picks
    <3>2. QED
      BY <2>2, <3>1
  <2>5. \A i \in 1..l + 1 : more[i] = rows[next[i]] /\ more[i] \in wanted
    <3>1. \A i \in 1..l : found[i] = rows[at[i]] /\ found[i] \in wanted
      BY DEF Picks
    <3>2. QED
      BY <1>3, <2>1, <2>2, <3>1
  <2>6. ASSUME NEW j \in 1..n + 1, rows[j] \in wanted
        PROVE  \E i \in 1..l + 1 : next[i] = j
    <3>1. CASE j = n + 1
      BY <2>2, <3>1
    <3>2. CASE j # n + 1
      <4>1. j \in 1..n
        BY <3>2
      <4>2. PICK i \in 1..l : at[i] = j
        BY <2>6, <4>1 DEF Picks
      <4>3. QED
        BY <2>2, <4>2
    <3>3. QED
      BY <3>1, <3>2
  <2>7. Picks(more, next, S, rows, wanted, n + 1)
    BY <2>1, <2>3, <2>4, <2>5, <2>6 DEF Picks
  <2>8. QED
    BY <1>3, <2>7 DEF more
<1>4. QED
  BY <1>2, <1>3

\* The rows of a query are the wanted ones, each once, and all of them.
LEMMA WherePicks ==
  ASSUME NEW S, NEW rows \in Seq(S), NEW wanted
  PROVE  \E at : Picks(Where(rows, wanted), at, S, rows, wanted, Len(rows))
<1> DEFINE L == Len(rows)
           f == CHOOSE g : IsFound(g, rows, wanted, L)
           T == {n \in Nat : n <= L => \E at : Picks(f[n], at, S, rows, wanted, n)}
<1>1. L \in Nat /\ \A k \in 1..L : rows[k] \in S
  OBVIOUS
<1>2. IsFound(f, rows, wanted, L)
  BY <1>1, FoundExists
<1>3. Where(rows, wanted) = f[L]
  BY WhereIsFound
<1> HIDE DEF L, f
<1>4. 0 \in T
  <2> DEFINE none == [i \in 1..0 |-> 0]
  <2>1. f[0] = <<>>
    BY <1>1, <1>2 DEF IsFound
  <2>2. Picks(<<>>, none, S, rows, wanted, 0)
    BY DEF Picks
  <2>3. QED
    BY <2>1, <2>2
<1>5. ASSUME NEW n \in T PROVE n + 1 \in T
  <2> SUFFICES ASSUME n + 1 <= L
               PROVE  \E at : Picks(f[n + 1], at, S, rows, wanted, n + 1)
    OBVIOUS
  <2>1. n \in Nat /\ n <= L /\ n + 1 \in 1..L
    BY <1>1
  <2>2. PICK at : Picks(f[n], at, S, rows, wanted, n)
    BY <2>1
  <2>3. f[n + 1] = IF rows[n + 1] \in wanted
                   THEN Append(f[n], rows[n + 1]) ELSE f[n]
    <3>1. n + 1 \in 0..L /\ n + 1 # 0 /\ (n + 1) - 1 = n
      BY <1>1, <2>1
    <3>2. QED
      BY <1>2, <3>1 DEF IsFound
  <2>4. QED
    BY <1>1, <2>1, <2>2, <2>3, PicksNext
<1>6. L \in T
  <2>1. T \in SUBSET Nat
    OBVIOUS
  <2> HIDE DEF T
  <2>2. QED
    BY <1>1, <1>4, <1>5, <2>1, SetInduction
<1>7. QED
  BY <1>1, <1>3, <1>6 DEF L

\* The first page has the first rows, PageSize at most.
LEMMA FirstPage ==
  ASSUME NEW S, NEW rows \in Seq(S)
  PROVE  PageOf(rows, 1, PageSize) = SubSeq(rows, 1, Least(PageSize, Len(rows)))
<1> DEFINE L == Len(rows)
           pages == (L + PageSize - 1) \div PageSize
<1>1. L \in Nat /\ PageSize \in Nat /\ PageSize >= 1 /\ PageSize <= 100
  OBVIOUS
<1>2. PageLength(PageSize) = PageSize
  BY <1>1 DEF PageLength, Least, Most
<1>3. pages \in Int
  BY <1>1
<1> HIDE DEF L
<1>4. PageCount(L, PageSize) = Most(1, pages)
  BY <1>2 DEF PageCount
<1> HIDE DEF pages
<1>5. CurrentPage(1, L, PageSize) = 1
  BY <1>3, <1>4 DEF CurrentPage, Least, Most
<1>6. Offset(1, L, PageSize) = 0
  BY <1>1, <1>2, <1>5 DEF Offset
<1>7. PageOf(rows, 1, PageSize) =
        SubSeq(rows, 0 + 1, Least(0 + PageSize, L))
  BY <1>2, <1>6 DEF PageOf, L
<1>8. QED
  BY <1>1, <1>7 DEF L

\* The listing has committed attempts, each once, and unless it is a full page
\* it has all of them.
LEMMA NewestRowsAreCommitted ==
  ASSUME StampTypes, StampInvariant
  PROVE  /\ NewestRows \in Seq(Attempts)
         /\ Len(NewestRows) <= PageSize
         /\ \A i \in DOMAIN NewestRows : Committed(NewestRows[i])
         /\ \A i, j \in DOMAIN NewestRows : NewestRows[i] = NewestRows[j] => i = j
         /\ Len(NewestRows) = PageSize
              \/ \A a \in Attempts : Committed(a) =>
                   \E i \in DOMAIN NewestRows : NewestRows[i] = a
<1> DEFINE L == Len(stamped)
           back == Reverse(stamped)
           wanted == {a \in Attempts : Committed(a)}
           found == Where(back, wanted)
           F == Len(found)
           P == Least(PageSize, F)
<1>1. /\ L \in Nat /\ DOMAIN stamped = 1..L /\ stamped \in Seq(Attempts)
      /\ PageSize \in Nat /\ PageSize >= 1
  BY DEF StampTypes
<1>2. /\ back \in Seq(Attempts) /\ Len(back) = L
      /\ \A i \in 1..L : back[i] = stamped[(L - i) + 1]
  BY <1>1 DEF Reverse
<1> HIDE DEF L, back
<1>3. ASSUME NEW i \in 1..L, NEW j \in 1..L, back[i] = back[j] PROVE i = j
  <2>1. (L - i) + 1 \in 1..L /\ (L - j) + 1 \in 1..L
    BY <1>1
  <2>2. stamped[(L - i) + 1] = stamped[(L - j) + 1]
    BY <1>2, <1>3
  <2>3. (L - i) + 1 = (L - j) + 1
    BY <1>1, <2>1, <2>2 DEF StampInvariant
  <2>4. QED
    BY <1>1, <2>3
<1>4. ASSUME NEW a \in wanted PROVE \E j \in 1..L : back[j] = a
  <2>1. PICK i \in 1..L : stamped[i] = a
    BY <1>1 DEF StampInvariant
  <2>2. (L - i) + 1 \in 1..L /\ (L - ((L - i) + 1)) + 1 = i
    BY <1>1
  <2>3. QED
    BY <1>2, <2>1, <2>2
<1>5. NewestRows = PageOf(found, 1, PageSize)
  BY DEF NewestRows, back
<1>6. PICK at : Picks(found, at, Attempts, back, wanted, L)
  BY <1>2, WherePicks
<1> HIDE DEF wanted, found
<1>7. /\ found \in Seq(Attempts) /\ F \in Nat
      /\ \A i \in 1..F : found[i] \in wanted /\ at[i] \in 1..L
      /\ \A i \in 1..F : found[i] = back[at[i]]
  BY <1>6 DEF Picks
<1>8. ASSUME NEW i \in 1..F, NEW j \in 1..F, found[i] = found[j] PROVE i = j
  <2>1. at[i] = at[j]
    BY <1>3, <1>7, <1>8
  <2>2. QED
    BY <1>6, <2>1 DEF Picks
<1>9. ASSUME NEW a \in wanted PROVE \E i \in 1..F : found[i] = a
  <2>1. PICK j \in 1..L : back[j] = a
    BY <1>4
  <2>2. PICK i \in 1..F : at[i] = j
    BY <1>6, <2>1 DEF Picks
  <2>3. QED
    BY <1>7, <2>1, <2>2
<1>10. NewestRows = SubSeq(found, 1, P)
  BY <1>5, <1>7, FirstPage
<1> HIDE DEF F
<1>11. P \in Nat /\ P <= F /\ P <= PageSize /\ (P = PageSize \/ P = F)
  BY <1>1, <1>7 DEF Least
<1> HIDE DEF P
<1>12. /\ NewestRows \in Seq(Attempts) /\ Len(NewestRows) = P
       /\ DOMAIN NewestRows = 1..P
       /\ \A i \in 1..P : NewestRows[i] = found[i] /\ i \in 1..F
  BY <1>7, <1>10, <1>11 DEF F
<1>13. \A i \in 1..P : Committed(NewestRows[i])
  BY <1>7, <1>12 DEF wanted
<1>14. \A i, j \in 1..P : NewestRows[i] = NewestRows[j] => i = j
  BY <1>8, <1>12
<1>15. ASSUME P = F, NEW a \in Attempts, Committed(a)
       PROVE  \E i \in 1..P : NewestRows[i] = a
  <2>1. a \in wanted
    BY <1>15 DEF wanted
  <2>2. QED
    BY <1>9, <1>12, <1>15, <2>1
<1>16. QED
  BY <1>11, <1>12, <1>13, <1>14, <1>15

-----------------------------------------------------------------------------
(* What the API says of an attempt.                                         *)

\* A public phase is finished when the phase of the attempt is a result.
LEMMA PublicPhasesAreResults ==
  ASSUME NEW p \in Phases
  PROVE  /\ public_phase(p) \in PublicPhases
         /\ public_phase(p) \in FINISHED <=> p \in TERMINAL_STATUSES
<1>1. p \in DOMAIN PublicPhase
  BY DEF Phases, TERMINAL_STATUSES, PublicPhase
<1>2. public_phase(p) \in PublicPhases
  BY <1>1 DEF public_phase, PublicPhases
<1>3. public_phase(p) \in FINISHED <=> p \in TERMINAL_STATUSES
  BY DEF Phases, TERMINAL_STATUSES, PublicPhase, public_phase, FINISHED
<1>4. QED
  BY <1>2, <1>3

LEMMA WaitingIsNotFinished ==
  "waiting" \in PublicPhases /\ "waiting" \notin FINISHED
  /\ "none" \notin FINISHED /\ NotShown \notin FINISHED
<1>1. public_phase("QUEUED") = "waiting" /\ "QUEUED" \in Phases
  BY DEF public_phase, PublicPhase, Phases
<1>2. QED
  BY <1>1, PublicPhasesAreResults DEF FINISHED, NotShown

LEMMA ApiOf ==
  ASSUME NEW a \in Attempts
  PROVE  /\ Api[a].open <=> Committed(a)
         /\ Api[a].phase = projected[a] /\ Api[a].withdrawn = withdrawals[a]
BY DEF Api

\* What is read now is true now, and is the newest there is.
LEMMA ViewIsTruthful ==
  ASSUME ApiTypes, NEW a \in Attempts, Committed(a)
  PROVE  /\ View(a) \in Row /\ View(a).attempt = a /\ Truthful(Api, View(a))
         /\ \A entry \in Row : entry.attempt = a /\ Truthful(Api, entry) =>
              Follows(View(a), entry)
<1>1. public_phase(projected[a]) \in PublicPhases /\ withdrawals[a] \in Nat
  BY PublicPhasesAreResults DEF ApiTypes
<1>2. /\ View(a) \in Row /\ View(a).attempt = a
      /\ View(a).phase = public_phase(projected[a])
      /\ View(a).since = withdrawals[a]
  BY <1>1 DEF View, Entry, Row
<1>3. Truthful(Api, View(a))
  BY <1>1, <1>2, ApiOf DEF Truthful
<1>4. ASSUME NEW entry \in Row, entry.attempt = a, Truthful(Api, entry)
      PROVE  Follows(View(a), entry)
  <2>1. entry.since \in Nat /\ entry.since <= withdrawals[a]
    BY <1>4, ApiOf DEF Row, Truthful
  <2>2. entry.phase \in FINISHED /\ entry.since = withdrawals[a] =>
          entry.phase = View(a).phase
    BY <1>2, <1>4, ApiOf DEF Truthful
  <2>3. QED
    BY <1>1, <1>2, <2>1, <2>2 DEF Follows
<1>5. QED
  BY <1>2, <1>3, <1>4

LEMMA BareIsTruthful ==
  ASSUME ApiTypes, NEW a \in Attempts
  PROVE  /\ Bare(a) \in Row /\ Bare(a).attempt = a /\ Bare(a).since = 0
         /\ Bare(a).phase \notin FINISHED
         /\ Committed(a) => Truthful(Api, Bare(a))
<1>1. /\ Bare(a).attempt = a /\ Bare(a).phase = "waiting" /\ Bare(a).since = 0
      /\ Bare(a) \in Row
  BY WaitingIsNotFinished DEF Bare, Entry, Row
<1>2. withdrawals[a] \in Nat
  BY DEF ApiTypes
<1>3. QED
  BY <1>1, <1>2, WaitingIsNotFinished, ApiOf DEF Truthful

-----------------------------------------------------------------------------
(* The list with a new attempt.                                             *)

LEMMA QueuedIsFirst ==
  ASSUME shown \in Rows, Distinct(shown), NEW a \in Attempts
  PROVE  /\ Queued(a) \in Rows
         /\ Distinct(Queued(a))
         /\ a \in Keys(Queued(a)) /\ Keys(shown) \subseteq Keys(Queued(a))
         /\ \A i \in DOMAIN Queued(a) :
              \/ Queued(a)[i] = Bare(a)
              \/ \E j \in DOMAIN shown : Queued(a)[i] = shown[j]
<1> DEFINE others == {entry \in Range(shown) : entry.attempt # a}
           rest == Where(shown, others)
           L == Len(shown)
           R == Len(rest)
           first == Bare(a)
           queued == <<first>> \o rest
<1>1. shown \in Seq(Row) /\ L \in Nat /\ DOMAIN shown = 1..L
  BY DEF Rows
<1>2. first \in Row /\ first.attempt = a
  BY WaitingIsNotFinished DEF Bare, Entry, Row
<1>3. \A j \in 1..L : shown[j].attempt # a => shown[j] \in others
  BY <1>1 DEF Range
<1>4. \A entry \in others : entry.attempt # a
  OBVIOUS
<1>5. Queued(a) = queued
  BY DEF Queued
<1> HIDE DEF others, first
<1>6. PICK at : Picks(rest, at, Row, shown, others, L)
  BY <1>1, WherePicks
<1> HIDE DEF rest, L
<1>7. /\ rest \in Seq(Row) /\ R \in Nat
      /\ \A i \in 1..R : /\ rest[i] = shown[at[i]] /\ rest[i] \in others
                         /\ at[i] \in 1..L
      /\ \A i, j \in 1..R : at[i] = at[j] => i = j
      /\ \A j \in 1..L : shown[j] \in others => \E i \in 1..R : at[i] = j
  BY <1>6 DEF Picks
<1>8. /\ queued \in Seq(Row) /\ DOMAIN queued = 1..R + 1 /\ queued[1] = first
      /\ \A i \in 1..R + 1 : i # 1 => queued[i] = rest[i - 1]
  BY <1>2, <1>7
<1> HIDE DEF R, queued
<1>9. ASSUME NEW i \in 1..R + 1, i # 1
      PROVE  /\ i - 1 \in 1..R /\ queued[i] = shown[at[i - 1]]
             /\ at[i - 1] \in 1..L /\ queued[i].attempt # a
  <2>1. i - 1 \in 1..R
    BY <1>7, <1>9
  <2>2. queued[i] = rest[i - 1]
    BY <1>8, <1>9
  <2>3. QED
    BY <1>4, <1>7, <2>1, <2>2
<1>10. 1 \in 1..R + 1
  BY <1>7
<1>11. ASSUME NEW i \in 1..R + 1, NEW j \in 1..R + 1,
              queued[i].attempt = queued[j].attempt
       PROVE  i = j
  <2>1. CASE i = 1 \/ j = 1
    BY <1>2, <1>8, <1>9, <1>11, <2>1
  <2>2. CASE i # 1 /\ j # 1
    <3>1. at[i - 1] = at[j - 1]
      BY <1>1, <1>9, <1>11, <2>2 DEF Distinct
    <3>2. i - 1 = j - 1
      BY <1>7, <1>9, <2>2, <3>1
    <3>3. QED
      BY <1>7, <3>2
  <2>3. QED
    BY <2>1, <2>2
<1>12. a \in Keys(queued)
  BY <1>2, <1>8, <1>10 DEF Keys
<1>13. ASSUME NEW j \in 1..L PROVE shown[j].attempt \in Keys(queued)
  <2>1. CASE shown[j].attempt = a
    BY <1>12, <2>1
  <2>2. CASE shown[j].attempt # a
    <3>1. PICK i \in 1..R : at[i] = j
      BY <1>3, <1>7, <2>2
    <3>2. i + 1 \in 1..R + 1 /\ i + 1 # 1 /\ (i + 1) - 1 = i
      BY <1>7
    <3>3. queued[i + 1] = shown[j]
      BY <1>9, <3>1, <3>2
    <3>4. QED
      BY <1>8, <3>2, <3>3 DEF Keys
  <2>3. QED
    BY <2>1, <2>2
<1>14. queued \in Rows /\ Distinct(queued)
  BY <1>8, <1>11 DEF Rows, Distinct
<1>15. Keys(shown) \subseteq Keys(queued)
  BY <1>1, <1>13 DEF Keys
<1>16. \A i \in 1..R + 1 :
         queued[i] = first \/ \E j \in DOMAIN shown : queued[i] = shown[j]
  BY <1>1, <1>8, <1>9
<1>17. QED
  BY <1>5, <1>8, <1>12, <1>14, <1>15, <1>16 DEF first

-----------------------------------------------------------------------------
(* What the server does while the console looks on.                         *)

\* Attempts that are committed stay, and what is shown of them too, unless it
\* is withdrawn.
Advances(before, after) ==
  \A a \in Attempts :
    /\ before[a].withdrawn \in Nat /\ after[a].withdrawn \in Nat
    /\ before[a].withdrawn <= after[a].withdrawn
    /\ before[a].open => after[a].open
    /\ /\ public_phase(before[a].phase) \in FINISHED
       /\ before[a].withdrawn = after[a].withdrawn
       => before[a].phase = after[a].phase

LEMMA SameApi ==
  ASSUME ApiTypes, UNCHANGED <<phase, projected, withdrawals>>
  PROVE  ApiTypes' /\ Api' = Api /\ phase' = phase /\ Advances(Api, Api')
<1>1. ApiTypes'
  BY DEF ApiTypes
<1>2. Api' = Api
  BY DEF Api, Committed
<1>3. Advances(Api, Api)
  BY ApiOf DEF Advances, ApiTypes
<1>4. QED
  BY <1>1, <1>2, <1>3

\* No step of the server closes an attempt or shows what is no phase.
LEMMA JudgingProjects ==
  ASSUME IntakeTypeOK, ApiTypes, JudgingStep
  PROVE  /\ projected' \in [Attempts -> Phases]
         /\ \A r \in Attempts : Committed(r) => Committed(r)'
<1>1. PICK a \in Attempts : JudgeShown(a)
  BY DEF JudgingStep
<1>2. Unfinished \subseteq Phases /\ Results \subseteq Phases /\ "QUEUED" \in Phases
  BY DEF Unfinished, Results, Phases, TERMINAL_STATUSES
<1>3. PICK p \in Phases : projected' = [projected EXCEPT ![a] = p]
  BY <1>1, <1>2 DEF JudgeShown, MoveShown, FinishShown, ReportLate, Shows
<1>4. QED
  BY <1>3, JudgingKeepsCommitted DEF ApiTypes

LEMMA IntakeProjects ==
  ASSUME IntakeTypeOK, ApiTypes, IntakeStep
  PROVE  /\ projected' \in [Attempts -> Phases]
         /\ \A r \in Attempts : Committed(r) => Committed(r)'
<1>1. ASSUME NEW r \in Attempts, Commit(r)
      PROVE  /\ projected' = [projected EXCEPT ![r] = "QUEUED"]
             /\ phase' = [phase EXCEPT ![r] = "QUEUED"]
  BY <1>1 DEF Commit, OpenShown, Open, Shows
<1>2. CASE CrashApi \/ \E r \in Attempts : AnswerExisting(r) \/ Admit(r) \/ Insert(r)
  <2>1. phase' = phase /\ projected' = projected
    BY <1>2 DEF CrashApi, AnswerExisting, Admit, Insert, shownVars, serviceVars
  <2>2. QED
    BY <2>1 DEF ApiTypes, Committed
<1>3. CASE \E r \in Attempts : Commit(r)
  BY <1>1, <1>3 DEF ApiTypes, IntakeTypeOK, Committed, Phases
<1>4. QED
  BY <1>2, <1>3 DEF IntakeStep

\* What such a step takes back is counted.
LEMMA WithdrawAdvances ==
  ASSUME ApiTypes, projected' \in [Attempts -> Phases], Withdraw,
         \A r \in Attempts : Committed(r) => Committed(r)'
  PROVE  ApiTypes' /\ Advances(Api, Api')
<1>1. ASSUME NEW a \in Attempts
      PROVE  /\ withdrawals[a] \in Nat /\ withdrawals'[a] \in Nat
             /\ withdrawals[a] <= withdrawals'[a]
             /\ withdrawals'[a] <= MaxWithdrawals[a]
             /\ Withdraws(a) => withdrawals'[a] # withdrawals[a]
  <2>1. withdrawals'[a] =
          IF Withdraws(a) THEN withdrawals[a] + 1 ELSE withdrawals[a]
    BY DEF Withdraw
  <2>2. withdrawals[a] \in Nat /\ withdrawals'[a] <= MaxWithdrawals[a]
    BY DEF ApiTypes, Withdraw
  <2>3. QED
    BY <2>1, <2>2
<1>2. ApiTypes'
  <2>1. withdrawals' = [a \in Attempts |-> withdrawals'[a]]
    BY DEF Withdraw
  <2>2. QED
    BY <1>1, <2>1 DEF ApiTypes
<1>3. Advances(Api, Api')
  <2> SUFFICES ASSUME NEW a \in Attempts
               PROVE  /\ Api[a].withdrawn \in Nat /\ Api'[a].withdrawn \in Nat
                      /\ Api[a].withdrawn <= Api'[a].withdrawn
                      /\ Api[a].open => Api'[a].open
                      /\ /\ public_phase(Api[a].phase) \in FINISHED
                         /\ Api[a].withdrawn = Api'[a].withdrawn
                         => Api[a].phase = Api'[a].phase
    BY DEF Advances
  <2>1. /\ Api'[a].open <=> Committed(a)'
        /\ Api'[a].phase = projected'[a] /\ Api'[a].withdrawn = withdrawals'[a]
    BY DEF Api
  <2>2. public_phase(projected[a]) \in FINISHED /\ projected'[a] # projected[a] =>
          Withdraws(a)
    BY PublicPhasesAreResults DEF ApiTypes, Withdraws
  <2>3. QED
    BY <1>1, <2>1, <2>2, ApiOf
<1>4. QED
  BY <1>2, <1>3

LEMMA MemberOfSeq ==
  ASSUME NEW S, NEW seq \in Seq(S), NEW i \in DOMAIN seq
  PROVE  seq[i] \in S
OBVIOUS

\* The rows of a list are rows.
LEMMA RowOf ==
  ASSUME NEW rows \in Rows, NEW i \in DOMAIN rows
  PROVE  /\ rows[i] \in Row /\ rows[i].attempt \in Attempts
         /\ rows[i].phase \in PublicPhases /\ rows[i].since \in Nat
<1>1. rows[i] \in Row
  BY MemberOfSeq DEF Rows
<1>2. QED
  BY <1>1 DEF Row

LEMMA TruthStays ==
  ASSUME NEW p, NEW q, Advances(p, q), NEW rows \in Rows, AllTruthful(p, rows)
  PROVE  AllTruthful(q, rows)
<1> SUFFICES ASSUME NEW i \in DOMAIN rows PROVE Truthful(q, rows[i])
  BY DEF AllTruthful
<1>1. rows[i].attempt \in Attempts /\ rows[i].since \in Nat
  BY RowOf
<1>2. Truthful(p, rows[i])
  BY DEF AllTruthful
<1>3. QED
  BY <1>1, <1>2 DEF Truthful, Advances

LEMMA SoundStays ==
  ASSUME NEW p, NEW q, Advances(p, q), NEW s \in Syncs, SoundSync(p, s)
  PROVE  SoundSync(q, s)
<1>1. AllTruthful(q, s.rows)
  BY TruthStays DEF SoundSync, Syncs
<1>2. \A a \in s.told : q[a].open
  BY DEF SoundSync, Syncs, Advances
<1>3. QED
  BY <1>1, <1>2 DEF SoundSync

\* The workspace and the page of the attempt stay sound meanwhile.
LEMMA AdvancingKeepsConsole ==
  ASSUME WorkspaceTypes, ShownInvariant, SyncInvariant, DetailsInvariant,
         Advances(Api, Api'), \A a \in Attempts : Committed(a) => Committed(a)',
         UNCHANGED <<page, workspaceVars, details>>
  PROVE  /\ WorkspaceTypes' /\ ShownInvariant'
         /\ SyncInvariant' /\ DetailsInvariant'
<1> USE DEF workspaceVars
<1>1. WorkspaceTypes'
  BY DEF WorkspaceTypes
<1>2. ShownInvariant'
  <2>1. AllTruthful(Api', shown)
    BY TruthStays DEF ShownInvariant, WorkspaceTypes
  <2>2. \A a \in told : Api'[a].open
    BY DEF ShownInvariant, WorkspaceTypes, Advances
  <2>3. QED
    BY <2>1, <2>2 DEF ShownInvariant, HiddenOnlyByStaleListing
<1>3. SyncInvariant'
  <2>1. ASSUME NEW slot \in Slots PROVE SoundSync(Api', sync[slot])
    BY SoundStays DEF SyncInvariant, WorkspaceTypes
  <2>2. QED
    BY <2>1 DEF SyncInvariant
<1>4. DetailsInvariant'
  BY DEF DetailsInvariant, Committed
<1>5. QED
  BY <1>1, <1>2, <1>3, <1>4

-----------------------------------------------------------------------------
(* The order of the attempts.                                               *)

Stamped == {"admitted", "flushed", "answered"}

LEMMA StampsStay ==
  ASSUME StampTypes, StampInvariant, stamped' = stamped, crashes' \in 0..MaxCrashes,
         \A r \in Attempts :
           /\ request[r].step \in Stamped => request'[r].step \in Stamped
           /\ request'[r].step \in {"admitted", "flushed"} \/ phase'[r] # "ABSENT" =>
                request[r].step \in {"admitted", "flushed"} \/ phase[r] # "ABSENT"
  PROVE  StampTypes' /\ StampInvariant'
<1>1. StampTypes'
  BY DEF StampTypes
<1>2. \A i \in DOMAIN stamped : stamped[i] \in Attempts
  BY DEF StampTypes
<1>3. StampInvariant'
  BY <1>2 DEF StampInvariant, Stamped, Committed
<1>4. QED
  BY <1>1, <1>3

LEMMA SendKeepsStamps ==
  ASSUME IntakeTypeOK, StampTypes, StampInvariant,
         NEW r \in Attempts, NEW input, Send(r, input)
  PROVE  StampTypes' /\ StampInvariant'
<1>1. PICK new \in {[Unsent EXCEPT !.step = "answered", !.code = Refusal(input)],
                    [Unsent EXCEPT !.step = "received", !.key = input.key]} :
        request' = [request EXCEPT ![r] = new]
  BY DEF Send
<1>2. new.step \in {"answered", "received"}
  BY <1>1 DEF Unsent
<1>3. \A q \in Attempts : request'[q] = IF q = r THEN new ELSE request[q]
  BY <1>1 DEF IntakeTypeOK
<1>4. /\ request[r].step = "unsent" /\ stamped' = stamped
      /\ crashes' = crashes /\ phase' = phase
  BY DEF Send, shownVars, serviceVars
<1>5. \A q \in Attempts :
        /\ request[q].step \in Stamped => request'[q].step \in Stamped
        /\ request'[q].step \in {"admitted", "flushed"} =>
             request[q].step \in {"admitted", "flushed"}
  BY <1>2, <1>3, <1>4 DEF Stamped
<1>6. QED
  BY <1>4, <1>5, StampsStay DEF StampTypes

\* A request whose step alone matters: the others keep theirs.
LEMMA StepOfOne ==
  ASSUME IntakeTypeOK, NEW r \in Attempts, NEW step, NEW code, NEW attempt,
         \/ request' = Answer(r, code, attempt) /\ step = "answered"
         \/ Reaches(r, step)
  PROVE  /\ request'[r].step = step
         /\ \A q \in Attempts \ {r} : request'[q] = request[q]
BY DEF IntakeTypeOK, Answer, Reaches

LEMMA IntakeKeepsStamps ==
  ASSUME IntakeTypeOK, StampTypes, StampInvariant, IntakeStep
  PROVE  StampTypes' /\ StampInvariant'
<1>1. ASSUME NEW r \in Attempts, AnswerExisting(r) PROVE StampTypes' /\ StampInvariant'
  <2>1. /\ request[r].step = "received" /\ request'[r].step = "answered"
        /\ \A q \in Attempts \ {r} : request'[q] = request[q]
        /\ stamped' = stamped /\ crashes' = crashes /\ phase' = phase
    BY <1>1, StepOfOne DEF AnswerExisting, shownVars, serviceVars
  <2>2. QED
    BY <2>1, StampsStay DEF Stamped, StampTypes
<1>2. ASSUME NEW r \in Attempts, Insert(r) PROVE StampTypes' /\ StampInvariant'
  <2>1. /\ request[r].step = "admitted" /\ request'[r].step \in {"answered", "flushed"}
        /\ \A q \in Attempts \ {r} : request'[q] = request[q]
        /\ stamped' = stamped /\ crashes' = crashes /\ phase' = phase
    BY <1>2, StepOfOne DEF Insert, shownVars, serviceVars
  <2>2. QED
    BY <2>1, StampsStay DEF Stamped, StampTypes
<1>3. ASSUME NEW r \in Attempts, Commit(r) PROVE StampTypes' /\ StampInvariant'
  <2>1. /\ request[r].step = "flushed" /\ request'[r].step = "answered"
        /\ \A q \in Attempts \ {r} : request'[q] = request[q]
        /\ stamped' = stamped /\ crashes' = crashes
    BY <1>3, StepOfOne DEF Commit, Flushed
  <2>2. \A q \in Attempts \ {r} : phase'[q] = phase[q]
    BY <1>3 DEF Commit, OpenShown, Open, IntakeTypeOK
  <2>3. QED
    BY <2>1, <2>2, StampsStay DEF Stamped, StampTypes
<1>4. ASSUME CrashApi PROVE StampTypes' /\ StampInvariant'
  <2>1. \A q \in Attempts :
          request'[q].step = "answered" \/ request'[q] = request[q]
    BY <1>4 DEF CrashApi, IntakeTypeOK
  <2>2. /\ stamped' = stamped /\ phase' = phase
        /\ crashes < MaxCrashes /\ crashes' = crashes + 1
    BY <1>4 DEF CrashApi, shownVars, serviceVars
  <2>3. crashes' \in 0..MaxCrashes
    BY <2>2 DEF StampTypes
  <2>4. QED
    BY <2>1, <2>2, <2>3, StampsStay DEF Stamped
<1>5. ASSUME NEW r \in Attempts, Admit(r) PROVE StampTypes' /\ StampInvariant'
  <2> DEFINE L == Len(stamped)
  <2>1. /\ request[r].step = "received" /\ request'[r].step = "admitted"
        /\ \A q \in Attempts \ {r} : request'[q] = request[q]
        /\ stamped' = Append(stamped, r) /\ crashes' = crashes /\ phase' = phase
    BY <1>5, StepOfOne DEF Admit, shownVars, serviceVars
  <2>2. L \in Nat /\ DOMAIN stamped = 1..L /\ \A i \in 1..L : stamped[i] \in Attempts
    BY DEF StampTypes
  <2>3. /\ stamped' \in Seq(Attempts) /\ DOMAIN stamped' = 1..L + 1
        /\ stamped'[L + 1] = r /\ \A i \in 1..L : stamped'[i] = stamped[i]
    BY <2>1 DEF StampTypes
  <2> HIDE DEF L
  <2>4. \A i \in 1..L : stamped[i] # r
    BY <2>1, <2>2 DEF StampInvariant
  <2>5. \A i \in 1..L + 1 : i = L + 1 \/ i \in 1..L
    BY <2>2
  <2>6. L + 1 \in 1..L + 1 /\ \A i \in 1..L : i \in 1..L + 1
    BY <2>2
  <2>7. \A i, j \in 1..L + 1 : stamped'[i] = stamped'[j] => i = j
    <3>1. \A i, j \in 1..L : stamped[i] = stamped[j] => i = j
      BY <2>2 DEF StampInvariant
    <3>2. QED
      BY <2>3, <2>4, <2>5, <3>1
  <2>8. \A i \in 1..L + 1 :
          request'[stamped'[i]].step \in {"admitted", "flushed", "answered"}
    <3>1. \A i \in 1..L : request'[stamped[i]] = request[stamped[i]]
      BY <2>1, <2>2, <2>4
    <3>2. \A i \in 1..L :
            request[stamped[i]].step \in {"admitted", "flushed", "answered"}
      BY <2>2 DEF StampInvariant
    <3>3. \A i \in 1..L :
            request'[stamped'[i]].step \in {"admitted", "flushed", "answered"}
      BY <2>3, <3>1, <3>2
    <3>4. request'[stamped'[L + 1]].step = "admitted"
      BY <2>1, <2>3
    <3>5. QED
      BY <2>5, <3>3, <3>4
  <2>9. ASSUME NEW q \in Attempts,
               request'[q].step \in {"admitted", "flushed"} \/ phase'[q] # "ABSENT"
        PROVE  \E i \in 1..L + 1 : stamped'[i] = q
    <3>1. CASE q = r
      BY <2>3, <2>6, <3>1
    <3>2. CASE q # r
      <4>1. \E i \in 1..L : stamped[i] = q
        BY <2>1, <2>2, <2>9, <3>2 DEF StampInvariant, Committed
      <4>2. QED
        BY <2>3, <2>6, <4>1
    <3>3. QED
      BY <3>1, <3>2
  <2>10. StampInvariant'
    BY <2>3, <2>7, <2>8, <2>9 DEF StampInvariant, Committed
  <2>11. StampTypes'
    BY <2>1, <2>3 DEF StampTypes
  <2>12. QED
    BY <2>10, <2>11
<1>6. QED
  BY <1>1, <1>2, <1>3, <1>4, <1>5 DEF IntakeStep

LEMMA JudgingKeepsStamps ==
  ASSUME IntakeTypeOK, StampTypes, StampInvariant, JudgingStep
  PROVE  StampTypes' /\ StampInvariant'
<1>1. /\ request' = request /\ stamped' = stamped /\ crashes' = crashes
      /\ \A r \in Attempts : phase'[r] # "ABSENT" <=> phase[r] # "ABSENT"
  BY JudgingKeepsCommitted DEF JudgingStep, intakeVars, Committed
<1>2. QED
  BY <1>1, StampsStay DEF StampTypes

-----------------------------------------------------------------------------
(* The synchronisations of the list.                                        *)

Emptied(s) ==
  s.rows = <<>> /\ s.told = {} /\ s.step \in {"off", "timer"}

LEMMA EmptyIsSound ==
  ASSUME NEW p, NEW s, s.rows = <<>>, \A a \in s.told : p[a].open,
         s.step \in {"off", "timer", "sent"}
  PROVE  SoundSync(p, s) /\ \A screen : NotOlder(screen, s.rows)
BY DEF SoundSync, Distinct, AllTruthful, NotOlder

LEMMA NoRows == <<>> \in Rows
BY DEF Rows

\* A request that is waited for is in one of the two slots.
LEMMA OneSync ==
  ASSUME WorkspaceTypes, ShownInvariant, SyncInvariant, DetailsInvariant,
         Api' = Api, phase' = phase,
         UNCHANGED <<page, details, shown, awaiting, told, overtaken>>,
         NEW slot \in Slots, NEW s \in Syncs, sync' = [sync EXCEPT ![slot] = s],
         SoundSync(Api, s), newest' \in {newest, slot},
         s.step = "answered" => NotOlder(shown, s.rows)
  PROVE  /\ WorkspaceTypes' /\ ShownInvariant'
         /\ SyncInvariant' /\ DetailsInvariant'
<1>1. \A q \in Slots : sync'[q] = IF q = slot THEN s ELSE sync[q]
  BY DEF WorkspaceTypes
<1>2. WorkspaceTypes'
  BY DEF WorkspaceTypes
<1>3. SyncInvariant'
  BY <1>1 DEF SyncInvariant
<1>4. ShownInvariant' /\ DetailsInvariant'
  BY DEF ShownInvariant, HiddenOnlyByStaleListing, DetailsInvariant
<1>5. QED
  BY <1>2, <1>3, <1>4

LEMMA TickKeeps ==
  ASSUME WorkspaceTypes, ShownInvariant, SyncInvariant, DetailsInvariant,
         Api' = Api, phase' = phase, UNCHANGED <<page, details>>, Tick
  PROVE  /\ WorkspaceTypes' /\ ShownInvariant'
         /\ SyncInvariant' /\ DetailsInvariant'
<1> DEFINE s == [Off EXCEPT !.step = "sent", !.told = told]
<1>1. Off \in Syncs /\ Off.rows = <<>>
  BY NoRows DEF Off, Syncs, SyncSteps
<1>2. s \in Syncs /\ s.rows = <<>> /\ s.told = told /\ s.step = "sent"
  BY <1>1 DEF Syncs, SyncSteps, WorkspaceTypes
<1>3. sync' = [sync EXCEPT !["poll"] = s] /\ newest' = "poll"
      /\ UNCHANGED <<shown, awaiting, told, overtaken>>
  BY DEF Tick
<1> HIDE DEF s
<1>4. SoundSync(Api, s) /\ NotOlder(shown, s.rows)
  BY <1>2, EmptyIsSound DEF ShownInvariant
<1>5. "poll" \in Slots
  BY DEF Slots
<1>6. QED
  BY <1>2, <1>3, <1>4, <1>5, OneSync

\* Rows of distinct attempts that are true make a sound listing.
LEMMA TruthfulRows ==
  ASSUME NEW seq \in Seq(Attempts),
         \A i, j \in DOMAIN seq : seq[i] = seq[j] => i = j,
         NEW rows, rows = [i \in DOMAIN seq |-> rows[i]],
         \A i \in DOMAIN seq : /\ rows[i] \in Row /\ rows[i].attempt = seq[i]
                               /\ Truthful(Api, rows[i])
  PROVE  /\ rows \in Rows /\ Len(rows) = Len(seq) /\ DOMAIN rows = DOMAIN seq
         /\ Distinct(rows) /\ AllTruthful(Api, rows)
<1> DEFINE L == Len(seq)
<1>1. L \in Nat /\ DOMAIN seq = 1..L /\ DOMAIN rows = 1..L
  OBVIOUS
<1> HIDE DEF L
<1>2. rows \in [1..L -> Row]
  BY <1>1
<1>3. rows \in Rows /\ Len(rows) = L
  BY <1>1, <1>2 DEF Rows
<1>4. Distinct(rows) /\ AllTruthful(Api, rows)
  BY <1>1 DEF Distinct, AllTruthful
<1>5. QED
  BY <1>1, <1>3, <1>4 DEF L

LEMMA ListRowsKeeps ==
  ASSUME ApiTypes, StampTypes, StampInvariant,
         WorkspaceTypes, ShownInvariant, SyncInvariant, DetailsInvariant,
         Api' = Api, phase' = phase, UNCHANGED <<page, details>>,
         NEW slot \in Slots, ListRows(slot)
  PROVE  /\ WorkspaceTypes' /\ ShownInvariant'
         /\ SyncInvariant' /\ DetailsInvariant'
<1>1. PICK rows : rows = [i \in DOMAIN NewestRows |-> Bare(NewestRows[i])]
  OBVIOUS
<1>2. /\ rows \in Rows /\ Len(rows) = Len(NewestRows)
      /\ DOMAIN rows = DOMAIN NewestRows
      /\ \A i \in DOMAIN NewestRows : rows[i].attempt = NewestRows[i]
      /\ Distinct(rows) /\ AllTruthful(Api, rows)
  <2>1. /\ NewestRows \in Seq(Attempts)
        /\ \A i \in DOMAIN NewestRows : Committed(NewestRows[i])
        /\ \A i, j \in DOMAIN NewestRows : NewestRows[i] = NewestRows[j] => i = j
    BY NewestRowsAreCommitted
  <2>2. \A i \in DOMAIN NewestRows :
          /\ rows[i] \in Row /\ rows[i].attempt = NewestRows[i]
          /\ Truthful(Api, rows[i])
    BY <1>1, <2>1, BareIsTruthful, MemberOfSeq
  <2>3. QED
    BY <1>1, <2>1, <2>2, TruthfulRows
<1> DEFINE s == [sync[slot] EXCEPT !.step = "rows", !.rows = rows]
<1>3. sync[slot] \in Syncs
  BY DEF WorkspaceTypes
<1>4. sync' = [sync EXCEPT ![slot] = s]
  <2>1. sync' = [sync EXCEPT ![slot].step = "rows", ![slot].rows = rows]
    BY <1>1 DEF ListRows
  <2>2. QED
    BY <2>1 DEF WorkspaceTypes
<1>5. s \in Syncs /\ s.step = "rows" /\ s.rows = rows /\ s.told = sync[slot].told
  <2>1. PICK old \in Syncs : old = sync[slot]
    BY <1>3
  <2>2. rows \in Rows
    BY <1>2
  <2>3. QED
    BY <2>1, <2>2 DEF Syncs, SyncSteps
<1> HIDE DEF s
<1>6. Len(rows) <= PageSize /\ \A a \in s.told : Api[a].open
  BY <1>2, <1>5, NewestRowsAreCommitted DEF SyncInvariant, SoundSync
<1>7. Complete(s)
  <2> SUFFICES ASSUME NEW a \in s.told, Len(rows) # PageSize
               PROVE  a \in Keys(rows)
    BY <1>5 DEF Complete
  <2>1. a \in Attempts /\ Committed(a)
    BY <1>3, <1>5, <1>6, ApiOf DEF Syncs
  <2>2. PICK i \in DOMAIN NewestRows : NewestRows[i] = a
    BY <1>2, <2>1, NewestRowsAreCommitted
  <2>3. QED
    BY <1>2, <2>2 DEF Keys
<1>8. SoundSync(Api, s)
  BY <1>2, <1>5, <1>6, <1>7 DEF SoundSync
<1>9. UNCHANGED <<shown, newest, awaiting, told, overtaken>>
  BY DEF ListRows
<1>10. QED
  BY <1>2, <1>4, <1>5, <1>8, <1>9, OneSync

LEMMA ReadPhasesKeeps ==
  ASSUME ApiTypes,
         WorkspaceTypes, ShownInvariant, SyncInvariant, DetailsInvariant,
         Api' = Api, phase' = phase, UNCHANGED <<page, details>>,
         NEW slot \in Slots, ReadPhases(slot)
  PROVE  /\ WorkspaceTypes' /\ ShownInvariant'
         /\ SyncInvariant' /\ DetailsInvariant'
<1> DEFINE old == sync[slot].rows
           seq == [i \in DOMAIN old |-> old[i].attempt]
<1>1. sync[slot] \in Syncs /\ old \in Rows /\ SoundSync(Api, sync[slot])
      /\ sync[slot].step = "rows"
  BY DEF WorkspaceTypes, SyncInvariant, Syncs, ReadPhases
<1>2. DOMAIN seq = DOMAIN old /\ \A i \in DOMAIN old : seq[i] = old[i].attempt
  OBVIOUS
<1>3. \A i \in DOMAIN old : old[i].attempt \in Attempts
  BY <1>1, RowOf
<1>4. seq \in Seq(Attempts) /\ Len(seq) = Len(old)
  <2>1. Len(old) \in Nat /\ DOMAIN old = 1..Len(old)
    BY <1>1 DEF Rows
  <2> HIDE DEF old
  <2>2. seq \in [1..Len(old) -> Attempts]
    BY <1>3, <2>1
  <2>3. QED
    BY <2>1, <2>2
<1>5. /\ \A i \in DOMAIN seq : Committed(seq[i])
      /\ \A i, j \in DOMAIN seq : seq[i] = seq[j] => i = j
  BY <1>1, <1>2, <1>3, ApiOf DEF SoundSync, AllTruthful, Truthful, Distinct
<1>6. PICK rows : rows = [i \in DOMAIN old |-> View(old[i].attempt)]
  OBVIOUS
<1>7. rows = [i \in DOMAIN seq |-> View(seq[i])]
  BY <1>2, <1>6
<1> HIDE DEF seq
<1>8. /\ rows \in Rows /\ Len(rows) = Len(old) /\ DOMAIN rows = DOMAIN old
      /\ \A i \in DOMAIN old : rows[i].attempt = old[i].attempt
      /\ Distinct(rows) /\ AllTruthful(Api, rows) /\ NotOlder(shown, rows)
  <2>1. \A i \in DOMAIN seq : seq[i] \in Attempts
    BY <1>2, <1>3
  <2>2. \A i \in DOMAIN seq :
          /\ rows[i] = View(seq[i]) /\ rows[i] \in Row
          /\ rows[i].attempt = seq[i] /\ Truthful(Api, rows[i])
    BY <1>5, <1>7, <2>1, ViewIsTruthful
  <2>3. /\ rows \in Rows /\ Len(rows) = Len(seq) /\ DOMAIN rows = DOMAIN seq
        /\ Distinct(rows) /\ AllTruthful(Api, rows)
    BY <1>4, <1>5, <1>7, <2>2, TruthfulRows
  <2>4. \A i \in DOMAIN shown : shown[i] \in Row /\ Truthful(Api, shown[i])
    BY RowOf DEF ShownInvariant, AllTruthful, WorkspaceTypes
  <2>5. NotOlder(shown, rows)
    BY <1>5, <2>1, <2>2, <2>3, <2>4, ViewIsTruthful DEF NotOlder
  <2>6. QED
    BY <1>2, <1>4, <2>2, <2>3, <2>5
<1> DEFINE s == [sync[slot] EXCEPT !.step = "answered", !.rows = rows]
<1>9. sync' = [sync EXCEPT ![slot] = s]
  <2>1. sync' = [sync EXCEPT ![slot].step = "answered", ![slot].rows = rows]
    BY <1>6 DEF ReadPhases, WorkspaceTypes
  <2>2. QED
    BY <2>1 DEF WorkspaceTypes
<1>10. s \in Syncs /\ s.rows = rows /\ s.told = sync[slot].told
  BY <1>1, <1>8 DEF Syncs, SyncSteps
<1> HIDE DEF s
<1>11. Len(rows) <= PageSize /\ \A a \in s.told : Api[a].open
  BY <1>1, <1>8, <1>10 DEF SoundSync
<1>12. Complete(s)
  <2>1. Complete(sync[slot])
    BY <1>1 DEF SoundSync
  <2>2. Keys(rows) = Keys(old)
    BY <1>8 DEF Keys
  <2>3. QED
    BY <1>8, <1>10, <2>1, <2>2 DEF Complete
<1>13. SoundSync(Api, s)
  BY <1>8, <1>10, <1>11, <1>12 DEF SoundSync
<1>14. UNCHANGED <<shown, newest, awaiting, told, overtaken>>
  BY DEF ReadPhases
<1>15. QED
  BY <1>8, <1>9, <1>10, <1>13, <1>14, OneSync

-----------------------------------------------------------------------------
(* The end of a synchronisation.                                            *)

LEMMA OffIsEmptied ==
  /\ Off \in Syncs /\ Emptied(Off)
  /\ [Off EXCEPT !.step = "timer"] \in Syncs
  /\ Emptied([Off EXCEPT !.step = "timer"])
<1>1. Off \in Syncs /\ Off.rows = <<>> /\ Off.told = {} /\ Off.step = "off"
  BY NoRows DEF Off, Syncs, SyncSteps
<1>2. [Off EXCEPT !.step = "timer"] \in Syncs
  BY <1>1 DEF Syncs, SyncSteps
<1>3. Emptied([Off EXCEPT !.step = "timer"])
  BY <1>1 DEF Syncs, Emptied
<1>4. QED
  BY <1>1, <1>2, <1>3 DEF Emptied

LEMMA RescheduledSync ==
  ASSUME NEW s \in Syncs, NEW rows
  PROVE  /\ Rescheduled(s, rows) \in Syncs
         /\ Rescheduled(s, rows) = s \/ Emptied(Rescheduled(s, rows))
BY OffIsEmptied DEF Rescheduled

LEMMA EndedSyncs ==
  ASSUME WorkspaceTypes, NEW slot \in Slots, NEW rows, NEW after,
         after = Ended(slot, rows)
  PROVE  /\ after \in [Slots -> Syncs]
         /\ Emptied(after[slot])
         /\ \A q \in Slots : after[q] = sync[q] \/ Emptied(after[q])
<1>1. sync \in [Slots -> Syncs] /\ "poll" \in Slots
  BY DEF WorkspaceTypes, Slots
<1>2. CASE slot = "poll"
  <2>1. after = [[sync EXCEPT !["poll"] = Off] EXCEPT
                   !["poll"] = Rescheduled(Off, rows)]
    BY <1>2 DEF Ended
  <2>2. Rescheduled(Off, rows) \in Syncs /\ Emptied(Rescheduled(Off, rows))
    BY OffIsEmptied, RescheduledSync
  <2>3. \A q \in Slots : after[q] = IF q = "poll" THEN Rescheduled(Off, rows) ELSE sync[q]
    BY <1>1, <2>1
  <2>4. after \in [Slots -> Syncs]
    BY <1>1, <2>1, <2>2, OffIsEmptied
  <2>5. QED
    BY <1>2, <2>2, <2>3, <2>4
<1>3. CASE slot # "poll"
  <2> DEFINE next == Rescheduled(sync["poll"], rows)
  <2>1. after = [[sync EXCEPT ![slot] = Off] EXCEPT !["poll"] = next]
    BY <1>1, <1>3 DEF Ended
  <2>2. next \in Syncs /\ (next = sync["poll"] \/ Emptied(next))
    BY <1>1, RescheduledSync
  <2> HIDE DEF next
  <2>3. \A q \in Slots : after[q] = IF q = "poll" THEN next
                                    ELSE IF q = slot THEN Off ELSE sync[q]
    BY <1>1, <2>1
  <2>4. after \in [Slots -> Syncs]
    BY <1>1, <2>1, <2>2, OffIsEmptied
  <2>5. QED
    BY <1>3, <2>2, <2>3, <2>4, OffIsEmptied
<1>4. QED
  BY <1>2, <1>3

\* What is not waited for any more can do no harm.
LEMMA EmptiedKeepsSyncs ==
  ASSUME SyncInvariant, Api' = Api, newest' = newest,
         \A q \in Slots :
           \/ Emptied(sync'[q])
           \/ /\ sync'[q] = sync[q]
              /\ newest = q /\ sync[q].step = "answered" =>
                   NotOlder(shown', sync[q].rows)
  PROVE  SyncInvariant'
<1> SUFFICES ASSUME NEW q \in Slots
             PROVE  /\ SoundSync(Api', sync'[q])
                    /\ newest' = q /\ sync'[q].step = "answered" =>
                         NotOlder(shown', sync'[q].rows)
  BY DEF SyncInvariant
<1>1. CASE Emptied(sync'[q])
  <2>1. PICK s : s = sync'[q]
    OBVIOUS
  <2>2. PICK screen : screen = shown'
    OBVIOUS
  <2>3. SoundSync(Api, s) /\ NotOlder(screen, s.rows)
    BY <1>1, <2>1, EmptyIsSound DEF Emptied
  <2>4. QED
    BY <2>1, <2>2, <2>3
<1>2. CASE /\ sync'[q] = sync[q]
           /\ newest = q /\ sync[q].step = "answered" =>
                NotOlder(shown', sync[q].rows)
  BY <1>2 DEF SyncInvariant
<1>3. QED
  BY <1>1, <1>2

LEMMA FailedKeeps ==
  ASSUME WorkspaceTypes, ShownInvariant, SyncInvariant, DetailsInvariant,
         Api' = Api, phase' = phase, UNCHANGED <<page, details>>,
         NEW slot \in Slots, Failed(slot)
  PROVE  /\ WorkspaceTypes' /\ ShownInvariant'
         /\ SyncInvariant' /\ DetailsInvariant'
<1>1. UNCHANGED <<shown, newest, awaiting, told, overtaken>>
  BY DEF Failed
<1>2. PICK after : after = sync' /\ after = Ended(slot, shown)
  BY DEF Failed
<1>3. /\ after \in [Slots -> Syncs]
      /\ \A q \in Slots : after[q] = sync[q] \/ Emptied(after[q])
  BY <1>2, EndedSyncs
<1>4. WorkspaceTypes'
  BY <1>1, <1>2, <1>3 DEF WorkspaceTypes
<1>5. SyncInvariant'
  BY <1>1, <1>2, <1>3, EmptiedKeepsSyncs DEF SyncInvariant
<1>6. ShownInvariant' /\ DetailsInvariant'
  BY <1>1 DEF ShownInvariant, HiddenOnlyByStaleListing, DetailsInvariant
<1>7. QED
  BY <1>4, <1>5, <1>6

LEMMA AnsweredKeeps ==
  ASSUME WorkspaceTypes, ShownInvariant, SyncInvariant, DetailsInvariant,
         Api' = Api, phase' = phase, UNCHANGED <<page, details>>,
         NEW slot \in Slots, Answered(slot)
  PROVE  /\ WorkspaceTypes' /\ ShownInvariant'
         /\ SyncInvariant' /\ DetailsInvariant'
<1>1. UNCHANGED <<newest, awaiting, told>>
  BY DEF Answered
<1>2. PICK screen, after :
        screen = shown' /\ after = sync' /\ after = Ended(slot, screen)
  BY DEF Answered
<1>3. /\ after \in [Slots -> Syncs] /\ Emptied(after[slot])
      /\ \A q \in Slots : after[q] = sync[q] \/ Emptied(after[q])
  BY <1>2, EndedSyncs
<1>4. sync[slot] \in Syncs /\ SoundSync(Api, sync[slot]) /\ sync[slot].step = "answered"
  BY DEF Answered, WorkspaceTypes, SyncInvariant
<1>5. screen = IF slot = newest THEN sync[slot].rows ELSE shown
  BY <1>2 DEF Answered
<1>6. screen \in Rows /\ Distinct(screen) /\ AllTruthful(Api, screen)
  BY <1>4, <1>5 DEF Syncs, SoundSync, WorkspaceTypes, ShownInvariant
<1>7. /\ overtaken' \in SUBSET told
      /\ told \ Keys(screen) \subseteq overtaken'
  <2>1. CASE slot = newest
    <3>1. Complete(sync[slot])
      BY <1>4 DEF SoundSync
    <3>2. overtaken' = {a \in told \ Keys(screen) :
                          a \notin sync[slot].told \/ Len(screen) = PageSize}
      BY <1>2, <2>1 DEF Answered
    <3>3. screen = sync[slot].rows
      BY <1>5, <2>1
    <3>4. QED
      BY <3>1, <3>2, <3>3 DEF Complete
  <2>2. CASE slot # newest
    BY <1>5, <2>2 DEF Answered, WorkspaceTypes, ShownInvariant, HiddenOnlyByStaleListing
  <2>3. QED
    BY <2>1, <2>2
<1>8. WorkspaceTypes'
  BY <1>1, <1>2, <1>3, <1>6, <1>7 DEF WorkspaceTypes
<1>9. ShownInvariant'
  <2>1. \A a \in told : Api[a].open
    BY DEF ShownInvariant
  <2>2. told' \ Keys(shown') \subseteq overtaken'
    BY <1>1, <1>2, <1>7
  <2>3. QED
    BY <1>1, <1>2, <1>6, <2>1, <2>2 DEF ShownInvariant, HiddenOnlyByStaleListing
<1>10. SyncInvariant'
  <2>1. ASSUME NEW q \in Slots, ~ Emptied(after[q])
        PROVE  /\ after[q] = sync[q]
               /\ newest = q /\ sync[q].step = "answered" =>
                    NotOlder(screen, sync[q].rows)
    <3>1. after[q] = sync[q] /\ q # slot
      BY <1>3, <2>1
    <3>2. newest = q => screen = shown
      BY <1>5, <3>1
    <3>3. QED
      BY <3>1, <3>2 DEF SyncInvariant
  <2>2. QED
    BY <1>1, <1>2, <2>1, EmptiedKeepsSyncs
<1>11. DetailsInvariant'
  BY DEF DetailsInvariant
<1>12. QED
  BY <1>8, <1>9, <1>10, <1>11

-----------------------------------------------------------------------------
(* The composer and the pages.                                              *)

LEMMA ReceiveAnswerKeeps ==
  ASSUME IntakeInvariant, ApiTypes, Api' = Api,
         WorkspaceTypes, ShownInvariant, SyncInvariant, DetailsInvariant,
         NEW r \in Attempts, ReceiveAnswer(r)
  PROVE  /\ WorkspaceTypes' /\ ShownInvariant'
         /\ SyncInvariant' /\ DetailsInvariant'
<1>1. UNCHANGED <<page, newest, details, phase>> /\ awaiting' \in SUBSET Attempts
  BY DEF ReceiveAnswer, apiVars, shownVars, serviceVars, WorkspaceTypes
<1>2. DetailsInvariant'
  BY <1>1 DEF DetailsInvariant
<1>3. CASE request[r].code # "accepted"
  <2>1. UNCHANGED <<shown, sync, told, overtaken>>
    BY <1>3 DEF ReceiveAnswer
  <2>2. WorkspaceTypes'
    BY <1>1, <2>1 DEF WorkspaceTypes
  <2>3. ShownInvariant' /\ SyncInvariant'
    BY <1>1, <2>1 DEF ShownInvariant, HiddenOnlyByStaleListing, SyncInvariant
  <2>4. QED
    BY <1>2, <2>2, <2>3
<1>4. CASE request[r].code = "accepted"
  <2>1. PICK a : a = request[r].attempt
    OBVIOUS
  <2>2. a \in Attempts /\ Committed(a) /\ Api[a].open
    <3>1. Accepted(r)
      BY <1>4 DEF ReceiveAnswer, Accepted
    <3>2. Committed(a) /\ a \in {r} \cup Siblings(r)
      BY <2>1, <3>1 DEF IntakeInvariant
    <3>3. QED
      BY <3>2, ApiOf DEF Siblings
  <2>3. PICK screen : screen = Queued(a)
    OBVIOUS
  <2>4. PICK next : next = Rescheduled(sync["poll"], screen)
    OBVIOUS
  <2>5. /\ shown' = screen
        /\ told' = told \cup {a} /\ overtaken' = overtaken \ {a}
    BY <1>4, <2>1, <2>3 DEF ReceiveAnswer
  <2>6. sync' = [sync EXCEPT !["poll"] = next]
    BY <1>4, <2>4, <2>5 DEF ReceiveAnswer
  <2>7. sync["poll"] \in Syncs /\ "poll" \in Slots
    BY DEF WorkspaceTypes, Slots
  <2>8. next \in Syncs /\ (next = sync["poll"] \/ Emptied(next))
    BY <2>4, <2>7, RescheduledSync
  <2>9. /\ screen \in Rows /\ Distinct(screen)
        /\ a \in Keys(screen) /\ Keys(shown) \subseteq Keys(screen)
        /\ \A i \in DOMAIN screen :
             \/ screen[i] = Bare(a)
             \/ \E j \in DOMAIN shown : screen[i] = shown[j]
    BY <2>2, <2>3, QueuedIsFirst DEF WorkspaceTypes, ShownInvariant
  <2>10. /\ Bare(a).attempt = a /\ Bare(a).phase \notin FINISHED
         /\ Bare(a).since = 0 /\ Truthful(Api, Bare(a))
    BY <2>2, BareIsTruthful
  <2>11. AllTruthful(Api, screen)
    BY <2>9, <2>10 DEF AllTruthful, ShownInvariant
  <2>12. WorkspaceTypes'
    BY <1>1, <2>2, <2>5, <2>6, <2>8, <2>9 DEF WorkspaceTypes
  <2>13. ShownInvariant'
    <3>1. \A b \in told' : Api[b].open
      BY <2>2, <2>5 DEF ShownInvariant
    <3>2. told' \ Keys(screen) \subseteq overtaken'
      BY <2>5, <2>9 DEF ShownInvariant, HiddenOnlyByStaleListing
    <3>3. QED
      BY <1>1, <2>5, <2>9, <2>11, <3>1, <3>2
         DEF ShownInvariant, HiddenOnlyByStaleListing
  <2>14. SyncInvariant'
    <3>1. ASSUME NEW rows \in Rows, NotOlder(shown, rows)
          PROVE  NotOlder(screen, rows)
      <4>1. \A j \in DOMAIN rows : Follows(rows[j], Bare(a))
        BY <2>10, RowOf DEF Follows
      <4>2. QED
        BY <2>9, <3>1, <4>1 DEF NotOlder
    <3>2. \A q \in Slots : sync'[q] = IF q = "poll" THEN next ELSE sync[q]
      BY <2>6 DEF WorkspaceTypes
    <3>3. \A q \in Slots : newest = q /\ sync[q].step = "answered" =>
                             NotOlder(screen, sync[q].rows)
      BY <3>1 DEF SyncInvariant, WorkspaceTypes, Syncs
    <3>4. QED
      BY <1>1, <2>5, <2>8, <3>2, <3>3, EmptiedKeepsSyncs
  <2>15. QED
    BY <1>2, <2>12, <2>13, <2>14
<1>5. QED
  BY <1>3, <1>4

LEMMA NoLoadsType ==
  NoLoads \in [Loads -> PublicPhases \cup {"none", "sent"}]
  /\ \A l \in Loads : NoLoads[l] = "none"
BY DEF NoLoads

\* A page that is opened starts with nothing.
LEMMA FreshWorkspace ==
  ASSUME shown' = <<>>, told' = {}, overtaken' = {}, awaiting' = {},
         NEW first \in {Off, [Off EXCEPT !.step = "sent"]},
         sync' = [mount |-> first, poll |-> Off]
  PROVE  /\ ShownInvariant' /\ SyncInvariant' /\ shown' \in Rows
         /\ sync' \in [Slots -> Syncs]
<1>1. Off \in Syncs /\ Off.rows = <<>> /\ Off.told = {} /\ Off.step = "off"
  BY OffIsEmptied DEF Off
<1>2. /\ first \in Syncs /\ first.rows = <<>> /\ first.told = {}
      /\ first.step \in {"off", "sent"}
  BY <1>1 DEF Syncs, SyncSteps
<1>3. sync'["mount"] = first /\ sync'["poll"] = Off
  OBVIOUS
<1>4. sync' \in [Slots -> Syncs]
  BY <1>1, <1>2 DEF Slots
<1>5. \A p : SoundSync(p, first) /\ SoundSync(p, Off)
  BY <1>1, <1>2, EmptyIsSound
<1>6. \A screen : NotOlder(screen, first.rows) /\ NotOlder(screen, Off.rows)
  BY <1>1, <1>2, EmptyIsSound
<1>7. PICK p : p = Api'
  OBVIOUS
<1>8. \A q \in Slots : sync'[q] \in {first, Off}
  BY <1>3 DEF Slots
<1>9. SyncInvariant'
  BY <1>5, <1>6, <1>7, <1>8 DEF SyncInvariant
<1>10. ShownInvariant' /\ shown' \in Rows
  BY NoRows DEF ShownInvariant, Distinct, AllTruthful, HiddenOnlyByStaleListing
<1>11. QED
  BY <1>4, <1>9, <1>10

LEMMA MountKeeps ==
  ASSUME MountWorkspace
  PROVE  /\ WorkspaceTypes' /\ ShownInvariant'
         /\ SyncInvariant' /\ DetailsInvariant'
<1>1. /\ ShownInvariant' /\ SyncInvariant' /\ shown' \in Rows
      /\ sync' \in [Slots -> Syncs]
  BY FreshWorkspace DEF MountWorkspace
<1>2. /\ page' = "workspace" /\ newest' = "mount"
      /\ awaiting' = {} /\ told' = {} /\ overtaken' = {}
      /\ details' = [phase |-> NotShown, loads |-> NoLoads]
  BY DEF MountWorkspace
<1>3. WorkspaceTypes'
  BY <1>1, <1>2, NoLoadsType DEF WorkspaceTypes, Slots
<1>4. DetailsInvariant'
  BY <1>2, NoLoadsType DEF DetailsInvariant
<1>5. QED
  BY <1>1, <1>3, <1>4

LEMMA OpenDetailsKeeps ==
  ASSUME WorkspaceTypes, ShownInvariant, Api' = Api, phase' = phase,
         NEW a \in Attempts, OpenDetails(a)
  PROVE  /\ WorkspaceTypes' /\ ShownInvariant'
         /\ SyncInvariant' /\ DetailsInvariant'
<1>1. sync' = [mount |-> Off, poll |-> Off]
  BY DEF OpenDetails, Slots
<1>2. /\ ShownInvariant' /\ SyncInvariant' /\ shown' \in Rows
      /\ sync' \in [Slots -> Syncs]
  BY <1>1, FreshWorkspace DEF OpenDetails
<1>3. phase[a] # "ABSENT"
  BY ApiOf DEF OpenDetails, Keys, ShownInvariant, AllTruthful, Truthful, Committed
<1>4. PICK loads : loads = [NoLoads EXCEPT ![1] = "sent"]
  OBVIOUS
<1>5. loads \in [Loads -> PublicPhases \cup {"none", "sent"}]
  BY <1>4, NoLoadsType
<1>6. /\ page' = a /\ newest' = "none"
      /\ awaiting' = {} /\ told' = {} /\ overtaken' = {}
      /\ details' = [phase |-> NotShown, loads |-> loads]
  BY <1>4 DEF OpenDetails
<1>7. WorkspaceTypes'
  BY <1>2, <1>5, <1>6 DEF WorkspaceTypes
<1>8. DetailsInvariant'
  BY <1>3, <1>6 DEF DetailsInvariant
<1>9. QED
  BY <1>2, <1>7, <1>8

LEMMA DetailsKeeps ==
  ASSUME ApiTypes,
         WorkspaceTypes, ShownInvariant, SyncInvariant, DetailsInvariant,
         Api' = Api, phase' = phase, DetailsStep
  PROVE  /\ WorkspaceTypes' /\ ShownInvariant'
         /\ SyncInvariant' /\ DetailsInvariant'
<1> DEFINE Seen == PublicPhases \cup {"none", "sent"}
<1>1. UNCHANGED <<page, shown, sync, newest, awaiting, told, overtaken>>
  BY DEF DetailsStep, LoadAgain, ReadDetails, ShowDetails, FailDetails, workspaceVars
<1>2. ShownInvariant' /\ SyncInvariant'
  BY <1>1 DEF ShownInvariant, HiddenOnlyByStaleListing, SyncInvariant
<1>3. /\ details.phase \in PublicPhases \cup {NotShown}
      /\ details.loads \in [Loads -> Seen]
      /\ details \in [phase : PublicPhases \cup {NotShown}, loads : [Loads -> Seen]]
  BY DEF WorkspaceTypes
<1>4. /\ details' \in [phase : PublicPhases \cup {NotShown}, loads : [Loads -> Seen]]
      /\ page \in Attempts /\ phase[page] # "ABSENT"
  <2>1. CASE LoadAgain
    <3>1. PICK l \in Loads : details' = [details EXCEPT !.loads[l] = "sent"]
      BY <2>1 DEF LoadAgain
    <3>2. details' = [details EXCEPT !.loads = [details.loads EXCEPT ![l] = "sent"]]
      BY <3>1
    <3>3. [details.loads EXCEPT ![l] = "sent"] \in [Loads -> Seen]
      BY <1>3
    <3>4. page \in Attempts /\ phase[page] # "ABSENT"
      BY <2>1 DEF LoadAgain, DetailsInvariant
    <3>5. QED
      BY <1>3, <3>2, <3>3, <3>4
  <2>2. ASSUME NEW l \in Loads, ReadDetails(l)
        PROVE  /\ details' \in [phase : PublicPhases \cup {NotShown}, loads : [Loads -> Seen]]
               /\ page \in Attempts /\ phase[page] # "ABSENT"
    <3>1. page \in Attempts /\ phase[page] # "ABSENT"
      BY <2>2 DEF ReadDetails, DetailsInvariant
    <3>2. public_phase(projected[page]) \in Seen
      BY <3>1, PublicPhasesAreResults DEF ApiTypes
    <3>3. PICK seen \in Seen : details' = [details EXCEPT !.loads[l] = seen]
      BY <2>2, <3>2 DEF ReadDetails
    <3>4. details' = [details EXCEPT !.loads = [details.loads EXCEPT ![l] = seen]]
      BY <3>3
    <3>5. [details.loads EXCEPT ![l] = seen] \in [Loads -> Seen]
      BY <1>3
    <3>6. QED
      BY <1>3, <3>1, <3>4, <3>5
  <2>3. ASSUME NEW l \in Loads, ShowDetails(l) \/ FailDetails(l)
        PROVE  /\ details' \in [phase : PublicPhases \cup {NotShown}, loads : [Loads -> Seen]]
               /\ page \in Attempts /\ phase[page] # "ABSENT"
    <3>1. page \in Attempts /\ phase[page] # "ABSENT"
      BY <2>3 DEF ShowDetails, FailDetails, DetailsInvariant
    <3>2. [details.loads EXCEPT ![l] = "none"] \in [Loads -> Seen]
      BY <1>3
    <3>3. CASE ShowDetails(l)
      <4>1. details.loads[l] \in PublicPhases
        BY <1>3, <3>3 DEF ShowDetails
      <4>2. details' = [phase |-> details.loads[l],
                        loads |-> [details.loads EXCEPT ![l] = "none"]]
        BY <3>3 DEF ShowDetails
      <4>3. QED
        BY <3>1, <3>2, <4>1, <4>2
    <3>4. CASE FailDetails(l)
      <4>1. details' = [details EXCEPT !.loads = [details.loads EXCEPT ![l] = "none"]]
        BY <3>4 DEF FailDetails
      <4>2. QED
        BY <1>3, <3>1, <3>2, <4>1
    <3>5. QED
      BY <2>3, <3>3, <3>4
  <2>4. QED
    BY <2>1, <2>2, <2>3 DEF DetailsStep
<1>5. WorkspaceTypes'
  BY <1>1, <1>4 DEF WorkspaceTypes
<1>6. DetailsInvariant'
  BY <1>1, <1>4 DEF DetailsInvariant
<1>7. QED
  BY <1>2, <1>5, <1>6

-----------------------------------------------------------------------------
(* The whole.                                                               *)

LEMMA ConsoleInitially == ConsoleInit => ConsoleInvariant
<1> SUFFICES ASSUME ConsoleInit PROVE ConsoleInvariant
  OBVIOUS
<1>0. ApiTypes
  BY MaxWithdrawalsAssumption DEF ConsoleInit, ShownInit, ApiTypes, Phases
<1>1. StampTypes /\ StampInvariant
  BY DEF ConsoleInit, ShownInit, ServiceInit, IntakeInit, StampTypes, StampInvariant,
         Unsent, Committed
<1>2. /\ page = "workspace" /\ shown = <<>> /\ newest = "mount"
      /\ sync = [mount |-> [Off EXCEPT !.step = "sent"], poll |-> Off]
      /\ awaiting = {} /\ told = {} /\ overtaken = {}
      /\ details = [phase |-> NotShown, loads |-> NoLoads]
  BY DEF ConsoleInit
<1>3. Off \in Syncs /\ Off.rows = <<>> /\ Off.told = {} /\ Off.step = "off"
  BY OffIsEmptied DEF Off
<1>4. PICK first : first = [Off EXCEPT !.step = "sent"]
  OBVIOUS
<1>5. first \in Syncs /\ first.rows = <<>> /\ first.told = {} /\ first.step = "sent"
  BY <1>3, <1>4 DEF Syncs, SyncSteps
<1>6. sync = [mount |-> first, poll |-> Off]
  BY <1>2, <1>4
<1>7. sync \in [Slots -> Syncs] /\ \A q \in Slots : sync[q] \in {first, Off}
  BY <1>3, <1>5, <1>6 DEF Slots
<1>8. WorkspaceTypes
  BY <1>2, <1>7, NoRows, NoLoadsType DEF WorkspaceTypes, Slots
<1>9. SyncInvariant
  <2>1. /\ SoundSync(Api, first) /\ SoundSync(Api, Off)
        /\ NotOlder(shown, first.rows) /\ NotOlder(shown, Off.rows)
    BY <1>3, <1>5, EmptyIsSound
  <2>2. QED
    BY <1>7, <2>1 DEF SyncInvariant
<1>10. ShownInvariant /\ DetailsInvariant
  BY <1>2, NoLoadsType DEF ShownInvariant, Distinct, AllTruthful,
     HiddenOnlyByStaleListing, DetailsInvariant
<1>11. QED
  BY <1>0, <1>1, <1>8, <1>9, <1>10 DEF ConsoleInvariant

LEMMA ConsoleInductive ==
  IntakeInvariant /\ ConsoleInvariant /\ [ConsoleNext]_vars => ConsoleInvariant'
<1> SUFFICES ASSUME IntakeInvariant, ConsoleInvariant, [ConsoleNext]_vars
             PROVE  ConsoleInvariant'
  OBVIOUS
<1>1. /\ IntakeTypeOK /\ ApiTypes /\ StampTypes /\ StampInvariant
      /\ WorkspaceTypes /\ ShownInvariant /\ SyncInvariant /\ DetailsInvariant
  BY DEF IntakeInvariant, ConsoleInvariant
<1>2. ASSUME UNCHANGED apiVars
      PROVE  /\ StampTypes' /\ StampInvariant'
             /\ ApiTypes' /\ Api' = Api /\ phase' = phase
  <2>1. UNCHANGED <<phase, projected, withdrawals, request, stamped, crashes>>
    BY <1>2 DEF apiVars, shownVars, serviceVars, intakeVars
  <2>2. StampTypes' /\ StampInvariant'
    BY <1>1, <2>1 DEF StampTypes, StampInvariant, Committed
  <2>3. QED
    BY <1>1, <2>1, <2>2, SameApi
<1>3. CASE ServerStep
  <2>1. UNCHANGED <<page, workspaceVars, details>>
    BY <1>3 DEF ServerStep, consoleVars
  <2>2. /\ StampTypes' /\ StampInvariant'
        /\ projected' \in [Attempts -> Phases]
        /\ \A r \in Attempts : Committed(r) => Committed(r)'
    <3>1. CASE IntakeStep
      BY <1>1, <3>1, IntakeKeepsStamps, IntakeProjects
    <3>2. CASE JudgingStep
      BY <1>1, <3>2, JudgingKeepsStamps, JudgingProjects
    <3>3. CASE \E r \in Attempts, input \in Inputs : Send(r, input)
      <4>1. phase' = phase /\ projected' = projected
        BY <3>3 DEF Send, shownVars, serviceVars
      <4>2. StampTypes' /\ StampInvariant'
        BY <1>1, <3>3, SendKeepsStamps
      <4>3. QED
        BY <1>1, <4>1, <4>2 DEF ApiTypes, Committed
    <3>4. QED
      BY <1>3, <3>1, <3>2, <3>3 DEF ServerStep
  <2>3. ApiTypes' /\ Advances(Api, Api')
    BY <1>1, <1>3, <2>2, WithdrawAdvances DEF ServerStep
  <2>4. QED
    BY <1>1, <2>1, <2>2, <2>3, AdvancingKeepsConsole DEF ConsoleInvariant
<1>4. CASE ConsoleStep
  <2>1. /\ StampTypes' /\ StampInvariant'
        /\ ApiTypes' /\ Api' = Api /\ phase' = phase
    BY <1>2, <1>4 DEF ConsoleStep
  <2>2. CASE SyncStep /\ UNCHANGED <<page, details>>
    <3>1. \/ Tick
          \/ \E slot \in Slots : ListRows(slot) \/ ReadPhases(slot)
          \/ \E slot \in Slots : Answered(slot) \/ Failed(slot)
      BY <2>2 DEF SyncStep
    <3>2. QED
      BY <1>1, <2>1, <2>2, <3>1, TickKeeps, ListRowsKeeps, ReadPhasesKeeps,
         AnsweredKeeps, FailedKeeps DEF ConsoleInvariant
  <2>3. CASE DetailsStep
    BY <1>1, <2>1, <2>3, DetailsKeeps DEF ConsoleInvariant
  <2>4. CASE \E a \in Attempts : OpenDetails(a)
    BY <1>1, <2>1, <2>4, OpenDetailsKeeps DEF ConsoleInvariant
  <2>5. CASE BackToWorkspace
    BY <2>1, <2>5, MountKeeps DEF BackToWorkspace, ConsoleInvariant
  <2>6. QED
    BY <1>4, <2>2, <2>3, <2>4, <2>5 DEF ConsoleStep
<1>5. CASE ComposerStep
  <2>1. PICK r \in Attempts : Submit(r) \/ ReceiveAnswer(r) \/ GiveUp(r)
    BY <1>5 DEF ComposerStep
  <2>2. CASE ReceiveAnswer(r)
    <3>1. UNCHANGED apiVars
      BY <2>2 DEF ReceiveAnswer
    <3>2. QED
      BY <1>1, <1>2, <2>2, <3>1, ReceiveAnswerKeeps DEF ConsoleInvariant
  <2>3. CASE Submit(r) \/ GiveUp(r)
    <3>1. /\ UNCHANGED <<page, shown, sync, newest, told, overtaken, details>>
          /\ UNCHANGED <<phase, projected, withdrawals>>
      BY <2>3 DEF Submit, GiveUp, Send, apiVars, shownVars, serviceVars
    <3>0. ApiTypes' /\ Api' = Api
      BY <1>1, <3>1, SameApi
    <3>2. awaiting' \in SUBSET Attempts
      BY <1>1, <2>3 DEF Submit, GiveUp, WorkspaceTypes
    <3>3. StampTypes' /\ StampInvariant'
      BY <1>1, <1>2, <2>3, SendKeepsStamps DEF Submit, GiveUp
    <3>4. WorkspaceTypes' /\ DetailsInvariant'
      BY <1>1, <3>1, <3>2 DEF WorkspaceTypes, DetailsInvariant
    <3>5. ShownInvariant' /\ SyncInvariant'
      BY <1>1, <3>0, <3>1 DEF ShownInvariant, HiddenOnlyByStaleListing, SyncInvariant
    <3>6. QED
      BY <3>0, <3>3, <3>4, <3>5 DEF ConsoleInvariant
  <2>4. QED
    BY <2>1, <2>2, <2>3
<1>6. CASE UNCHANGED vars
  <2>1. UNCHANGED <<page, workspaceVars, details>> /\ UNCHANGED apiVars
    BY <1>6 DEF vars, consoleVars
  <2>2. UNCHANGED <<phase, projected, withdrawals>>
    BY <2>1 DEF apiVars, shownVars, serviceVars
  <2>3. /\ ApiTypes' /\ Advances(Api, Api') /\ StampTypes' /\ StampInvariant'
        /\ \A a \in Attempts : Committed(a) => Committed(a)'
    BY <1>1, <1>2, <2>1, <2>2, SameApi DEF Committed
  <2>4. QED
    BY <1>1, <2>1, <2>3, AdvancingKeepsConsole DEF ConsoleInvariant
<1>7. QED
  BY <1>3, <1>4, <1>5, <1>6 DEF ConsoleNext

\* Why the list can be trusted: rows that are shown or on their way are of
\* committed attempts, tell their results, and are complete for their time.
THEOREM ConsoleInvariantHolds == ConsoleSpec => []ConsoleInvariant
<1>1. ConsoleInit => ConsoleInvariant
  BY ConsoleInitially
<1>2. QED
  BY <1>1, ConsoleInductive, IntakeInvariantHolds, PTL DEF ConsoleSpec

\* A list without duplicates has as many attempts as rows.
LEMMA DistinctIsListing ==
  ASSUME NEW rows \in Rows, Distinct(rows) PROVE IsListing(rows)
<1> DEFINE L == Len(rows)
           f == [i \in 1..L |-> rows[i].attempt]
<1>1. L \in Nat /\ DOMAIN rows = 1..L
  BY DEF Rows
<1> HIDE DEF L
<1>2. f \in Bijection(1..L, Keys(rows))
  <2>1. f \in [1..L -> Keys(rows)]
    BY <1>1 DEF Keys
  <2>2. \A i, j \in 1..L : f[i] = f[j] => i = j
    BY <1>1 DEF Distinct
  <2>3. \A a \in Keys(rows) : \E i \in 1..L : f[i] = a
    BY <1>1 DEF Keys
  <2> HIDE DEF f
  <2>4. QED
    BY <2>1, <2>2, <2>3 DEF Bijection, Injection, Surjection, IsInjective
<1>3. Cardinality(Keys(rows)) = L
  BY <1>1, <1>2, FS_CountingElements DEF ExistsBijection
<1>4. QED
  BY <1>3 DEF IsListing, Rows, Row, L

\* The console and the intake hold what the code holds, and no list shows an
\* attempt twice.
THEOREM ConsoleTypeCorrect == ConsoleSpec => []ConsoleTypeOK
<1>1. IntakeInvariant /\ ConsoleInvariant => ConsoleTypeOK
  <2> SUFFICES ASSUME IntakeInvariant, ConsoleInvariant PROVE ConsoleTypeOK
    OBVIOUS
  <2>1. ASSUME NEW r \in Attempts
        PROVE  /\ phase[r] \in Phases \cup {"ABSENT"} /\ projected[r] \in Phases
               /\ withdrawals[r] \in 0..MaxWithdrawals[r]
               /\ request[r].step \in Steps /\ request[r].code \in Codes
               /\ Committed(r) \/ Flushed(r) => \E i \in DOMAIN stamped : stamped[i] = r
    BY MaxWithdrawalsAssumption
    DEF IntakeInvariant, IntakeTypeOK, ConsoleInvariant, StampInvariant,
        ApiTypes, Flushed
  <2>2. ASSUME NEW slot \in Slots
        PROVE  /\ sync[slot].step \in {"off", "timer", "sent", "rows", "answered"}
               /\ IsListing(sync[slot].rows) /\ Len(sync[slot].rows) <= PageSize
               /\ sync[slot].told \subseteq Attempts
    <3>1. sync[slot] \in Syncs /\ SoundSync(Api, sync[slot])
      BY DEF ConsoleInvariant, WorkspaceTypes, SyncInvariant
    <3>2. QED
      BY <3>1, DistinctIsListing DEF Syncs, SyncSteps, SoundSync
  <2>3. IsListing(shown)
    BY DistinctIsListing DEF ConsoleInvariant, WorkspaceTypes, ShownInvariant
  <2>4. crashes \in 0..MaxCrashes
    BY DEF ConsoleInvariant, StampTypes
  <2>5. /\ page \in Attempts \cup {"workspace"}
        /\ newest \in Slots \cup {"none"}
        /\ overtaken \subseteq told /\ awaiting \cup told \subseteq Attempts
        /\ details.phase \in PublicPhases \cup {NotShown}
        /\ details.loads \in [Loads -> PublicPhases \cup {"none", "sent"}]
    BY DEF ConsoleInvariant, WorkspaceTypes
  <2>6. QED
    BY <2>1, <2>2, <2>3, <2>4, <2>5 DEF ConsoleTypeOK
<1>2. QED
  BY <1>1, IntakeInvariantHolds, ConsoleInvariantHolds, PTL

\* An attempt the page was told it queued is in the list, unless the listing
\* that replaced it was older or full.
THEOREM HiddenForAReason == ConsoleSpec => []HiddenOnlyByStaleListing
<1>1. ConsoleInvariant => HiddenOnlyByStaleListing
  BY DEF ConsoleInvariant, ShownInvariant
<1>2. QED
  BY <1>1, ConsoleInvariantHolds, PTL

LEMMA AnsweredKeepsResults ==
  ASSUME ConsoleInvariant, NEW slot \in Slots, Answered(slot),
         NEW a \in Keys(shown) \cap Keys(shown')
  PROVE  Follows(EntryShown(a)', EntryShown(a))
<1>1. PICK screen : screen = shown'
  OBVIOUS
<1>2. /\ EntryShown(a) = shown[CHOOSE i \in DOMAIN shown : shown[i].attempt = a]
      /\ EntryShown(a)' =
           screen[CHOOSE i \in DOMAIN screen : screen[i].attempt = a]
  BY <1>1 DEF EntryShown
<1>3. PICK i \in DOMAIN shown :
        shown[i].attempt = a /\ EntryShown(a) = shown[i]
  <2>1. \E i \in DOMAIN shown : shown[i].attempt = a
    BY DEF Keys
  <2>2. QED
    BY <1>2, <2>1
<1>4. CASE slot # newest
  <2>1. screen = shown
    BY <1>1, <1>4 DEF Answered
  <2>2. EntryShown(a)' = shown[i] /\ shown[i].since \in Nat
    BY <1>2, <1>3, <2>1, RowOf DEF ConsoleInvariant, WorkspaceTypes
  <2>3. QED
    BY <1>3, <2>2 DEF Follows
<1>5. CASE slot = newest
  <2>1. screen = sync[slot].rows
    BY <1>1, <1>5 DEF Answered
  <2>2. NotOlder(shown, screen)
    BY <1>5, <2>1 DEF ConsoleInvariant, SyncInvariant, Answered
  <2>3. PICK j \in DOMAIN screen :
          screen[j].attempt = a /\ EntryShown(a)' = screen[j]
    <3>1. \E j \in DOMAIN screen : screen[j].attempt = a
      BY <1>1 DEF Keys
    <3>2. QED
      BY <1>2, <3>1
  <2>4. QED
    BY <1>3, <2>2, <2>3 DEF NotOlder
<1>6. QED
  BY <1>4, <1>5

\* No listing puts an older answer in the place of what is shown, and a result
\* that the list has shown changes only after the API has withdrawn it, however
\* late the answers arrive and whatever becomes of the attempts meanwhile.
THEOREM ListingsAreNeverOlder == ConsoleSpec => ListingsKeepResults
<1>1. ConsoleInvariant /\ [ConsoleNext]_vars =>
        [(\E slot \in Slots : Answered(slot)) =>
           \A a \in Keys(shown) \cap Keys(shown') :
             /\ EntryShown(a).since <= EntryShown(a)'.since
             /\ /\ EntryShown(a).phase \in FINISHED
                /\ EntryShown(a)'.phase # EntryShown(a).phase
                => EntryShown(a).since < EntryShown(a)'.since]_vars
  BY AnsweredKeepsResults DEF Follows
<1>2. QED
  BY <1>1, ConsoleInvariantHolds, PTL DEF ConsoleSpec, ListingsKeepResults

=============================================================================
