--------------------------- MODULE ExecutionQueue ---------------------------
(***************************************************************************)
(* The Redis side: the work stream with its consumer group, and the        *)
(* dead-work stream (adapters/redis_queue.py).  Redis itself is external:  *)
(* what XADD, XREADGROUP ">", XAUTOCLAIM and XACK do is modelled from the  *)
(* way the adapter uses them.                                              *)
(*                                                                         *)
(* The API only ever creates commands of the evaluation class, so the      *)
(* interactive stream is always empty and one work stream is modelled.     *)
(* An entry is named by its position; acknowledged entries stay in the     *)
(* stream, as they do in Redis.  The approximate MAXLEN trimming is left   *)
(* out: a run has far fewer than 100 000 entries.                          *)
(***************************************************************************)
EXTENDS Naturals, Sequences, FiniteSetsExt

VARIABLES
  stream,     \* every command ever added, in order
  delivered,  \* the group's last-delivered entry
  pending,    \* the group's pending entries list
  stale,      \* pending entries that are idle for the visibility timeout
  dead        \* the commands of the dead-work stream

queueVars == <<stream, delivered, pending, stale, dead>>

\* The commands belong to whoever composes the queue with its clients.
QueueTypeOK(Command) ==
  /\ stream \in Seq(Command)
  /\ delivered \in 0 .. Len(stream)
  /\ pending \subseteq 1 .. delivered
  /\ stale \subseteq pending
  /\ dead \subseteq Command

QueueInit ==
  /\ stream = <<>>
  /\ delivered = 0
  /\ pending = {}
  /\ stale = {}
  /\ dead = {}

-----------------------------------------------------------------------------
(* What the adapter does.                                                   *)

enqueue(command) ==
  /\ stream' = Append(stream, command)
  /\ UNCHANGED <<delivered, pending, stale, dead>>

\* reserve: the next entry the group has not seen becomes pending.
reserve(entry) ==
  /\ delivered < Len(stream)
  /\ entry = delivered + 1
  /\ delivered' = entry
  /\ pending' = pending \cup {entry}
  /\ UNCHANGED <<stream, stale, dead>>

\* reserve returns None: the blocking reads time out.
NothingToReserve == delivered = Len(stream)

\* reclaim_stale: every entry idle for long enough changes hands, and the
\* claim makes it busy again.
reclaim_stale ==
  /\ stale' = {}
  /\ UNCHANGED <<stream, delivered, pending, dead>>

\* Mutant: the acknowledgement goes to another group.
AckElsewhere(entry) ==
  /\ stale' = stale \ {entry}
  /\ UNCHANGED <<stream, delivered, pending, dead>>

\* ack: XACK takes the entry off the list, whoever was given it last, and
\* does nothing for an entry that is not on it.
ack(entry) ==
  /\ pending' = pending \ {entry}
  /\ stale' = stale \ {entry}
  /\ UNCHANGED <<stream, delivered, dead>>

\* The first half of retry_or_dead_letter when the budget is exhausted.
dead_letter(command) ==
  /\ dead' = dead \cup {command}
  /\ UNCHANGED <<stream, delivered, pending, stale>>

\* External: time passes and a pending entry reaches the visibility timeout.
BecomeStale(entry) ==
  /\ entry \in pending \ stale
  /\ stale' = stale \cup {entry}
  /\ UNCHANGED <<stream, delivered, pending, dead>>

\* The order in which XAUTOCLAIM lists entries and the dispatcher reads ids.
First(entries) == Min(entries)

=============================================================================
