----------------------------- MODULE EventFeed -----------------------------
(***************************************************************************)
(* The durable event log and a client that follows it (runtime/events.go,  *)
(* replay.go, Snapshot of read.go; the SSE handler events of               *)
(* api/server.go). The handler reads a bounded window of the log under     *)
(* node.mu, writes it to the connection with no lock held, and polls for   *)
(* the next one. A window that touches a deleted dialog is refused: the    *)
(* client must take a snapshot and follow from its lastEventSeq.           *)
(*                                                                         *)
(* The client is the one docs/harness-v1.md describes: it starts from a    *)
(* snapshot, remembers the last sequence number it saw, reconnects with    *)
(* it, ignores what it saw before, and takes a new snapshot when told its  *)
(* cursor is stale.                                                        *)
(***************************************************************************)
EXTENDS Integers, Sequences, FiniteSets, SequencesExt

CONSTANTS
  Dialogs,
  None,          \* no dialog; no connection
  Limit,         \* most events of a window
  Budget,        \* most bytes of a window, MaximumWireBytes - 1024
  Sizes,         \* sizes of an encoded event
  MaxEvents,     \* bound on the log
  MaxDrops,      \* bound on the connections lost
  MaxCrashes     \* bound on the restarts

\* What the constants have to be; the modules that put this one to work assume it.
FeedAssumption ==
  /\ Limit \in Nat \ {0} /\ Budget \in Nat /\ Sizes \subseteq 1..Budget
  /\ MaxEvents \in Nat /\ MaxDrops \in Nat /\ MaxCrashes \in Nat
  /\ None \notin Dialogs

VARIABLES
  log,       \* events, by seq
  cache,     \* node.deletedDialogs
  conn,      \* the SSE handler: last seq written, and the window still to be written
  client,    \* the client: whether it needs a snapshot, and its cursor
  seen,      \* sequence numbers the client took into account
  drops, crashes

vars == <<log, cache, conn, client, seen, drops, crashes>>

(* An event names its dialog in the envelope, in its payload, through its message, or not.   *)
Types == {"node", "attempt", "message.accepted", "message.disposition_changed", "dialog.deleted"}
Event(type, dialog, size) == [type |-> type, owner |-> dialog, size |-> size]
EnvelopeDialog(e) == IF e.type \in {"attempt", "dialog.deleted"} THEN e.owner ELSE None
PayloadDialog(e) == IF e.type = "message.accepted" THEN e.owner ELSE None
MessageDialog(e) == IF e.type = "message.disposition_changed" THEN e.owner ELSE None

Deleted == {log[i].owner : i \in {j \in 1..Len(log) : log[j].type = "dialog.deleted"}}

Init ==
  /\ log = <<>> /\ cache = {} /\ conn = None
  /\ client = [resync |-> TRUE, cursor |-> 0]
  /\ seen = {} /\ drops = 0 /\ crashes = 0

-----------------------------------------------------------------------------
(* appendEvent, in the transaction of what it reports; nothing is reported of a deleted      *)
(* dialog.                                                                                   *)
Append1(type, d, size) ==
  /\ Len(log) < MaxEvents
  /\ type # "dialog.deleted" /\ (type = "node") = (d = None) /\ d \notin Deleted
  /\ log' = Append(log, Event(type, d, size))
  /\ UNCHANGED <<cache, conn, client, seen, drops, crashes>>

(* LogicalDelete: the tombstone event, and the cache once it is committed. *)
DeleteDialog(d, size) ==
  /\ Len(log) < MaxEvents /\ d \notin Deleted
  /\ log' = Append(log, Event("dialog.deleted", d, size))
  /\ cache' = cache \cup {d}
  /\ UNCHANGED <<conn, client, seen, drops, crashes>>

(* The process ends and opens the volume again: connections are gone, the cache is reloaded. *)
Restart ==
  /\ crashes < MaxCrashes
  /\ crashes' = crashes + 1 /\ conn' = None /\ cache' = Deleted
  /\ UNCHANGED <<log, client, seen, drops>>

-----------------------------------------------------------------------------
\* Mutant of BelongsToDeleted: only the dialog of the envelope counts.
EnvelopeScope(e) == e.type # "dialog.deleted" /\ EnvelopeDialog(e) \in cache

(* eventBelongsToDeletedDialog, with deletedMessageScopes. *)
BelongsToDeleted(e) ==
  /\ e.type # "dialog.deleted"
  /\ {EnvelopeDialog(e), PayloadDialog(e), MessageDialog(e)} \cap cache # {}

(* The window after a cursor: at most Limit events, and as many as fit the budget. *)
Rows(after) == SubSeq(log, after + 1, IF after + Limit < Len(log) THEN after + Limit ELSE Len(log))
Bytes(s) == FoldLeft(LAMBDA n, e : n + e.size, 0, s)

\* Mutant of Fits: an event as large as the budget does not fit.
FitsBelowBudget(s) == Bytes(s) < Budget

Fits(s) == Bytes(s) <= Budget

Window(after) ==
  LET rows == Rows(after)
      n == CHOOSE k \in 0..Len(rows) :
             /\ \A i \in 1..k : Fits(SubSeq(rows, 1, i))
             /\ k = Len(rows) \/ ~Fits(SubSeq(rows, 1, k + 1))
  IN SubSeq(rows, 1, n)

(* ReplayEvents succeeds for a cursor the log has reached and a window without deleted work. *)
Replays(after) ==
  /\ after <= Len(log)
  /\ \A i \in 1..Len(Window(after)) : ~BelongsToDeleted(Window(after)[i])

(* The client connects; the first window decides whether it gets a stream or 409 stale. *)
Connect ==
  /\ conn = None /\ ~client.resync
  /\ IF Replays(client.cursor)
     THEN /\ conn' = [last |-> client.cursor, batch |-> Window(client.cursor)]
          /\ UNCHANGED client
     ELSE /\ client' = [client EXCEPT !.resync = TRUE]
          /\ UNCHANGED conn
  /\ UNCHANGED <<log, cache, seen, drops, crashes>>

AfterEvent == conn.last + 1

(* One event is written; the client ignores a sequence number it has. *)
WriteEvent ==
  /\ conn # None /\ conn.batch # <<>>
  /\ conn' = [last |-> AfterEvent, batch |-> Tail(conn.batch)]
  /\ seen' = seen \cup {conn.last + 1}
  /\ client' = [client EXCEPT !.cursor = IF @ < AfterEvent THEN AfterEvent ELSE @]
  /\ UNCHANGED <<log, cache, drops, crashes>>

(* The poll: the next window, or the end of the stream when it is refused. *)
Poll ==
  /\ conn # None /\ conn.batch = <<>>
  /\ conn' = IF Replays(conn.last) THEN [conn EXCEPT !.batch = Window(conn.last)] ELSE None
  /\ UNCHANGED <<log, cache, client, seen, drops, crashes>>

(* The connection is lost; the client may have missed what was not written yet. *)
Drop ==
  /\ conn # None /\ drops < MaxDrops
  /\ conn' = None /\ drops' = drops + 1
  /\ UNCHANGED <<log, cache, client, seen, crashes>>

(* Snapshot: the state of the node with its lastEventSeq, read in one transaction. *)
Snapshot ==
  /\ conn = None /\ client.resync
  /\ client' = [resync |-> FALSE, cursor |-> Len(log)]
  /\ seen' = 1..Len(log)
  /\ UNCHANGED <<log, cache, conn, drops, crashes>>

-----------------------------------------------------------------------------
Follow == Connect \/ WriteEvent \/ Poll \/ Snapshot

Next ==
  \/ \E size \in Sizes : \/ \E type \in Types, d \in Dialogs \cup {None} : Append1(type, d, size)
                         \/ \E d \in Dialogs : DeleteDialog(d, size)
  \/ Follow \/ Drop \/ Restart

Spec == Init /\ [][Next]_vars

-----------------------------------------------------------------------------
Events == [type : Types, owner : Dialogs \cup {None}, size : Sizes]

TypeOK ==
  /\ log \in Seq(Events) /\ Len(log) <= MaxEvents
  /\ cache \subseteq Dialogs
  /\ conn # None => conn.last \in 0..Len(log) /\ conn.batch \in Seq(Events)
  /\ client \in [resync : BOOLEAN, cursor : 0..MaxEvents]
  /\ seen \subseteq 1..MaxEvents
  /\ drops \in 0..MaxDrops /\ crashes \in 0..MaxCrashes

(* The client has no gap: through lost connections, restarts of the node and resynchronising *)
(* it has taken into account every event up to its cursor and nothing the log does not hold. *)
NoGap == seen = 1..client.cursor /\ client.cursor <= Len(log)

(* The handler numbers what it writes as the log does: what is still to be written is the    *)
(* piece of the log after the last event written.                                            *)
StreamFollowsLog ==
  conn # None => \A i \in 1..Len(conn.batch) :
                    conn.last + i \in 1..Len(log) /\ conn.batch[i] = log[conn.last + i]

(* A window read after a dialog was deleted holds nothing of it but its tombstone, whatever  *)
(* way an event names its dialog, and after a restart too.                                   *)
DeletedIsNotReplayed ==
  [][(conn' # None /\ (conn = None \/ Len(conn'.batch) > Len(conn.batch)))
       => \A i \in 1..Len(conn'.batch) :
            conn'.batch[i].type = "dialog.deleted" \/ conn'.batch[i].owner \notin Deleted]_vars

(* The client has no gap up to its cursor, and was sent the log's own numbers in order.      *)
FollowsLog == TypeOK /\ NoGap /\ StreamFollowsLog

(* The feed is sound: it follows the log, and nothing of a deleted dialog is replayed.       *)
FeedIsSound == []FollowsLog /\ DeletedIsNotReplayed

(* The client has taken every committed event into account.                                 *)
UpToDate == client.cursor = Len(log)

=============================================================================
