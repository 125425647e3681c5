------------------------------- MODULE Pages -------------------------------
(***************************************************************************)
(* The paged reads of a node (runtime/pages.go). A list is read page by    *)
(* page, each page in a transaction of its own under node.mu, and between  *)
(* two pages anything may be committed. Dialogs, requests, attempts and    *)
(* the history are continued by an offset that is good for one             *)
(* StateVersion only; the history read from its end and the events of an   *)
(* attempt are continued by an immutable sequence number.                  *)
(*                                                                         *)
(* A client walks one list at a time. The messages are those of            *)
(* dialog Home, the events those of its attempt, the requests the queued   *)
(* ones, the attempts those of the first request.                          *)
(***************************************************************************)
EXTENDS Integers, Sequences, FiniteSets, SequencesExt

CONSTANTS
  Dialogs, Home,
  None,
  Limit,          \* the rows a client asks for
  Budget,         \* most bytes of a page, MaximumWireBytes - 4096
  Sizes,          \* sizes of an encoded message or event
  MaxRows,        \* bound on the messages and on the requests
  MaxVersion      \* bound on the state version

Kinds == {"dialogs", "requests", "attempts", "history", "latest", "events"}
ByOffset == {"dialogs", "requests", "attempts", "history"}
OfHome == {"history", "latest", "events"}

(* What a client has of the list it walks: the ids it got, those of the list as it began,    *)
(* and where the next page is.                                                               *)
Walks == [kind : Kinds, at : Nat, version : Nat, got : Seq(Dialogs \cup Nat),
          start : Seq(Dialogs \cup Nat), done : BOOLEAN]

\* What the constants have to be; the modules that put this one to work assume it.
PagesAssumption ==
  /\ Home \in Dialogs /\ None \notin Dialogs \cup Walks
  /\ Limit \in Nat \ {0} /\ Budget \in Nat /\ Sizes \subseteq 1..Budget
  /\ MaxRows \in Nat /\ MaxVersion \in Nat

VARIABLES
  version,    \* node_state.state_version
  dialogs,    \* dialogs, in the order of their listing
  deleted,    \* the dialogs with a tombstone
  requests,   \* by queue sequence: dialog and status
  messages,   \* by sequence: the size of a message of Home
  events,     \* by seq: of the attempt or not, and its size
  walk        \* what the client has of the list it walks

store == <<dialogs, deleted, requests, messages, events>>
vars == <<version, store, walk>>

Init ==
  /\ version = 0 /\ dialogs = <<Home>> /\ deleted = {}
  /\ requests = <<>> /\ messages = <<>> /\ events = <<>>
  /\ walk = None

-----------------------------------------------------------------------------
(* The commits a read may find itself between. *)
Bump == version' = version + 1

Report(ofAttempt, size) == events' = Append(events, [attempt |-> ofAttempt, size |-> size])

(* dialog.create: dialogs are listed by creation time and id, and the clock is not monotonic. *)
CreateDialog(d, place) ==
  /\ version < MaxVersion /\ d \notin Range(dialogs)
  /\ dialogs' = InsertAt(dialogs, place, d)
  /\ Bump /\ Report(FALSE, 1)
  /\ UNCHANGED <<deleted, requests, messages, walk>>

(* LogicalDelete of a dialog that is quiet. *)
DeleteDialog(d) ==
  /\ version < MaxVersion /\ d \in Range(dialogs) \ deleted
  /\ \A i \in 1..Len(requests) : requests[i].dialog = d => requests[i].status = "ended"
  /\ deleted' = deleted \cup {d}
  /\ Bump /\ Report(FALSE, 1)
  /\ UNCHANGED <<dialogs, requests, messages, walk>>

(* message.enqueue: a message and the request it waits in. *)
Enqueue(d, size) ==
  /\ version < MaxVersion /\ d \in Range(dialogs) \ deleted
  /\ Len(requests) < MaxRows /\ Len(messages) < MaxRows
  /\ requests' = Append(requests, [dialog |-> d, status |-> "queued"])
  /\ messages' = IF d = Home THEN Append(messages, size) ELSE messages
  /\ Bump /\ Report(FALSE, size)
  /\ UNCHANGED <<dialogs, deleted, walk>>

(* A request is dispatched, with the one attempt it gets (a retry is a new request), or ends. *)
Advance(i) ==
  /\ version < MaxVersion /\ requests[i].status # "ended"
  /\ requests' = [requests EXCEPT ![i].status = IF @ = "queued" THEN "active" ELSE "ended"]
  /\ Bump /\ Report(requests[i].dialog = Home, 1)
  /\ UNCHANGED <<dialogs, deleted, messages, walk>>

HomeRuns == \E i \in 1..Len(requests) : requests[i] = [dialog |-> Home, status |-> "active"]

(* An assistant message of the attempt under way. *)
AssistantMessage(size) ==
  /\ version < MaxVersion /\ HomeRuns /\ Len(messages) < MaxRows
  /\ messages' = Append(messages, size)
  /\ Bump /\ Report(TRUE, size)
  /\ UNCHANGED <<dialogs, deleted, requests, walk>>

(* input.respond: a message the state version and the event log say nothing of. *)
AnswerInput(size) ==
  /\ HomeRuns /\ Len(messages) < MaxRows
  /\ messages' = Append(messages, size)
  /\ UNCHANGED <<version, dialogs, deleted, requests, events, walk>>

-----------------------------------------------------------------------------
(* A list as its query orders it: the id a client knows a row by, and its encoded size. *)
Row(id, size) == [id |-> id, size |-> size]
IdsOf(rows) == [i \in 1..Len(rows) |-> rows[i].id]
Numbered(sizes) == [i \in 1..Len(sizes) |-> Row(i, sizes[i])]

(* The elements of a sequence at some of its places, in their order: SelectSeq with a set    *)
(* for its test, as a WHERE leaves them of the rows a query goes through.                    *)
Select(s, places) ==
  LET upTo[i \in 0..Len(s)] ==
        IF i = 0 THEN <<>>
        ELSE IF i \in places THEN Append(upTo[i - 1], s[i]) ELSE upTo[i - 1]
  IN upTo[Len(s)]

(* NOT EXISTS the tombstone: a deleted dialog is not listed, and neither are its requests. *)
Hidden(d) == d \in deleted

DialogRows == [i \in 1..Len(dialogs) |-> Row(dialogs[i], 0)]
RequestRows == Numbered([i \in 1..Len(requests) |-> 0])
EventRows == Numbered([i \in 1..Len(events) |-> events[i].size])
Queued(i) == requests[i].status = "queued" /\ ~Hidden(requests[i].dialog)

Listing(kind) ==
  CASE kind = "dialogs" -> Select(DialogRows, {i \in 1..Len(dialogs) : ~Hidden(dialogs[i])})
    [] kind = "requests" -> Select(RequestRows, {i \in 1..Len(requests) : Queued(i)})
    [] kind = "attempts" -> IF requests[1].status = "queued" THEN <<>> ELSE <<Row(1, 0)>>
    [] kind = "history" -> Numbered(messages)
    [] kind = "latest" -> Reverse(Numbered(messages))
    [] kind = "events" -> Select(EventRows, {i \in 1..Len(events) : events[i].attempt})

(* The rows after a cursor: an offset, a message sequence, an event seq. *)
Older(r, at) == r.id < at

Rest(kind, at) ==
  LET rows == Listing(kind)
  IN CASE kind = "latest" -> Select(rows, {i \in 1..Len(rows) : Older(rows[i], at)})
       [] kind = "events" -> Select(rows, {i \in 1..Len(rows) : rows[i].id > at})
       [] OTHER -> SubSeq(rows, at + 1, Len(rows))

Bytes(rows) == FoldLeft(LAMBDA n, r : n + r.size, 0, rows)
FitsBelowBudget(rows) == Bytes(rows) < Budget

Fits(rows) == Bytes(rows) <= Budget

(* A page: rows are added while there are fewer than Limit and the next one fits. *)
Page(kind, at) ==
  LET rest == Rest(kind, at)
      n == CHOOSE k \in 0..Len(rest) :
             /\ k <= Limit /\ \A i \in 1..k : Fits(SubSeq(rest, 1, i))
             /\ k \in {Limit, Len(rest)} \/ ~Fits(SubSeq(rest, 1, k + 1))
  IN SubSeq(rest, 1, n)

(* encodeCursor, encodeLatestHistoryCursor, the nextCursor of AttemptEvents. *)
NextCursor(kind, at, page) ==
  IF kind \in ByOffset THEN at + Len(page) ELSE Last(page).id

FirstCursor(kind) == IF kind = "latest" THEN MaxRows + 1 ELSE 0

\* Mutant of CursorIsGood: every cursor is bound to its version.
VersionForAll(w) == w.version = version

(* decodeCursor and decodeLatestHistoryCursor: an offset is good for its version only. *)
CursorIsGood(w) == w.kind \in ByOffset => w.version = version

(* What the list is of must be there: the dialog, or the request the attempts are of. *)
Visible(kind) ==
  /\ kind \in OfHome => ~Hidden(Home)
  /\ kind = "attempts" => requests # <<>> /\ ~Hidden(requests[1].dialog)

(* The client begins to walk a list: it asks for the first page. *)
Begin(kind) ==
  /\ walk = None /\ Visible(kind)
  /\ walk' = [kind |-> kind, at |-> FirstCursor(kind), version |-> version,
              got |-> <<>>, start |-> IdsOf(Listing(kind)), done |-> FALSE]
  /\ UNCHANGED <<version, store>>

(* The page at the cursor, or the end of the walk: 409 stale, or 404 when what it is of is gone. *)
Fetch ==
  /\ walk # None /\ ~walk.done
  /\ walk' = IF ~Visible(walk.kind) \/ (walk.got # <<>> /\ ~CursorIsGood(walk)) THEN None
             ELSE LET page == Page(walk.kind, walk.at)
                      more == Len(page) < Len(Rest(walk.kind, walk.at))
                  IN [walk EXCEPT !.got = @ \o IdsOf(page), !.version = version, !.done = ~more,
                        !.start = IF walk.got = <<>> THEN IdsOf(Listing(walk.kind)) ELSE @,
                        !.at = IF more /\ page # <<>> THEN NextCursor(walk.kind, @, page) ELSE @]
  /\ UNCHANGED <<version, store>>

(* The client has the list and turns to another. *)
Forget ==
  /\ walk # None /\ walk.done
  /\ walk' = None
  /\ UNCHANGED <<version, store>>

-----------------------------------------------------------------------------
Commit ==
  \/ \E d \in Dialogs : \/ \E place \in 1..Len(dialogs) + 1 : CreateDialog(d, place)
                        \/ DeleteDialog(d)
                        \/ \E size \in Sizes : Enqueue(d, size)
  \/ \E i \in 1..Len(requests) : Advance(i)
  \/ \E size \in Sizes : AssistantMessage(size) \/ AnswerInput(size)

Next == Commit \/ (\E kind \in Kinds : Begin(kind)) \/ Fetch \/ Forget

Spec == Init /\ [][Next]_vars

-----------------------------------------------------------------------------
TypeOK ==
  /\ version \in 0..MaxVersion
  /\ dialogs \in Seq(Dialogs) /\ IsInjective(dialogs) /\ deleted \subseteq Range(dialogs)
  /\ requests \in Seq([dialog : Dialogs, status : {"queued", "active", "ended"}])
  /\ messages \in Seq(Sizes) /\ Len(messages) <= MaxRows
  /\ events \in Seq([attempt : BOOLEAN, size : Sizes \cup {1}])
  /\ walk \in Walks \cup {None}
  /\ walk # None => /\ walk.version <= version
                    /\ walk.kind \in ByOffset => walk.at \in 0..Len(walk.got)

(* A client that got to the end of a list has every row the list had when it began, once and *)
(* in order, whatever was committed between its pages. Only the history and the events may   *)
(* hold more at their end: what was added while the client was reading.                      *)
WalkIsExact ==
  walk # None /\ walk.done =>
    /\ IsPrefix(walk.start, walk.got)
    /\ walk.kind \in {"history", "events"} \/ walk.got = walk.start
    /\ IsInjective(walk.got)

(* New messages do not invalidate an older cursor: a walk back through the history is given  *)
(* up only when its dialog is deleted.                                                       *)
LatestSurvives ==
  [][walk # None /\ walk.kind \in {"latest", "events"} /\ walk' = None
       => walk.done \/ Hidden(Home)]_vars

(* The pages of a walk put together are the list, as it was when the walk began.             *)
PageIsExact == TypeOK /\ WalkIsExact

(* A client sees a list as it was, and a busy history can be read.                           *)
PagesAreExact == []PageIsExact /\ LatestSurvives

(* The client has come to the end of the list it reads, or was told to begin again.          *)
NoWalkOpen == walk = None \/ walk.done

=============================================================================
