---------------------------- MODULE CodexStream ----------------------------
(***************************************************************************)
(* The event stream of one attempt of the Codex adapter                    *)
(* (adapters/codex/stream.go): attemptRuntime, filled by the goroutine     *)
(* that reads the native session while Start may still be at work, and     *)
(* eventStream, from which the node's stream worker reads.                 *)
(*                                                                         *)
(* Events pushed before Start has its acknowledgement wait in pending;     *)
(* activate publishes StartedEvent in front of them. Consecutive deltas of *)
(* one message are merged while they wait. A queue that grows past its     *)
(* limit is replaced by a single UnknownEvent and the stream fails.        *)
(*                                                                         *)
(* The events of the provider are numbered in the order they were pushed;  *)
(* an item carries the numbers lo..hi it stands for. StartedEvent is 0.    *)
(***************************************************************************)
EXTENDS Integers, Sequences

CONSTANTS
  Messages,             \* ids of assistant messages
  MaximumQueuedEvents,  \* maximumQueuedEvents
  MaximumQueuedDelta,   \* deltas that fit maximumQueuedDeltaBytes
  MaxPushed             \* bound on the events of the provider

\* What the constants have to be; the modules that put this one to work assume it.
StreamAssumption ==
  /\ MaximumQueuedEvents \in Nat \ {0}
  /\ MaximumQueuedDelta \in Nat \ {0}
  /\ MaxPushed \in Nat
  /\ "none" \notin Messages

VARIABLES
  events,     \* runtime.events
  pending,    \* runtime.pending
  wake,       \* a token is in runtime.wake (capacity 1)
  activated,  \* runtime.activated
  closed,     \* runtime.closed
  failed,     \* runtime.err # nil
  terminal,   \* runtime.terminal: "none", "result" or "unknown"
  deltas,     \* runtime.deltas
  pushed,     \* number of the last event accepted from the provider
  rpc,        \* the reader: no stream yet, between calls, in Next, or ended
  shut,       \* eventStream.closed
  seen,       \* numbers of the events the reader was given
  last,       \* kind of the last item the reader was given
  readDelta   \* per message, the deltas the reader was given

queueVars  == <<events, pending, wake, activated, closed, failed, terminal, deltas, pushed>>
readerVars == <<rpc, shut, seen, last, readDelta>>
vars == <<events, pending, wake, activated, closed, failed, terminal, deltas, pushed,
          rpc, shut, seen, last, readDelta>>

Kinds == {"started", "delta", "item", "terminal", "unknown"}
Items == [kind : Kinds, msg : Messages \cup {"none"}, index : Int, lo : Int, hi : Int]

Plain(kind, n) == [kind |-> kind, msg |-> "none", index |-> 0, lo |-> n, hi |-> n]
Delta(m, n)    == [kind |-> "delta", msg |-> m, index |-> deltas[m], lo |-> n, hi |-> n]

Started == Plain("started", 0)
\* The UnknownEvent that takes the place of a queue stands for none of its events.
Lost    == Plain("unknown", -1)

Init ==
  /\ events = <<>> /\ pending = <<>> /\ wake = FALSE
  /\ activated = FALSE /\ closed = FALSE /\ failed = FALSE
  /\ terminal = "none" /\ deltas = [m \in Messages |-> 0] /\ pushed = 0
  /\ rpc = "none" /\ shut = FALSE /\ seen = {} /\ last = "none"
  /\ readDelta = [m \in Messages |-> 0]

-----------------------------------------------------------------------------
(* appendEventLocked *)

\* A delta joins the last item when that is a delta of the same message with room left.
Merges(queue, m) ==
  /\ queue # <<>>
  /\ queue[Len(queue)].kind = "delta"
  /\ queue[Len(queue)].msg = m
  /\ queue[Len(queue)].hi - queue[Len(queue)].lo + 2 <= MaximumQueuedDelta

\* Mutant of AppendDelta: a merged delta replaces what waits.
AppendDeltaReplaces(queue, m, n) ==
  IF Merges(queue, m)
  THEN [queue EXCEPT ![Len(queue)].lo = n, ![Len(queue)].hi = n]
  ELSE Append(queue, Delta(m, n))

AppendDelta(queue, m, n) ==
  IF Merges(queue, m)
  THEN [queue EXCEPT ![Len(queue)].hi = n]
  ELSE Append(queue, Delta(m, n))

\* Only a delta that starts an item takes an index.
CountDelta(queue, m) ==
  deltas' = IF Merges(queue, m) THEN deltas ELSE [deltas EXCEPT ![m] = @ + 1]

\* overflowLocked: what waited is dropped, the reader is told the outcome is unknown.
Overflowed ==
  /\ pending' = <<>>
  /\ terminal' = "unknown"
  /\ failed' = TRUE
  /\ closed' = TRUE
  /\ wake' = TRUE
  /\ events' = <<Lost>>

-----------------------------------------------------------------------------
(* The session's reader goroutine and Start *)

Queue == IF activated THEN events ELSE pending

\* The queue after an append, when it is within the limit.
Fits(queue) ==
  /\ Len(queue) <= MaximumQueuedEvents
  /\ IF activated THEN events' = queue /\ UNCHANGED pending
                  ELSE pending' = queue /\ UNCHANGED events

\* push of an event that leaves this queue. A queue before activation has no
\* reader and wakes nobody.
Filled(queue) ==
  \/ /\ Fits(queue)
     /\ wake' = (wake \/ activated)
     /\ UNCHANGED <<closed, failed, terminal>>
  \/ Len(queue) > MaximumQueuedEvents /\ Overflowed

PushDelta(m) ==
  /\ ~closed /\ pushed < MaxPushed
  /\ pushed' = pushed + 1
  /\ CountDelta(Queue, m)
  /\ Filled(AppendDelta(Queue, m, pushed + 1))
  /\ UNCHANGED <<activated, readerVars>>

PushItem ==
  /\ ~closed /\ pushed < MaxPushed
  /\ pushed' = pushed + 1
  /\ Filled(Append(Queue, Plain("item", pushed + 1)))
  /\ UNCHANGED <<activated, deltas, readerVars>>

\* finish with the one event its callers give it, a TerminalEvent, and
\* failUnknown, whose event is an UnknownEvent.
Finish(outcome) ==
  /\ ~closed
  /\ pushed' = pushed + 1
  /\ LET queue == Append(Queue, Plain(IF outcome = "result" THEN "terminal" ELSE "unknown", pushed + 1))
     IN \/ /\ Fits(queue)
           /\ terminal' = outcome /\ closed' = TRUE /\ wake' = TRUE
           /\ UNCHANGED failed
        \/ Len(queue) > MaximumQueuedEvents /\ Overflowed
  /\ UNCHANGED <<activated, deltas, readerVars>>

\* Mutant of Activate: what was pending comes before the start.
ActivateBehind ==
  /\ ~activated
  /\ activated' = TRUE
  /\ \/ /\ failed
        /\ wake' = TRUE
        /\ UNCHANGED <<events, pending, closed, failed, terminal>>
     \/ /\ ~failed /\ Len(pending) + 1 <= MaximumQueuedEvents
        /\ events' = Append(pending, Started)
        /\ pending' = <<>>
        /\ wake' = TRUE
        /\ UNCHANGED <<closed, failed, terminal>>
     \/ ~failed /\ Len(pending) + 1 > MaximumQueuedEvents /\ Overflowed
  /\ UNCHANGED <<deltas, pushed, readerVars>>

\* activate, the last step of a dispatch. It may overflow a stream that has
\* already finished: StartedEvent takes a place of its own.
Activate ==
  /\ ~activated
  /\ activated' = TRUE
  /\ \/ /\ failed
        /\ wake' = TRUE
        /\ UNCHANGED <<events, pending, closed, failed, terminal>>
     \/ /\ ~failed /\ Len(pending) + 1 <= MaximumQueuedEvents
        /\ events' = <<Started>> \o pending
        /\ pending' = <<>>
        /\ wake' = TRUE
        /\ UNCHANGED <<closed, failed, terminal>>
     \/ ~failed /\ Len(pending) + 1 > MaximumQueuedEvents /\ Overflowed
  /\ UNCHANGED <<deltas, pushed, readerVars>>

-----------------------------------------------------------------------------
(* The node's stream worker. It opens the stream of an attempt whose Start  *)
(* has returned, and reads until Next fails.                               *)

\* Events, once per attempt (claim).
Claim ==
  /\ activated /\ rpc = "none"
  /\ rpc' = "idle"
  /\ UNCHANGED <<queueVars, shut, seen, last, readDelta>>

Call ==
  /\ rpc = "idle"
  /\ rpc' = "look"
  /\ UNCHANGED <<queueVars, shut, seen, last, readDelta>>

\* Next has an item.
Take ==
  /\ rpc = "look" /\ events # <<>>
  /\ LET item == Head(events)
     IN /\ seen' = IF item = Lost THEN seen ELSE seen \cup (item.lo..item.hi)
        /\ last' = item.kind
        /\ readDelta' = IF item.kind = "delta"
                        THEN [readDelta EXCEPT ![item.msg] = @ + 1] ELSE readDelta
  /\ events' = Tail(events)
  /\ rpc' = "idle"
  /\ UNCHANGED <<pending, wake, activated, closed, failed, terminal, deltas, pushed, shut>>

\* Next has nothing left to give.
End ==
  /\ rpc = "look" /\ events = <<>> /\ closed
  /\ rpc' = IF failed THEN "error" ELSE "eof"
  /\ UNCHANGED <<queueVars, shut, seen, last, readDelta>>

\* Next found nothing and enters its select, the lock released.
Park ==
  /\ rpc = "look" /\ events = <<>> /\ ~closed
  /\ rpc' = "parked"
  /\ UNCHANGED <<queueVars, shut, seen, last, readDelta>>

Wake ==
  /\ rpc = "parked" /\ wake
  /\ wake' = FALSE
  /\ rpc' = "look"
  /\ UNCHANGED <<events, pending, activated, closed, failed, terminal, deltas, pushed,
                 shut, seen, last, readDelta>>

\* Close, or the end of the context the worker reads with.
Close ==
  /\ rpc # "none" /\ ~shut
  /\ shut' = TRUE
  /\ UNCHANGED <<queueVars, rpc, seen, last, readDelta>>

\* The select sees the stream closed.
Leave ==
  /\ rpc = "parked" /\ shut
  /\ rpc' = "left"
  /\ UNCHANGED <<queueVars, shut, seen, last, readDelta>>

Push == PushItem \/ \E m \in Messages : PushDelta(m)
Conclude == \E outcome \in {"result", "unknown"} : Finish(outcome)
Read == Claim \/ Call \/ Take \/ End \/ Park \/ Wake \/ Leave

Next == Push \/ Conclude \/ Activate \/ Read \/ Close

Spec == Init /\ [][Next]_vars

-----------------------------------------------------------------------------
(* Properties *)

\* TypeOK: a type for every variable; a queue is never longer than its limit.
TypeOK ==
  /\ events \in Seq(Items) /\ Len(events) <= MaximumQueuedEvents
  /\ pending \in Seq(Items) /\ Len(pending) <= MaximumQueuedEvents
  /\ wake \in BOOLEAN /\ activated \in BOOLEAN /\ closed \in BOOLEAN /\ failed \in BOOLEAN
  /\ terminal \in {"none", "result", "unknown"}
  /\ deltas \in [Messages -> Nat] /\ pushed \in Nat
  /\ rpc \in {"none", "idle", "look", "parked", "eof", "error", "left"}
  /\ shut \in BOOLEAN /\ seen \subseteq Nat /\ last \in Kinds \cup {"none"}
  /\ readDelta \in [Messages -> Nat]

\* Consecutive items continue one another.
Contiguous(queue) ==
  /\ \A i \in 1..Len(queue) : queue[i].lo <= queue[i].hi
  /\ \A i \in 1..(Len(queue) - 1) : queue[i + 1].lo = queue[i].hi + 1

\* NothingLost: unless the stream failed, what the reader was given and what
\* waits for it are together every event the provider pushed, in order
\* (push, activate and Next of stream.go).
NothingLost ==
  failed \/
  IF activated
  THEN /\ Contiguous(events)
       /\ events = <<>> => seen = 0..pushed
       /\ events # <<>> => seen = 0..(events[1].lo - 1) /\ events[Len(events)].hi = pushed
  ELSE /\ Contiguous(pending)
       /\ events = <<>> /\ seen = {}
       /\ pending = <<>> => pushed = 0
       /\ pending # <<>> => pending[1].lo = 1 /\ pending[Len(pending)].hi = pushed

\* TerminalBeforeEnd: the reader sees the end of the stream only after a terminal
\* or an unknown event: the worker never has to guess how the attempt ended.
TerminalBeforeEnd == rpc \in {"eof", "error"} => last \in {"terminal", "unknown"}

\* NoEarlySleep: a reader asleep in Next while there is something for it has a
\* token waiting in the wake channel.
NoEarlySleep == rpc = "parked" /\ (events # <<>> \/ closed) => wake

\* StreamIsSound: the reader misses nothing, is never left asleep, and learns the
\* end from an event.
StreamIsSound == TypeOK /\ NothingLost /\ TerminalBeforeEnd /\ NoEarlySleep

\* DeltaIndicesAreConsecutive: a delta the reader takes has, as its index, the number
\* of deltas of its message that it was given before, merged or not.
DeltaIndicesAreConsecutive ==
  [][Take /\ Head(events).kind = "delta"
       => Head(events).index = readDelta[Head(events).msg]]_vars

\* ResultIsStable: once Start has returned, a result that Reconcile reported never
\* becomes another.
ResultIsStable ==
  [][activated /\ terminal # "none" => terminal' = terminal]_vars

\* The attempt goes on, or the reader came to the end of its stream.
EndIsRead == closed /\ activated => rpc \in {"eof", "error", "left"}

\* The stream as its reader may rely on it (module EventChannel). A token of the
\* abstract channel is an event of the provider or StartedEvent.
Channel == INSTANCE EventChannel WITH
  sent <- pushed,
  seen <- seen,
  state <- IF failed THEN "cut" ELSE IF closed THEN "ended" ELSE "open"

\* ImplementsChannel: the queues, the activation and the merging implement the
\* channel: in order, without loss, or cut.
ImplementsChannel == Channel!ChanSpec

\* StreamKeepsPromises: what a reader of the stream relies on: the abstract channel,
\* indices it can check, and a result that is final.
StreamKeepsPromises ==
  ImplementsChannel /\ DeltaIndicesAreConsecutive /\ ResultIsStable
=============================================================================
