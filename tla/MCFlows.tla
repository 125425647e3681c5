------------------------------- MODULE MCFlows -------------------------------
(***************************************************************************)
(* Seven conversations that must come to an end, on one small instance     *)
(* (MCFlows.cfg): the adapter's calls of its native process; an operator's *)
(* answers to the tools of a turn; the adapter's reader with the stream of *)
(* an attempt; a client with the event feed; a client that repeats its     *)
(* command; a client that walks through a list; and a coordinator that     *)
(* copies a dialog.  They share no state.  Each behaviour is one of them,  *)
(* named by part; the variables of the others stay as they began.          *)
(***************************************************************************)
EXTENDS Integers, Sequences, FiniteSets

CONSTANTS
  Initialize, Interrupts, Others, Requests, NoOne,              \* CodexSession
  Reads, Writes, Questions, MaxRequests, MaximumToolCalls, MaximumInteractions, \* CodexTools
  Messages, MaximumQueuedEvents, MaximumQueuedDelta, MaxPushed, \* CodexStream
  Dialogs, None, Limit, Budget, Sizes, MaxEvents, MaxDrops, MaxCrashes, \* EventFeed
  Ids, Disks, Undecided, Nothing, Dialog, MaxHolds,             \* CommandLog
  Home, MaxRows, MaxVersion,                                    \* Pages
  Bindings, ExportLimit, ExportBudget, SourceChunk, ReplicaChunk, RuneCut,
  TextSizes, MaxMessages, MaxFacts, MaxAssets, MaxLost          \* HistoryReplica

VARIABLES
  part,
  child, reaped, wire, writer, call, result, reply, calls, inbound, asked, open,
  answering, reader, done, shut, cancelled, starter, closer, session, published,
  tools, answerable, answered, pending, results, answer, allow, reading, runs, stopped,
  outcome, waiting, observed, finishing, up, exitOwed, over,
  events, early, wake, activated, closed, failed, terminal, deltas, pushed,
  rpc, left, given, last, readDelta,
  log, cache, conn, client, counted, drops, crashes,
  decided, effects, receipts, deleted, held, holds, disk, reserve, running, hand, answers, outages,
  version, dialogs, tombstones, queue, history, rows, walk,
  entries, facts, commands, texts, assets, removed, streams, copy, synced, lost

Session == INSTANCE CodexSession WITH pending <- calls
Tools   == INSTANCE CodexTools WITH
  inbound <- answerable, call <- answer, cancelled <- stopped
Stream  == INSTANCE CodexStream WITH pending <- early, shut <- left, seen <- given
Feed    == INSTANCE EventFeed WITH seen <- counted
Commands == INSTANCE CommandLog WITH
  outcome <- decided, up <- running, given <- answers, crashes <- outages
Lists   == INSTANCE Pages WITH
  deleted <- tombstones, requests <- queue, messages <- history, events <- rows
Replica == INSTANCE HistoryReplica WITH
  Limit <- ExportLimit, Budget <- ExportBudget, messages <- entries, deleted <- removed

ASSUME FlowsAssumption ==
  /\ Session!SessionAssumption /\ Tools!ToolsAssumption
  /\ Stream!StreamAssumption /\ Feed!FeedAssumption
  /\ Commands!LogAssumption /\ Lists!PagesAssumption /\ Replica!ReplicaAssumption

sessionVars ==
  <<child, reaped, wire, writer, call, result, reply, calls, inbound, asked, open,
    answering, reader, done, shut, cancelled, starter, closer, session, published>>
toolsVars ==
  <<tools, answerable, answered, pending, results, answer, allow, reading, runs, stopped,
    outcome, waiting, observed, finishing, up, exitOwed, over>>
streamVars ==
  <<events, early, wake, activated, closed, failed, terminal, deltas, pushed,
    rpc, left, given, last, readDelta>>
feedVars == <<log, cache, conn, client, counted, drops, crashes>>
commandVars ==
  <<decided, effects, receipts, deleted, held, holds, disk, reserve, running, hand, answers, outages>>
listVars == <<version, dialogs, tombstones, queue, history, rows, walk>>
replicaVars ==
  <<entries, facts, commands, texts, assets, removed, streams, copy, synced, lost>>
adapterVars == <<sessionVars, toolsVars, streamVars>>
storeVars == <<feedVars, commandVars, listVars, replicaVars>>
vars == <<part, adapterVars, storeVars>>

Init ==
  /\ part \in {"session", "tools", "stream", "feed", "commands", "lists", "replica"}
  /\ Session!Init /\ Tools!Init /\ Stream!Init
  /\ Feed!Init /\ Commands!Init /\ Lists!Init /\ Replica!Init

SessionStep ==
  /\ part = "session" /\ Session!Next
  /\ UNCHANGED <<part, toolsVars, streamVars, storeVars>>

ToolsStep ==
  /\ part = "tools" /\ Tools!Next
  /\ UNCHANGED <<part, sessionVars, streamVars, storeVars>>

StreamStep ==
  /\ part = "stream" /\ Stream!Next
  /\ UNCHANGED <<part, sessionVars, toolsVars, storeVars>>

FeedStep ==
  /\ part = "feed" /\ Feed!Next
  /\ UNCHANGED <<part, adapterVars, commandVars, listVars, replicaVars>>

CommandStep ==
  /\ part = "commands" /\ Commands!Next
  /\ UNCHANGED <<part, adapterVars, feedVars, listVars, replicaVars>>

ListStep ==
  /\ part = "lists" /\ Lists!Next
  /\ UNCHANGED <<part, adapterVars, feedVars, commandVars, replicaVars>>

ReplicaStep ==
  /\ part = "replica" /\ Replica!Next
  /\ UNCHANGED <<part, adapterVars, feedVars, commandVars, listVars>>

Next ==
  SessionStep \/ ToolsStep \/ StreamStep \/ FeedStep \/ CommandStep \/ ListStep \/ ReplicaStep

\* Goroutines, handlers and runners run to their end, a call of a dead process
\* gives up, a client follows the feed and asks for page after page, a
\* coordinator keeps asking for every binding, and the node is started again
\* after a crash. A client that repeats its command is strongly fair: not every
\* answer to it is lost. Nothing obliges the native process, the provider or an
\* operator to answer, the adapter to close its session, a deadline to pass, or
\* anyone to commit anything.
Fairness ==
  /\ \A c \in Session!Calls :
       WF_sessionVars(part = "session" /\ (Session!CallSteps(c) \/ (Session!GiveUp(c) /\ done)))
  /\ WF_sessionVars(part = "session" /\ Session!ReaderSteps)
  /\ WF_sessionVars(part = "session" /\ Session!ShutdownSteps)
  /\ WF_sessionVars(part = "session" /\ Session!StarterSteps)
  /\ WF_sessionVars(part = "session" /\ (Session!CloserStops \/ Session!Shutdown("closer")))
  /\ WF_sessionVars(part = "session" /\ Session!Shutdown("starter"))
  /\ WF_toolsVars(part = "tools" /\ Tools!FinishQuestions)
  /\ WF_toolsVars(part = "tools" /\ Tools!FinishEnds)
  /\ WF_toolsVars(part = "tools" /\ Tools!HandleExit)
  /\ \A r \in Tools!ToolRequests :
       WF_toolsVars(part = "tools" /\ (Tools!Check(r) \/ Tools!Run(r) \/ Tools!RunReturns(r)))
  /\ \A r \in Tools!Asks :
       WF_toolsVars(part = "tools" /\ (Tools!Respond(r) \/ Tools!Wait(r)))
  /\ WF_streamVars(part = "stream" /\ Stream!Read)
  /\ WF_feedVars(part = "feed" /\ Feed!Follow)
  /\ \A id \in Ids :
       /\ SF_commandVars(part = "commands" /\ Commands!Repeat(id))
       /\ SF_commandVars(part = "commands" /\ Commands!DeliverTo(id))
  /\ WF_commandVars(part = "commands" /\ Commands!Handle)
  /\ WF_commandVars(part = "commands" /\ Commands!Open)
  /\ WF_listVars(part = "lists" /\ Lists!Fetch)
  /\ \A b \in Bindings : WF_replicaVars(part = "replica" /\ Replica!Export(b, TRUE))

Spec == Init /\ [][Next]_vars /\ Fairness

-----------------------------------------------------------------------------
\* The reader of an attempt's events misses nothing, is never left asleep, and
\* learns the end from an event (CodexStream).
StreamIsSound == part = "stream" => Stream!StreamIsSound

\* The queue, the activation and the merging of deltas implement the abstract
\* channel, with indices that count and a result that is final (CodexStream).
StreamKeepsPromises == Stream!StreamKeepsPromises

\* A client of the event feed has no gap up to its cursor and is sent nothing of
\* a deleted dialog (EventFeed).
FeedIsSound ==
  [](part = "feed" => Feed!FollowsLog) /\ Feed!DeletedIsNotReplayed

\* What was begun comes to its end, again and again: the exit of the process is
\* reported and every call and Close return (CodexSession), the answers of an
\* operator return (CodexTools), the reader reaches the end of a finished stream
\* (CodexStream), a client that follows catches up with the log (EventFeed), one
\* that repeats a decided command has its receipt (CommandLog), one that walks a
\* list gets to its end (Pages), and a coordinator has all of a dialog that can be
\* exported (HistoryReplica).
EverythingArrives ==
  []<>(/\ Session!NothingLeftOver /\ Tools!Answers /\ Stream!EndIsRead /\ Feed!UpToDate
       /\ Commands!ReceiptIsKnown /\ Lists!NoWalkOpen /\ Replica!CopyIsFull)
=============================================================================
