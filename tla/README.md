# Harness node: TLA+ models and proofs

A harness node takes messages of dialogs over an authenticated HTTP API, keeps
them in a SQLite store, and executes them one at a time through an adapter that
talks to an agent provider (Codex). Its hard promise is about uncertainty: a
native turn may be running, or an effect may have happened, when the node does
not know it, and the node must then neither start anything else nor execute the
input again.

This directory models that node in three layers:

* the **node**: durable rows, command handlers, the executor with its
  goroutines, the observation of the adapter stream, the barriers around it
  (holds, deletion, settings, login) and the crash of the process;
* the **adapter**: dispatch and the native mapping, verification of a thread,
  the session with the native process, tools and approvals, the event stream of
  an attempt, the login manager;
* what the node **keeps and shows**: the log of commands with their receipts,
  the event feed, paged lists, artifacts on the disk, the exported history, the
  settings and their file.

TLC checks each on small instances. For every instance TLAPS proves each safety
property these runs check, two of them under the hypothesis that no transaction
of a worker is lost, and both refinements (section 4).

## 1. The system

| Component (source) | State it keeps | Operations | What makes it correct |
|---|---|---|---|
| Store (`runtime/schema.go`, `sql.go`) | messages, requests, attempts, control_actions, approvals, input_requests, tool_calls, holds, `node_state` | transactions under `node.mu` | rows, slot and counters agree after every transaction |
| Command handlers (`command_handlers.go`, `control_handlers.go`, `failed_tail_retry.go`) | none of their own | create, enqueue, cancel, resume, stop, retry, steer, respond | queue capacity, order of inputs, retry only of a settled execution |
| Command log (`command.go`, `reserve.go`) | outcomes by command id, the control reserve | submit, replay, status | a command takes effect once, whatever is lost; a repetition gets its receipt; a control command gets through on a full disk |
| Executor (`dispatch.go`, `actions.go`) | the candidate of `DispatchNext`, three lanes, one goroutine per claimed action, `startGate` | peek and commit of a dispatch, claim, adapter calls, outcomes | at most one native turn; no start through a stop, hold, login or settings change; every action gets an outcome |
| Observation (`observe.go`, `stream_lifecycle.go`, `output_budget.go`) | the stream registration, the budget column | waits, tools, terminals, unknown outcomes, budget | an ended attempt stays ended; an attempt over budget is stopped |
| Reconciliation (`reconcile.go`) | the fence before and after the adapter call | `ReconcileUnknown` | only the fenced attempt is settled and only without unresolved effects |
| Holds, deletion (`hold.go`, `logical_delete.go`) | holds, tombstones | install, release, quiescence proof, delete | a held scope starts nothing; quiescence is stable; a deleted dialog is inert |
| Settings fence and login (`settings_fence.go`, `provider_auth.go`) | `settingsBarrier`, `settingsNotReady`, login state | begin, swap, release; start, check, cancel, complete | a swap is alone; a start has a proved login |
| Startup recovery (`recovery.go`) | none | `recoverStartup` | outcomes are never guessed |
| Event log (`events.go`, `replay.go`, `api/server.go`) | events by seq, `deletedDialogs`, a connection's window | append, replay, SSE loop, snapshot | a client has no gap and is sent nothing of a deleted dialog |
| Paged lists (`pages.go`) | none; cursors are with the client | dialogs, requests, attempts, history from either end, events of an attempt | the pages of a walk put together are the list |
| Artifacts (`artifact.go`, `safe_text.go`, `artifact_recovery.go`) | files, their rows, the usage of an attempt | publish, upload, clean up, reconcile | a row has its file, a file its owner, through rollback and loss of power |
| History export (`history_export.go`, `internal/historyreplica`) | one append-only stream per binding | materialise, page | the stream never contradicts itself and ends up complete |
| Adapter: dispatch (`adapters/codex/adapter.go`, `store.go`, `failed_tail_retry.go`) | the mapping file, `byThread`, `byTurn`, `dispatchMu` | Start, Resume, retry, prior terminal | nothing is asked for twice or without a record |
| Adapter: session (`bridge.go`, `session.go`) | pending calls, inbound requests, flags | call, reply, request, answer, handshake, exit, Close | one answer per request, one sender per call, everyone returns |
| Adapter: tools (`events.go`, `adapter.go`) | tools, approvals, inputs, outcome | item and approval handlers, answers, end of the turn | a tool runs once and only when allowed; the reported effect is true |
| Adapter: stream (`stream.go`) | two queues, wake token, terminal | push, activate, finish, Next | nothing is lost silently, the reader never sleeps through |
| Login manager (`adapters/codex/provider_auth.go`) | the login record and its file, `authBusy`, `authCompletions` | start, check, cancel, logout, completion, expiry, recovery | authorization is earned by a completed flow; no command is sent twice; a pending login ends |
| Settings service (`internal/nodesettings/service.go`) | draft, applied settings, receipts and their file | update, apply (`runApply`), undo, recovery | a ready node runs what it reports as applied; no command is applied twice; every operation ends |
| Recovery tools, tool runner, canonical JSON and validation, HTTP shell, logging, fixture | see `PROJECT.json` | | not modelled, section 6 |

Interactions. HTTP handlers call `SubmitCommand`, which looks the command id up,
runs the command handler in a transaction with the receipt, and wakes the
executor loop. The loop commits dispatches and claims control actions; each
claimed action is a goroutine that calls the adapter without a lock and records
the outcome in one or two later transactions. In the adapter a start runs under
`dispatchMu` against the goroutine that reads the native process, which may
report events of the turn, even its end, before the start has its answer. The
adapter's stream is read by the dispatch goroutine after the start; stops,
steers and responses run in lanes of their own, so that they can overtake it.
Holds, login and settings meet the executor only through `startGate`,
`settingsBarrier` and the rows. Clients read the event log, the lists, texts and
exports between any two of these transactions.

What is hard here: every check is made in an earlier transaction than the
action it protects; outcomes of calls arrive after the attempt was stopped,
ended or recovered; several outcomes take two transactions; a crash loses every
goroutine and no row; a file may be renamed and not yet safe; an answer may be
lost after its effect; the provider goes on during all of it. `PROJECT.json`
lists each such place with its line under `hazards`.

## 2. Modules

    NodeStore <- NodeCommands <- NodeExecutor <- NodeObserve <- NodeBarrier
                                                                    ^
                                                MCHarnessNode -> HarnessNode
                                                                    ^
                           HarnessOrder_proofs -> HarnessNode_proofs

    MCProviderLogin -> ProviderLogin <- ProviderLogin_proofs

    Mapping_proofs      -> MCDurable -> CodexMapping, NodeSettings
    NodeSettings_proofs -> MCDurable
    Native_proofs       -> MCNative  -> CodexTools, CodexSession, CodexVerify
    Flows_proofs        -> MCFlows   -> CodexSession, CodexTools, CodexStream, EventFeed,
                                        CommandLog, Pages, HistoryReplica
    Storage_proofs      -> MCStorage -> CommandLog, Artifacts, Pages, HistoryReplica

    CodexStream implements EventChannel;   CommandLog implements ExactlyOnce

In the first line each module extends the one to its left and adds the actions
of its component; `HarnessNode` adds the crash, the next-state relation, fairness
and the properties. Components that share no state are modules of their own.
`map` in `PROJECT.json` gives the lines of every definition.

### The node

* **NodeStore**: rows as functions over row numbers, `node_state` as one
  variable per column, the process (`cand`, `pc`, `gate`, `barrier`,
  `settingsOk`, `auth`, `reconciling`) and the provider (`turn`, `delivered`).
  Row numbers are insertion order, so `queue_sequence` and generations need no
  columns. `SetAttemptUnknown` and `ApplyTerminal` are the shared transitions
  of `setAttemptUnknown` and `applyTerminal`; `OneActiveIndexAllows` is the
  unique index `one_active_attempt`.
* **NodeCommands**: one action per command kind. A rejected command changes
  nothing and is not a step. `ControlState` is the low-storage branch every
  control command takes.
* **NodeExecutor**: `PeekDispatch`, `BlockPolicy`, `CommitDispatch` and
  `DropCandidate` are the halves of `DispatchNext` around the policy lookup,
  which holds no lock. `pc[c]` is where the goroutine of action `c` stands: a
  dispatch goes `claimed -> calling -> started | rejected | uncertain`, then
  through `finish_*` (the transaction of `finishAction`), and after a start on to
  `opening -> streaming -> closing`. `IssueTurn` is the moment the provider has
  the request, which is not the moment the call returns (`StartReturns`).
  `FinishSteer` and `FinishResponse` are followed by the separate transaction of
  `FinishAction`.
* **NodeObserve**: the stream's events, `ProjectTerminal`
  (`prepareTerminalProjection` with its duplicate and unresolved-control
  branches), unknown outcomes, the budget (`ChargeOutput`), reconciliation in its
  two fenced halves, and the provider itself.
* **NodeBarrier**: holds, the quiescence proof, deletion, settings, login.
* **HarnessNode**: composition. `Restart` is the crash and `recoverStartup`
  together: nothing else runs in between.

Here the adapter is nondeterministic within its contract: a call may return any
outcome the contract allows for what really happened, so `unknown` is always
possible, `started` implies the provider has the turn, and a rejected or absent
answer implies it never will. What the adapter does to keep that contract is in
the next group; that one implies the other is argued, not checked.

### The adapter

* **CodexMapping**: `dispatch` at the grain of its calls and writes
  (`thread -> verify -> begin -> send -> sent -> activate -> activated`) against
  the reader's notices, the exit of the process and the crash of the node.
  `contents` is what the adapter reads, `files` every mapping a restart may find:
  a write whose directory was not synchronised leaves two, and poisons the store.
  Attempts are numbered by generation; a thread and a turn have the number of the
  attempt they were made for.
* **CodexVerify**: the page loops of `verifyThreadFeatures` and
  `verifyMCPInventory` over anything an App Server may return.
* **CodexSession**: calls, replies, requests, answers, the handshake, exit and
  `Close`, one step between two uses of a lock or channel.
* **CodexTools**: the handlers of one turn. `tools` and `pending` are the maps of
  the code; `runs` and `allow` record what really ran and was allowed, for the
  properties. An id of a request of the native process is taken not to be used
  again once it is settled.
* **CodexStream**: `attemptRuntime` and `eventStream`. Events are numbered as
  they are pushed, and an item carries the numbers it stands for, so that merging
  is visible. **EventChannel** is the promise: events in order, none left out, or
  the stream is cut and says so. `ImplementsChannel` is the mapping: what was
  accepted, what the reader has, and whether the stream is open, ended or cut.
* **ProviderLogin**: each handler is split where it calls the App Server without
  a lock: the receipt (`StartAuth`, `Check`, `CancelAuth`, `Logout`), the call
  (`Native*`, external), and the answer (`*Returns`). `completeProviderLogin` is
  `CompleteLogin`, `NativeReadBack` and `LoginRead`, a goroutine per login; the
  stash keeps completions that overtook the answer of their start. `overdue` and
  `Expire` are the deadline and whoever notices it.

### What the node keeps and shows

* **CommandLog**: `SubmitCommand` around the handlers: look-up by id, checks,
  release of the control reserve, the transaction that records outcome and effect
  together, refill, answer; and a client that may lose the answer and ask again.
  `hand` is the command being served: `node.mu` admits one. **ExactlyOnce** is the
  promise: an id is decided once, takes effect in the same step if accepted, and
  every receipt given for it is that one.
* **EventFeed**: the log, the cache of deleted dialogs, the SSE handler with the
  window it still has to write, and the client of `docs/harness-v1.md`.
* **Pages**: six lists and the two kinds of cursors, walked by a client while
  commits go on. `start` in a walk is what the list was when it began.
* **Artifacts**: `files`, `temps` and `unsynced` are the directory, `rows` and
  `usage` the committed rows. The observer publishes the files of a text step by
  step inside its transaction; `StoreArtifact` publishes before its own. A
  `Commit` that reports an error may have happened. `Open` is
  `reconcileArtifactFiles`.
* **HistoryReplica**: `Candidates` is the dialog as it would be exported now,
  `streams` what is sealed per binding, `Export` one page with the
  materialisation before it; `delivered` says whether the coordinator got it.
* **NodeSettings**: `mem` is the state of the service, `disk` the file as it is
  read now, `durable` the set of files a loss of power may leave. A write
  (`Persist`) is durable, fails before the rename, or is indeterminate: renamed
  but not synchronised. `pc[c]` is the step of `runApply` for command `c`:
  `begun -> checked -> waiting -> fenced -> stopping -> applied -> confirmed`,
  with `failing`, `broken`, `undo`, `reverted` and `unreverted` for the ways it
  goes wrong, and `orphan` for a receipt whose write was indeterminate and whose
  goroutine was never started. `Restart` chooses a file and whether the applied
  settings could be restored.

`NodeBarrier` sees the settings service and the login manager through what they
do to the node: a fence that is taken and released, readiness that is withdrawn,
a login that is proved or not. That its actions cover everything the two modules
do is not shown.

### Mutants

Beside some definitions there is a second one, marked `Mutant of`, that nothing
in the model uses. It is the definition with a plausible mistake. Putting it in
the place of the original makes TLC violate the property that `PROJECT.json`
pairs it with, which shows that the property depends on that part of the code.

## 3. Runs

`tlc -config <cfg> <module>`, with the module and cfg `PROJECT.json` names. All
bounds are constants.

Four MC modules put several components, which share no state, into one run: each
behaviour belongs to one `part`, chosen in the initial state, and the variables
of the other parts keep their initial values. This checks each component alone,
as a run of its own would; it says nothing of their interaction.

| Run | Instance | Shows |
|---|---|---|
| control | 2 messages, 2 requests, 2 attempts, 3 actions, worker transactions that fail | `TypeOK`; `LiveTurnOwnsSlot`; `RowsAgree` (slot, rows, counter); `DialogInputOrder`; `StartIsFenced`, here the pause after a stop |
| stream | as control, 1 wait, a budget that may run out at any event, failures of task and policy, missing policies, a crash at any step | `SteeredNeverStarted`; `NothingIsStranded`; `OverBudgetIsStopped`; `RerunOnlyAfterSettled`; `EndedStaysEnded` |
| barrier | 2 symmetric dialogs, 2 messages, 2 actions | `DeletedIsInert`; `SwapIsExclusive`; `StartIsFenced` under holds, login and settings; `QuiescenceIsStable` |
| liveness | 2 messages, 3 actions, ample and low storage, `FairSpec` | `ExecutorProgress`: queued requests leave the queue, accepted actions get an outcome |
| auth | 2 commands, a stash of 1, `FairSpec` | completions, deadlines, lost answers, writes as above: `AuthorizationIsEarned`, `NativeOncePerCommand`, `NotRevived`, `PendingEnds` |
| durable | *faults*: 2 attempts, 1 failed or indeterminate write, 1 crash, 2 processes; *tail*: a third attempt behind two ended ones, two policies, the same faults; *settings*: 2 commands, 2 configurations, 2 revisions, any write may fail or be indeterminate, restarts and losses of power; under fairness | `MappingIsTrue`: what a restart finds covers what was asked for and told, and confirms no end of a turn that runs; `DialogIsStable`; `DispatchEnds`; through the undo of settings, `ReadyRunsApplied`, `CommandAppliesOnce`, `OperationEnds` |
| native | *approvals*: a tool requested twice; *asked*: a tool and a question; *reads*: two read commands; *session*: three calls and a request; *verify*: three names, two wanted, three pages of two entries | `EffectsAreTrue`, `AnswersAreTrue`, `EndIsQuiet`, `SessionIsSound`, `VerifiedMeansEnforced` |
| storage | *commands*: 2 ids, 3 payloads, a hold, a deletion, a full disk, a crash; *files*: 2 texts and an upload, a loss of power; *limits*: 3 texts; *lists*: 3 dialogs, 3 rows, pages of 2; *replica*: 2 bindings, 2 messages, texts of two sizes, one of which may miss its manifest | `CommandsAreSound`, `KeepsPromise`, `ArtifactsAreKept`, `UsageIsSound`, `PagesAreExact`, `ReplicaIsSound` |
| flows | *session, tools, stream, feed, commands, lists, replica*, smaller, under fairness | `StreamIsSound`, `StreamKeepsPromises` (the refinement of `EventChannel`), `FeedIsSound`, and `EverythingArrives`: what was begun comes to its end |
| unknown_reason, steer_lost, export_refused | the smallest that show it; the last is that of storage | the three findings of section 5 |

`TypeOK` of a component is checked in its run: by itself in control, and as a
conjunct of the component's first property elsewhere; for the settings service
and the login manager it is proved.

Deadlock is checked for the login manager, where a restart is always possible.
The others may stop legitimately: a node without work, a stream that was read to
its end, a bound that was reached.

### Why the bounds are enough

*Node.* A node has one slot and the races are between one attempt and its
controls or its successor, so two attempts and two inputs of one dialog meet
every pair of operations. Two dialogs are needed only where scopes differ. A
queue of two lets an input be overtaken; that a third would be refused is the
guard of enqueue and retry alone, which these bounds do not put to the test. `ControlCapacity = 2`
stands for the six slots of the control lane: more than one, and it can be full.
Bounds on rows are in the guards of the actions that insert them; `Features`
selects the operations of a run.

*Settings, login.* One operation runs at a time and one login is pending, so the
races are between an operation and one other command: its successor, its cancel,
a check or a logout. Two configurations tell the draft, the applied settings and
the initial ones apart. A stash of one stands for the four entries of the code:
it can be full.

*Adapter.* `dispatchMu` admits one dispatch, so the races are between it, the
reader and the exit of the process. Two attempts reach a resume after every
fault; the third, of part *tail*, is the retry behind an ended attempt, which
needs two that ended. One crash and one bad write can fall at any step. In
a turn two requests per item reach the repeated request; limits of one tool call
and one interaction are reached and exceeded. The queue of the stream holds
three, so that two merged messages and an end fill it.

*Store.* Two command ids tell a repetition from another command, and each
payload has its own path. Two texts and an upload meet on the disk. In *limits* a
second long text would leave no room for the marker, and a third of any length is
one source too many; the limits of bytes and of chunks are then passed as well,
never alone. The pages are of two
rows over lists of three, and a message as large as a page tests the byte budget;
the list of requests shares its cursor with that of dialogs. One dialog is
enough in the feed of *flows*: events without a dialog play the others. Pages
lost on the way to a coordinator are in *flows*, two bindings in *storage*. A text
of 5 in source chunks of at most 4 has the pieces its size says however it is cut;
one of 6 has them as 4 and 2, and not as 3 and 3, so a dialog that can be exported
and one that cannot are both there.

`NothingIsStranded` and `SteeredNeverStarted` are checked without failing
transactions. With them the first is not promised (an ignored error of `Observe`
leaves the attempt to the next restart) and the second fails (section 5). A
failed write of `requeueAction`, which has the same effect as the lost update of
`finishAction`, is not represented.

### Fairness

Node: weak fairness of the executor loop (`actionLoop` wakes on every signal and
at least once a second), of every claimed goroutine (none is abandoned while the
process lives, and every adapter call is assumed to return), and of the stream's
end (a stream delivers the terminal of a turn that ended, or closes). Nothing is
assumed of the provider, of operators or of the host. The queue's half of
`ExecutorProgress` therefore takes as a hypothesis that turns end, and both
halves name `BoundReached`, the point at which the model has no row left for a
candidate.

Settings service: `runApply` goes on while the process lives; each of its calls
has a deadline. Login manager: the clock moves on and somebody looks at the
record after the deadline, which the executor does in every round; nothing is
assumed of the App Server, whose answers may never come.

Dispatch: every call has a deadline (`operationContext`), and the reader's
handlers run to their end.

Flows: goroutines, handlers and runners run to their end; a call of a session
that is done gives up; a client follows the feed and asks for page after page; a
coordinator asks again; the node is started again after a crash. Only the client
that repeats a command is strongly fair: of infinitely many attempts one gets
through and one answer arrives. Nothing obliges the native process to answer or
exit, an operator to answer, anyone to commit or to close, or a deadline to pass.

## 4. Proofs

`HarnessNode_proofs` proves, for every number of dialogs, rows and lanes and
every choice of operations:

* `TypeCorrect`: `Spec => []TypeOK`;
* `TurnExclusion`: `Spec => []LiveTurnOwnsSlot`: no native turn is requested or
  alive whose attempt does not own the slot;
* `OneLiveTurn`: two native turns are never alive together;
* `Invariance`: the inductive invariant they follow from.

`LiveTurnOwnsSlot` is not inductive: nothing in it prevents a dispatch whose
attempt already lost the slot from issuing its turn. The invariant is

    IInv == TypeOK /\ RowInv /\ SlotInv /\ GateInv /\ TurnInv /\ LiveTurnOwnsSlot

* `RowInv`: a row that exists points to rows that exist;
* `SlotInv`: the attempt in the slot is exactly the one in an active state;
* `GateInv`: a dispatch between `EnterDispatch` and `FinishAction` owns
  `startGate`, so there is at most one, and none during a swap of settings;
* `TurnInv`: a dispatch in its adapter call that has not asked for its turn
  still owns the slot, because nothing ends an attempt that was not started
  except that dispatch itself; and a rejected dispatch has left no live turn.

The argument: `IssueTurn` needs a goroutine in `calling`, which by `TurnInv`
owns the slot. The slot is left through `ApplyTerminal` or `ProjectTerminal`,
whose guards say that the turn is over or never began. It is taken by
`CommitDispatch`, when it is free, and by
`SetAttemptUnknown`, which for an ended attempt is let through only by the
unique index, that is, when no other attempt is active. `Restart` keeps the
active attempt in the slot as unknown, so what the provider still does stays
accounted for.

Assumptions are those of the modules: the bounds are natural numbers
(`BoundsAssumption`), `"node"` and `"none"` are no dialogs
(`DialogsAssumption`), and the sets that select inputs have the right members
(`StorageAssumption`, `ExecutorAssumption`, `ObserveAssumption`,
`FeaturesAssumption`). The proof has one lemma per action, each with one step
per conjunct it can disturb, and lemmas for the shared transitions
(`UnknownTakesSlot`, `TerminalKeepsSlotInv`, `ChargeOutputInv`).

`ProviderLogin_proofs` proves, for every set of commands and stash capacity,
`LoginTypeCorrect`, `AuthorizationEarned` (`Spec => []AuthorizationIsEarned`) and
`NativeOnce` (`Spec => []NativeOncePerCommand`), from

    IInv == TypeOK /\ StoreInv /\ CallInv /\ FlowInv /\ NativeOncePerCommand

A record is `Honest` when it has the receipt of every command that may have
reached the App Server and claims no authorization and no success without a
completed flow. `StoreInv` says that of the record, of the file and of every file
a loss of power may leave, so a restart cannot forget a command. `CallInv` says
that a call that is still waiting was never made, so a flow is opened only where
there was none; hence `FlowInv`: a completion that is under way is that of a flow
that is, and stays, completed. The one assumption is `LoginAssumption` (a natural
number; `"no operation"` is no command).

`NodeSettings_proofs` proves, for every set of commands and configurations and
every number of revisions, `SettingsTypeCorrect`, `RunsApplied`
(`[]ReadyRunsApplied`) and `AppliesOnce` (`[]CommandAppliesOnce`), each of the
service alone (`Service!Spec`) and as `MCDurable` puts it to work (`PartsSpec`),
from

    IInv == TypeOK /\ StoreInv /\ WorkInv /\ FenceInv /\ AgreeInv /\ CommandAppliesOnce

`StoreInv`: no file that may come back lacks the receipt of a command that was
taken up. `WorkInv`: one operation is running, and it is the one whose goroutine
works. `FenceInv`: one goroutine holds the fence, and the settings it would go
back to are the applied ones. `AgreeInv`: process, record and file agree on a
ready node except at the steps it names, all under the fence. The difficult step
is `Confirm`: after it the receipt says `succeeded` while an undo may still be
under way, so another apply can start; it waits for the fence and reads the
applied settings, which the undo does not change. Assumption:
`SettingsAssumption` (the initial settings and the markers are no configurations
or commands, the bound is a natural number).

The invariants were checked as invariants of the runs' instances before they
were proved.

### The other properties of the node

The rest of `HarnessNode_proofs`, and `HarnessOrder_proofs`, build on `IInv`, in
layers, each inductive relative to the ones before it:

| Layer | Says | Proves |
|---|---|---|
| `RefInv` | a request names a message that exists; the request of an attempt has left the queue | |
| `ActInv`, `StageInv` | a pending action has no goroutine, one being performed is inflight; an attempt has one dispatch, and before its start is recorded it does not run, asks for nothing and is steered by nobody | |
| `RowsInv` | a steer under way keeps its attempt in the slot and its request in the queue; the request of an attempt has the status of its state; `pending_count` is the length of the queue | `RowsAgree`, `EndedStaysEnded` |
| `BudgetInv` | an attempt over budget is past running, and one that is stopping has a stop | `OverBudgetIsStopped` |
| `SwapInv` | no turn is alive during a swap, no login pending once admission is closed | `SwapIsExclusive` |
| `FenceInv` | a dispatch in its call found the login proved and is of a dialog that is neither held nor deleted; nothing is dispatching while paused; nothing deleted is queued | `StartIsFenced` |
| `ObjectInv` | a steer names a message of its attempt's dialog, a response a wait of its attempt | `QuiescenceIsStable` |
| `ReaderInv`, `DeadInv` | who reads events reads those of an attempt that is not over; what was deleted is quiescent | `DeletedIsInert` |
| `SeqInv`, `AwaitInv` | messages and requests are numbered without gaps, the first request of a message before any of a later one, and all requests of a message that awaits its first start are queued | `DialogInputOrder` |
| `RerunInv` | the attempt being started is the newest; a message has one queued request; an attempt that was superseded ended without success and with a settled effect, or was reopened by a late response | `RerunOnlyAfterSettled` |
| `StrandInv` | a refused or unknown dispatch left nothing alive; every attempt that goes on has a driver; what is with the adapter has an open action | `NothingIsStranded` |
| `TakenInv` | the attempt of an unsettled steer keeps the slot; a message has one steer at a time; a message that was taken is accounted for | `SteeredNeverStarted` |

Why they are needed: the properties relate rows that different handlers write
in different transactions. That a message once steered is never started, for
example, needs that the terminal of an attempt waits for its controls
(`prepareTerminalProjection`), that a steer under way therefore keeps its attempt
in the slot, that no second steer or request of the message can come up
meanwhile, and that a requeue happens only on an answer that excludes delivery.
`StartIsFenced` is a check made in one transaction and relied on in a later
one: `HoldInv` carries it from `CommitDispatch` through the claim to the call,
because a hold is refused while a start of its scope is in progress
(`StartInProgress`).

`NothingStranded` and `SteeredOnce` have the hypothesis `StoreMayFail = FALSE`:
no transaction of a worker is lost. Without it the first is not promised and the
second is false (run *steer_lost*). It is a hypothesis of these two theorems, not
an assumption of the module; all others hold for either value.

### The adapter and its native process

`Native_proofs` is about `MCNative`, part by part, for every value of the
constants that `NativeAssumption` admits.

* Verification of a thread (`VerifiedMeansEnforced`): while the loop reads on,
  what it observed is exactly what was listed of the wanted names, no feature has
  two values and no server appeared that is not wanted (`ObservedInv`); a
  duplicate or foreign entry ends in a refusal on the page it is on, so the last
  page has only to compare.
* Tools of a turn (`EffectsAreTrue`, `AnswersAreTrue`, `EndIsQuiet`), from
  `TurnInv`. An item is claimed by one request: whoever is asked, reads or runs
  for an item is that request (`RequestInv`), until the runner returns nothing is
  known of the effect (`ItemInv`), and who waits has answered (`AskInv`). What runs
  was allowed, and ran once (`RunInv`). Only the end of the turn may say that
  nothing was executed, and it has cancelled the tools before it looks
  (`FinishInv`). The counter of waits is a cardinality (`AskOK`).
* Session (`SessionSound`), from `SessionInv`. What is owed to a call has one owner
  at a time: the map of pending calls, what the shutdown took out of it, or the
  reader's hand (`SenderInv`), so the channel of a call has one sender. A request
  of the native process that may still be answered, or is being answered, is not
  on the wire (`InboundInv`), so it is answered once, with the process going away
  at any step. A bridge is done exactly from the moment its shutdown began
  (`ShutInv`), and a session that closes has somebody who closes it
  (`StarterInv`).

### Dispatch and the native mapping

`Mapping_proofs` is about `MCDurable`: any number of attempts, messages,
policies and processes, of failed or indeterminate writes and of crashes, from an
empty mapping and from that of two ended attempts. `MappingTrue`
(`[]MappingIsTrue`) and `DialogStable` (`DialogIsStable`), each of `CodexMapping`
alone (`Spec`) and beside the settings service (`PartsSpec`), follow from

    MappingInv == TypeOK /\ FilesInv /\ TurnInv /\ LiveInv /\ SaidInv /\ DispatchInv

`MappingIsTrue` speaks of what a restart finds, and which file that is, is decided
only at the restart. So `FilesInv` states of *every* file a restart may find what
`MappingIsTrue` states of one (`FileOk`): a turn that was asked for was written
ahead, a turn recorded as active exists, under the thread of its dialog. That a
request is sent only after its record is durable is the part of `DispatchInv`
about `pc = "send"`; that the attempt that was told it started is in all files is
`SaidInv`, because `activate` refuses a start whose write was not durable.
`LiveInv` ties the maps `byThread` and `byTurn` of the process to the mapping. The
store is poisoned by an indeterminate write, and as long as no write failed there
is one file. Assumptions: `MappingAssumption` and `PartsAssumption`.

### What the node keeps

`Storage_proofs` is about `MCStorage`.

* Commands: `CommandInv` says that the command in hand is undecided up to its
  transaction and is answered with a receipt only for its own bytes (`HandInv`),
  that there is one receipt per decided id and clients hold no other
  (`ReceiptInv`), and that the reserve is half a file only while it is rewritten
  (`ReserveInv`). From it follow `CommandsAreSound` and, step by step, that
  `CommandLog` implements `ExactlyOnce` (`PromiseKept`): the commit maps to the
  decision, every answer to a delivery of the one receipt, and crashes, holds,
  retries and a full disk to stutters.
* Artifacts: `FileInv` is the order of the writes. The names of a transaction
  have no row yet; what it is done with is on the disk with the bytes of its row
  (`WriterInv`, `UploadInv`); and a rename that a loss of power may undo is one
  whose directory is about to be synchronised, so never that of a row
  (`SyncInv`). Hence `ArtifactsAreKept`, through rollback, a commit that reports an
  error and happened, and loss of power at every step; and `MarkerHasRoom`.
  `UsageSound` adds `CountInv`: the usage row holds the number of the rows of the
  attempt. The model counts with cardinalities, so every step adds a set of new
  names to a finite one, or takes it out again.
* Lists: a walk reads a page per transaction, and anything may be committed
  between two. `PageInv` says where the cursor stands (`CursorInv`); that a list read
  by offset is, as long as the version is that of the cursor, the list the walk
  began with (`VersionedInv`); that history and events only grow, at their end
  (`GrowingInv`); and that a walk from the end goes down message by message
  (`BackwardInv`). `PagesExact` is `PagesAreExact` with both its parts. A list is a
  selection from the rows, and that a row more at their end adds at most one at
  the end of the list is proved by going through the stages of the recursive
  function that selects (`Staged`).
* Export: `ReplicaInv` says of the streams that they hold nothing but records of
  what the dialog holds now (`Genuine`), each once, and that the copy of the
  coordinator is a start of its stream (`StreamInv`). It is inductive because a
  dialog only grows and no record changes once it could be sealed (`Growth`): the
  attempt of a user message is left out of its entry, and its author is its first
  event, which no later one replaces (`HistoryInv`). Of the manifests it says that
  in all streams together more assets mean a later revision (`AssetInv`,
  `OrderInv`), so streams brought up to date at different times agree. `SyncedInv`
  is what the coordinator was told. `ReplicaSound` is what follows for all
  constants: the copy is complete when it was said to be, revisions agree, and in
  every state in which the texts there are have the pieces that their size says
  (`TextsMatch`) the dialog can be exported. Nothing is assumed of the texts:
  where one does not match, `Exportable` is false, in the model as in the code
  (section 5), and the rest holds all the same.

### What flows to a client

`Flows_proofs` is about `MCFlows`.

* Stream: `StreamInv` says that the items of the queue stand for the events in
  order and without a gap from the first one not read to the last one pushed,
  that the deltas of each message are numbered likewise (`QueueInv`), and that a
  stream that failed or ended has its last event or gave it to the reader
  (`FailedInv`, `ClosedInv`). A queue before and after `activate` is the same
  queue (`Queue`), and merging joins two neighbouring intervals. From it follow
  `StreamIsSound`, and that the stream implements `EventChannel` with consecutive
  indices and a stable result (`StreamPromises`).
* Feed: `FeedInv` says that the handler and its client count alike (`ConnInv`),
  that the cache of tombstones is that of the log, after a restart too, and which
  events name a dialog (`LogInv`). A window is a `CHOOSE` of the longest prefix
  within both limits; that one exists follows from the least natural number that
  does not fit. Hence `FeedIsSound`.

`ProviderLogin_proofs` also proves `NotRevived`, from `StatusInv`: a record that
may come back after a loss of power differs from memory only in operations that
failed here or were still pending there.

The assumptions are those of the modules (`ToolsAssumption`, `SessionAssumption`,
`VerifyAssumption`, `LogAssumption`, `ArtifactsAssumption`, `PagesAssumption`,
`ReplicaAssumption`, `StreamAssumption`, `FeedAssumption`):
limits are natural numbers, positive where the code has a positive constant, ids
are finitely many, an event fits in a window, the marker fits in the storage, and
markers such as `None` are not members of the sets they stand outside of. Each
is evaluated by TLC on every run.

### Only model-checked

* Liveness (`ExecutorProgress`, `OperationEnds`, `PendingEnds`, `DispatchEnds`,
  `EverythingArrives`): fairness and ENABLED are out of the prover's reach.
* Which texts match their manifest: how many pieces the chunks of a text have, and
  what they add up to, are folds, whose values for every input need induction over
  data. `ReplicaSound` leaves it open, and TLC evaluates both sides for the texts
  of the runs.
* The disagreements of section 5, which are violated and so no theorems.

## 5. Where the code and the documents disagree

Three runs expect a violation; `PROJECT.json` quotes the lines on both sides.

* **unknown_reason**: a start rejected after its attempt became unknown goes
  through `applyTerminal`, which frees the slot and leaves `execution_unknown`
  among the reasons. No attempt is unknown any more, and nothing is dispatched
  again.
* **steer_lost**: `finishSteer` swallows a failed transaction and `finishAction`
  then resolves the action, so a message the provider took as a steer can later
  be started as a turn.
* **export_refused**: `materializeReplicaText` counts the chunks of a text from its
  whole size (`history_export.go:505`) and cuts each source chunk on its own
  (`history_export.go:521`). A source chunk ends at a rune, so some multibyte texts
  of more than one source chunk have a piece more than the count: 17 MiB as
  16 MiB - 1 and 1 MiB + 1 are 18 pieces, not 17. The check at the end of the text
  (`history_export.go:555`) then reports bytes that do not match the manifest,
  though they do, and the dialog is never exported again. Where the cut falls
  otherwise (a text of 5 in the model) the counts agree. It is the only obstacle: in
  every other state `Exportable` is checked and proved (`ReplicaIsSound`).

Four smaller disagreements keep their property in the module. Each is violated
when it is added to the run's cfg (for a union run, as an invariant
`part = "..." => Instance!Property` of its MC module):

* `ReadyHasNoReasons` (`HarnessNode`, run control): `DispatchNext`
  (`dispatch.go:134`) and `attempt.stop` (`control_handlers.go:31`) leave a node
  `ready` with reasons, a body `internal/harnessprotocol/validate.go:588` refuses;
  the read of readiness then answers 503 on a healthy node that was stopped.
* `AuthenticatedHasAccount` (`ProviderLogin`, run auth):
  `completeProviderLogin` reads the account without a lock
  (`provider_auth.go:507`); an expiry and a logout may come between the read and
  its use, and the node reports `authenticated` with no account behind it until
  the next check.
* `ConfirmedMeansEnded` (`CodexMapping`, run durable): `dispatch` records `terminal`
  whenever the attempt does not run any more after `activate`
  (`adapter.go:795`), also when it became unknown because of a notice the adapter
  could not accept; `ConfirmPriorTerminal`, whose comment says that such a mapping
  "confirms that the native turn ended" (`adapter.go:1104`), then accepts an end
  the process never reported. The turn does not run any more: the mapping is of an
  earlier process, and that is what `ConfirmedIsOver` in `MappingIsTrue` checks.
* `RepeatReturnsReceipt` (`CommandLog`, run storage): a repeated command whose
  dialog was deleted in between is answered with 404 (`command.go:107`), while
  `docs/harness-v1.md:63` promises "the original receipt with HTTP 200, even after
  versions change".

## 6. Not modelled

* **One-off recovery tools**: each runs offline on one named incident, on exact
  fingerprints of rows; they are no part of the running node.
* **Canonical JSON and wire validation**, redaction and the encoding of frames:
  pure functions of bytes. The models take a message as accepted or not.
* **HTTP shell** of `api/server.go` beyond the SSE loop and the answer to a
  command: it checks a request and passes it on.
* **Views** (`dialog_view.go`, `tool_timeline.go`): reads of one transaction.
* **Projection keys, replay hashes and the archive of late observations** of
  `observe.go`: what makes the observation of an event idempotent. The stream's
  reader asks for each event once, and the model has one observation per event.
* **Row versions, operation receipts of holds**: a compare-and-set failure
  rejects the command and changes nothing.
* **Migrations** of the schema and of older files, and the limits of 65,536
  receipts: they change nothing else.
* **Tool runner, process, logging, fixture**: system calls, wiring, test doubles.
* **Three coarser steps** no property tells apart from the code's: a transaction
  of `Artifacts` publishes one text; in `CommandLog` a commit that happened and
  reports an error is a commit whose answer is lost; in `CodexSession` a write
  fails as soon as the bridge has stopped, where `bridge.go` closes the pipe a
  moment later.

Adapter and node are not composed: `NodeExecutor` assumes the adapter's contract.

## 7. Plan

1. *Done*: the node with its barriers and crash; the settings service and the
   login manager; the Codex adapter; command log, event feed, lists, artifacts and
   export; the runs above; the two refinements, checked and proved; the proofs of
   section 4, which cover every safety property of a passing run.
2. Proofs left: that a text whose source chunks but the last are multiples of a
   replica chunk matches its manifest, so that a dialog of such texts can always be
   exported; and liveness, which stays with TLC.
3. The contract: `CodexMapping` and `CodexTools` shown to allow only the answers
   `NodeExecutor` assumes; the login manager and the settings service shown to do
   only what `NodeBarrier` allows them.
4. Projection keys and late observations, as a module between `CodexStream` and
   `NodeObserve`.
