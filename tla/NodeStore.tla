------------------------------ MODULE NodeStore ------------------------------
(***************************************************************************)
(* The state of one harness node: the rows of the SQLite store             *)
(* (runtime/schema.go, runtime/sql.go), the volatile state of the Go       *)
(* process around it, and the provider behind the adapter.                 *)
(*                                                                         *)
(* Every transaction of the node runs under node.mu and commits atomically *)
(* so each one is a single step of the modules that extend this one.       *)
(*                                                                         *)
(* Rows are numbered in the order they are inserted: a message's number is *)
(* its sequence, a request's number its queue_sequence, an attempt's       *)
(* number orders the generations of its input, an action's number is the   *)
(* rowid of its control_actions row.  Row versions and the compare-and-set *)
(* checks on them only reject commands, and a rejected command changes     *)
(* nothing, so versions are not represented.                               *)
(***************************************************************************)
EXTENDS Integers, FiniteSets

CONSTANTS
  Dialogs,         \* the dialogs of the node
  QueueCapacity,   \* QueueCapacity of runtime/config.go
  MaxMessages,     \* bound on user messages
  MaxRequests,     \* bound on requests
  MaxAttempts,     \* bound on attempts
  MaxActions,      \* bound on control actions
  MaxWaits         \* bound on approvals and input requests together

ASSUME BoundsAssumption ==
  /\ QueueCapacity \in Nat
  /\ MaxMessages \in Nat
  /\ MaxRequests \in Nat
  /\ MaxAttempts \in Nat
  /\ MaxActions \in Nat
  /\ MaxWaits \in Nat

Messages == 1..MaxMessages
Requests == 1..MaxRequests
Attempts == 1..MaxAttempts
Actions  == 1..MaxActions
Waits    == 1..MaxWaits

(***************************************************************************)
(* The scope of a hold that covers the whole node, and the empty dialog of *)
(* a message row that does not exist yet.                                  *)
(***************************************************************************)
NodeScope == "node"
NoDialog  == "none"

ASSUME DialogsAssumption == NodeScope \notin Dialogs /\ NoDialog \notin Dialogs

VARIABLES
  \* ---- durable rows --------------------------------------------------
  msgDialog,   \* messages.dialog_id
  msgDisp,     \* messages.disposition
  reqMsg,      \* requests.input_message_id
  reqStatus,   \* requests.status
  attReq,      \* attempts.request_id
  attState,    \* attempts.state
  attEffect,   \* attempts.effect_status
  attTerminal, \* a "terminal" projection of the attempt is recorded
  attTool,     \* the attempt's tool call
  attOver,     \* attempts.output_bytes is above MaximumAttemptOutputBytes
  waitAtt,     \* approvals.attempt_id, input_requests.attempt_id
  waitStatus,  \* approvals.status, input_requests.status
  actKind,     \* control_actions.kind
  actAtt,      \* control_actions.attempt_id
  actObj,      \* the message steered or the wait answered
  actStatus,   \* control_actions.status
  holds,       \* scopes of the administrative holds without an outcome
  deleted,     \* dialogs with a dialog.deleted tombstone
  \* ---- the node_state row ---------------------------------------------
  paused, active, readiness, occupancy, pending, reasons,
  \* ---- the process ----------------------------------------------------
  cand,        \* the candidate DispatchNext holds between peek and commit
  pc,          \* where the goroutine that performs an action stands
  gate,        \* the owner of startGate
  barrier,     \* BeginSettingsChange: settingsBarrier and who waits for it
  settingsOk,  \* ~settingsNotReady
  auth,        \* the provider login: ready, an operation pending, or out
  reconciling, \* the attempt ReconcileUnknown asks the adapter about
  \* ---- the provider ---------------------------------------------------
  turn,        \* the native turn of an attempt
  delivered    \* messages the provider took as a steer

messageVars  == <<msgDialog, msgDisp>>
requestVars  == <<reqMsg, reqStatus>>
attemptVars  == <<attReq, attState, attEffect, attTerminal>>
toolVars     == <<attTool, attOver>>
waitVars     == <<waitAtt, waitStatus>>
actionVars   == <<actKind, actAtt, actObj, actStatus>>
adminVars    == <<holds, deleted>>
slotVars     == <<active, readiness, occupancy, reasons>>
queueVars    == <<paused, pending>>
processVars  == <<cand, pc, gate, barrier, settingsOk, auth, reconciling>>
providerVars == <<turn, delivered>>

vars == <<msgDialog, msgDisp, reqMsg, reqStatus, attReq, attState, attEffect,
          attTerminal, attTool, attOver, waitAtt, waitStatus, actKind, actAtt,
          actObj, actStatus, holds, deleted, paused, active, readiness, occupancy,
          pending, reasons, cand, pc, gate, barrier, settingsOk, auth,
          reconciling, turn, delivered>>

-----------------------------------------------------------------------------
\* The values of the columns (runtime/schema.go).

Dispositions   == {"absent", "queued", "applied", "steer_pending", "unknown",
                   "cancelled"}
RequestStates  == {"absent", "queued", "dispatching", "active", "completed",
                   "failed", "interrupted", "cancelled", "unknown"}
TerminalStates == {"completed", "failed", "interrupted"}
ActiveStates   == {"dispatching", "running", "waiting_input", "stopping",
                   "unknown"}
AttemptStates  == {"absent"} \cup ActiveStates \cup TerminalStates
EffectStates   == {"none", "known", "unknown"}
ToolStates     == {"none", "running", "settled", "uncertain"}
WaitStates     == {"absent", "pending", "responding", "resolved", "unknown"}
ActionKinds    == {"absent", "dispatch.start", "attempt.stop", "message.steer",
                   "respond"}
ActionStates   == {"absent", "pending", "inflight", "acknowledged", "rejected",
                   "unknown"}
Readiness      == {"ready", "blocked", "unknown"}
Reasons        == {"policy_unavailable", "operator_pause", "execution_unknown",
                   "engine_unavailable", "adapter_protocol",
                   "storage_unavailable"}

\* A native turn: asked for but not yet running, running, or over.
TurnStates == {"none", "issued", "running", "ended"}
LiveTurn   == {"issued", "running"}

\* The steps of the goroutine that performs a claimed action.
Idle       == "idle"
WorkerSteps == {Idle, "claimed", "calling", "started", "rejected", "applied",
                "fallback", "uncertain", "invalid", "finish_ack", "finish_rej",
                "finish_unk", "opening", "streaming", "closing"}

Free     == 0      \* startGate is not held
Settings == -1     \* startGate is held by BeginSettingsChange
Stale    == -1     \* a candidate whose StateVersion is no longer current

-----------------------------------------------------------------------------
\* Views of the rows.

DialogOf(r)       == msgDialog[reqMsg[r]]
DialogOfAttempt(a) == DialogOf(attReq[a])
MessageOfAttempt(a) == reqMsg[attReq[a]]
Queued            == {r \in Requests : reqStatus[r] = "queued"}
ActiveAttempts    == {a \in Attempts : attState[a] \in ActiveStates}
ActiveIn(scope)   == {a \in ActiveAttempts :
                        scope = NodeScope \/ DialogOfAttempt(a) = scope}

\* The oldest message, request, attempt, action and wait row not yet used:
\* the next value of the AUTOINCREMENT columns and sequence counters.
NextMessage(m) == /\ msgDisp[m] = "absent"
                  /\ \A n \in Messages : n < m => msgDisp[n] # "absent"
NextRequest(r) == /\ reqStatus[r] = "absent"
                  /\ \A q \in Requests : q < r => reqStatus[q] # "absent"
NextAttempt(a) == /\ attState[a] = "absent"
                  /\ \A b \in Attempts : b < a => attState[b] # "absent"
NextAction(c)  == /\ actStatus[c] = "absent"
                  /\ \A d \in Actions : d < c => actStatus[d] # "absent"
NextWait(w)    == /\ waitStatus[w] = "absent"
                  /\ \A v \in Waits : v < w => waitStatus[v] # "absent"

\* providerAuthReady: authenticated, and no operation pending.
AuthReady == auth = "ready"

\* A hold without an outcome covers the dialog.
Held(d) == NodeScope \in holds \/ d \in holds

\* The queued requests no hold covers.
Unheld == {r \in Queued : ~Held(DialogOf(r))}

\* Mutant of QueueHead: any queued request.
AnyUnheld(r) == r \in Unheld

\* The request that DispatchNext and peekDispatch select: the lowest
\* queue_sequence of them.
QueueHead(r) == r \in Unheld /\ \A q \in Unheld : r <= q

\* The queue admits one more request.
QueueHasRoom == pending < QueueCapacity

\* Mutant of SlotOpen: the pause is not examined.
SlotOpenOrPaused == active = 0 /\ pending > 0

\* What DispatchNext and peekDispatch both require of the node_state row.
SlotOpen == ~paused /\ active = 0 /\ pending > 0

\* Mutant of NodeIdle: an unknown slot counts as idle.
NodeNotActive == occupancy # "active"

\* providerAuthWorkBusy and BeginSettingsChange ask whether the slot is free.
NodeIdle == occupancy = "idle" /\ active = 0

\* Mutant of OwnsSlot: no check.
OwnsAnySlot(a) == TRUE

\* Observe and markAttemptUnknown apply only to the attempt in the slot.
OwnsSlot(a) == active = a

Unresolved == {"pending", "inflight", "unknown"}

\* Mutant of UnresolvedControl: no check.
NothingUnresolved(a) == FALSE

\* Control actions whose outcome a terminal must not overtake.
UnresolvedControl(a) ==
  \E c \in Actions : /\ actAtt[c] = a
                     /\ actKind[c] \in {"message.steer", "respond"}
                     /\ actStatus[c] \in Unresolved

-----------------------------------------------------------------------------
\* Pieces of a transaction.

\* StateVersion++: the candidate of a DispatchNext in progress is now stale.
BumpStateVersion == cand' = IF cand = 0 THEN 0 ELSE Stale

\* INSERT INTO control_actions(..., 'pending').
InsertAction(c, kind, a, obj) ==
  /\ NextAction(c)
  /\ actKind'   = [actKind EXCEPT ![c] = kind]
  /\ actAtt'    = [actAtt EXCEPT ![c] = a]
  /\ actObj'    = [actObj EXCEPT ![c] = obj]
  /\ actStatus' = [actStatus EXCEPT ![c] = "pending"]

\* The partial unique index one_active_attempt lets the row of a become
\* active only while no other row is.
OneActiveIndexAllows(a) == \A b \in ActiveAttempts : b = a

\* Mutant of SetAttemptUnknown: the reason is not recorded.
SetAttemptUnknownSilently(a, effect, statuses) ==
  /\ attState'  = [attState EXCEPT ![a] = "unknown"]
  /\ attEffect' = [attEffect EXCEPT ![a] = effect]
  /\ reqStatus' = [statuses EXCEPT ![attReq[a]] = "unknown"]
  /\ readiness' = "unknown"
  /\ occupancy' = "unknown"
  /\ active'    = a
  /\ UNCHANGED reasons

\* setAttemptUnknown, on top of request statuses already changed in the same
\* transaction.  It takes the slot for a, whatever the slot held before.
SetAttemptUnknown(a, effect, statuses) ==
  IF attState[a] = "unknown"
  THEN reqStatus' = statuses /\ UNCHANGED <<attState, attEffect, slotVars>>
  ELSE /\ attState'  = [attState EXCEPT ![a] = "unknown"]
       /\ attEffect' = [attEffect EXCEPT ![a] = effect]
       /\ reqStatus' = [statuses EXCEPT ![attReq[a]] = "unknown"]
       /\ readiness' = "unknown"
       /\ occupancy' = "unknown"
       /\ active'    = a
       /\ reasons'   = reasons \cup {"execution_unknown"}

\* setAttemptUnknown advances StateVersion only when it changes the row.
BumpIfKnown(a) == IF attState[a] = "unknown" THEN UNCHANGED cand
                                             ELSE BumpStateVersion

\* cancelAttemptStream: the goroutine reading the attempt's events stops at
\* its next step and projects nothing more.
CancelStream(a) ==
  pc' = [c \in Actions |-> IF actAtt[c] = a /\ pc[c] = "streaming"
                           THEN "closing" ELSE pc[c]]

-----------------------------------------------------------------------------
TypeOK ==
  /\ msgDialog   \in [Messages -> Dialogs \cup {NoDialog}]
  /\ msgDisp     \in [Messages -> Dispositions]
  /\ reqMsg      \in [Requests -> Messages \cup {0}]
  /\ reqStatus   \in [Requests -> RequestStates]
  /\ attReq      \in [Attempts -> Requests \cup {0}]
  /\ attState    \in [Attempts -> AttemptStates]
  /\ attEffect   \in [Attempts -> EffectStates]
  /\ attTerminal \in [Attempts -> BOOLEAN]
  /\ attTool     \in [Attempts -> ToolStates]
  /\ attOver     \in [Attempts -> BOOLEAN]
  /\ waitAtt     \in [Waits -> Attempts \cup {0}]
  /\ waitStatus  \in [Waits -> WaitStates]
  /\ actKind     \in [Actions -> ActionKinds]
  /\ actAtt      \in [Actions -> Attempts \cup {0}]
  /\ actObj      \in [Actions -> Messages \cup Waits \cup {0}]
  /\ actStatus   \in [Actions -> ActionStates]
  /\ holds       \subseteq Dialogs \cup {NodeScope}
  /\ deleted     \subseteq Dialogs
  /\ paused      \in BOOLEAN
  /\ active      \in Attempts \cup {0}
  /\ readiness   \in Readiness
  /\ occupancy   \in {"idle", "active", "unknown"}
  /\ pending     \in Int
  /\ reasons     \subseteq Reasons
  /\ cand        \in Requests \cup {0, Stale}
  /\ pc          \in [Actions -> WorkerSteps]
  /\ gate        \in Actions \cup {Free, Settings}
  /\ barrier     \in {"open", "waiting", "swapping"}
  /\ settingsOk  \in BOOLEAN
  /\ auth        \in {"ready", "pending", "out"}
  /\ reconciling \in Attempts \cup {0}
  /\ turn        \in [Attempts -> TurnStates]
  /\ delivered   \subseteq Messages

\* An unused node: blocked as schema.go inserts the node_state row, or ready
\* once recoverPristinePolicy has validated the policy of a reopened volume.
InitStore ==
  /\ msgDialog   = [m \in Messages |-> NoDialog]
  /\ msgDisp     = [m \in Messages |-> "absent"]
  /\ reqMsg      = [r \in Requests |-> 0]
  /\ reqStatus   = [r \in Requests |-> "absent"]
  /\ attReq      = [a \in Attempts |-> 0]
  /\ attState    = [a \in Attempts |-> "absent"]
  /\ attEffect   = [a \in Attempts |-> "none"]
  /\ attTerminal = [a \in Attempts |-> FALSE]
  /\ attTool     = [a \in Attempts |-> "none"]
  /\ attOver     = [a \in Attempts |-> FALSE]
  /\ waitAtt     = [w \in Waits |-> 0]
  /\ waitStatus  = [w \in Waits |-> "absent"]
  /\ actKind     = [c \in Actions |-> "absent"]
  /\ actAtt      = [c \in Actions |-> 0]
  /\ actObj      = [c \in Actions |-> 0]
  /\ actStatus   = [c \in Actions |-> "absent"]
  /\ holds = {} /\ deleted = {}
  /\ paused = FALSE /\ active = 0 /\ occupancy = "idle" /\ pending = 0
  /\ \/ readiness = "ready" /\ reasons = {}
     \/ readiness = "blocked" /\ reasons = {"policy_unavailable"}
  /\ cand = 0 /\ gate = Free /\ barrier = "open" /\ reconciling = 0
  /\ pc = [c \in Actions |-> Idle]
  /\ settingsOk = TRUE /\ auth = "ready"
  /\ turn = [a \in Attempts |-> "none"] /\ delivered = {}
=============================================================================
