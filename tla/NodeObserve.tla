----------------------------- MODULE NodeObserve -----------------------------
(***************************************************************************)
(* The events of the adapter stream and their projection                   *)
(* (runtime/observe.go, runtime/stream_lifecycle.go,                       *)
(* runtime/output_budget.go), and reconciliation of an attempt in state    *)
(* unknown (runtime/reconcile.go).                                         *)
(*                                                                         *)
(* Content is not represented.  A content event that fits the output       *)
(* budget changes nothing here; the one that exceeds it stops the attempt. *)
(* An attempt has at most one tool call: the checks only count the calls   *)
(* that are running or ended with an unknown effect.                       *)
(***************************************************************************)
EXTENDS NodeExecutor

CONSTANTS
  FailureClasses,   \* classes of failure a terminal event may carry
  OutputMayExceed   \* {FALSE}, or BOOLEAN: an event may exceed the budget

ASSUME ObserveAssumption ==
  /\ FailureClasses \subseteq {"task", "node", "policy", "protocol"}
  /\ OutputMayExceed \subseteq BOOLEAN

-----------------------------------------------------------------------------
\* registerAttemptStream: the goroutine of a started dispatch reads events
\* only while its attempt still owns the slot.
RegisterStream(c) ==
  /\ pc[c] = "opening"
  /\ pc' = [pc EXCEPT ![c] =
              IF /\ active = actAtt[c]
                 /\ attState[actAtt[c]] \in {"running", "waiting_input",
                                             "stopping", "unknown"}
              THEN "streaming" ELSE Idle]
  /\ DurableUnchanged
  /\ UNCHANGED <<cand, gate, barrier, settingsOk, auth, reconciling,
                 providerVars>>

\* A cancelled stream ends without a trace.
StreamClosed(c) ==
  /\ pc[c] = "closing"
  /\ pc' = [pc EXCEPT ![c] = Idle]
  /\ DurableUnchanged
  /\ UNCHANGED <<cand, gate, barrier, settingsOk, auth, reconciling,
                 providerVars>>

\* ObserveAdapterEvent projects an event of the attempt that owns the slot; it
\* only archives any other.
Observing(c) == pc[c] = "streaming" /\ active = actAtt[c]

\* Once the budget is exceeded, later content and tool events are dropped.
InBudget(c) == Observing(c) /\ ~attOver[actAtt[c]]

\* Mutant of ChargeOutput: no stop while waiting for input.
ChargeRunningOnly(a, over) ==
  IF over
  THEN /\ attOver' = [attOver EXCEPT ![a] = TRUE]
       /\ IF attState[a] = "running"
          THEN /\ attState' = [attState EXCEPT ![a] = "stopping"]
               /\ \E s \in Actions : InsertAction(s, "attempt.stop", a, 0)
          ELSE UNCHANGED <<attState, actionVars>>
  ELSE UNCHANGED <<attOver, attState, actionVars>>

\* chargeAttemptOutput and scheduleOutputLimitStop: the event that exceeds the
\* budget asks for a stop of its own, without pausing the queue.
ChargeOutput(a, over) ==
  IF over
  THEN /\ attOver' = [attOver EXCEPT ![a] = TRUE]
       /\ IF attState[a] \in {"running", "waiting_input"}
          THEN /\ attState' = [attState EXCEPT ![a] = "stopping"]
               /\ \E s \in Actions : InsertAction(s, "attempt.stop", a, 0)
          ELSE UNCHANGED <<attState, actionVars>>
  ELSE UNCHANGED <<attOver, attState, actionVars>>

\* What the projection of a tool or content event leaves alone.
EventFrame ==
  UNCHANGED <<messageVars, requestVars, attReq, attEffect, attTerminal,
              adminVars, slotVars, queueVars, pc, gate, barrier, settingsOk,
              auth, reconciling, providerVars>>

\* tool.started inserts a running call.
ToolStarted(c, over) ==
  LET a == actAtt[c] IN
  /\ InBudget(c)
  /\ attTool[a] = "none"
  /\ attTool' = [attTool EXCEPT ![a] = "running"]
  /\ ChargeOutput(a, over)
  /\ BumpStateVersion
  /\ EventFrame /\ UNCHANGED waitVars

\* tool.completed settles the call, or records that its effect is unknown.
ToolCompleted(c, over, end) ==
  LET a == actAtt[c] IN
  /\ InBudget(c)
  /\ attTool[a] = "running"
  /\ attTool' = [attTool EXCEPT ![a] = end]
  /\ ChargeOutput(a, over)
  /\ BumpStateVersion
  /\ EventFrame /\ UNCHANGED waitVars

\* A delta, message, tool output or approval prompt exceeds the budget.
OutputLimit(c) ==
  LET a == actAtt[c] IN
  /\ TRUE \in OutputMayExceed
  /\ InBudget(c)
  /\ ChargeOutput(a, TRUE)
  /\ BumpStateVersion
  /\ EventFrame /\ UNCHANGED <<attTool, waitVars>>

\* The waiting event.  In stopping and unknown it is archived, in
\* waiting_input it is nothing new.
EnterWaiting(c) ==
  LET a == actAtt[c] IN
  /\ Observing(c)
  /\ attState[a] = "running"
  /\ attState' = [attState EXCEPT ![a] = "waiting_input"]
  /\ BumpStateVersion
  /\ EventFrame /\ UNCHANGED <<toolVars, waitVars, actionVars>>

\* approval.requested and input.requested, suppressed in stopping and unknown.
\* The input request that exceeds the budget keeps its row and stops.
WaitRequested(c, w, over) ==
  LET a == actAtt[c] IN
  /\ InBudget(c)
  /\ attState[a] \in {"running", "waiting_input"}
  /\ NextWait(w)
  /\ waitAtt'    = [waitAtt EXCEPT ![w] = a]
  /\ waitStatus' = [waitStatus EXCEPT ![w] = "pending"]
  /\ \/ over /\ ChargeOutput(a, TRUE)
     \/ /\ ~over
        /\ attState' = [attState EXCEPT ![a] = "waiting_input"]
        /\ UNCHANGED <<attOver, actionVars>>
  /\ BumpStateVersion
  /\ EventFrame /\ UNCHANGED attTool

-----------------------------------------------------------------------------
\* The end of an attempt.

FailureReason(outcome, class) ==
  CASE outcome = "failed" /\ class = "node"     -> {"engine_unavailable"}
    [] outcome = "failed" /\ class = "policy"   -> {"policy_unavailable"}
    [] outcome = "failed" /\ class = "protocol" -> {"adapter_protocol"}
    [] OTHER                                    -> {}

\* prepareTerminalProjection.  A terminal does not overtake an unresolved steer
\* or response, and a second terminal of the attempt is a duplicate.
ProjectTerminal(a, outcome, effect, class) ==
  \/ /\ UnresolvedControl(a) \/ effect = "unknown"
     /\ SetAttemptUnknown(a, "unknown", reqStatus)
     /\ BumpIfKnown(a)
     /\ UNCHANGED attTerminal
  \/ /\ ~UnresolvedControl(a) /\ effect # "unknown"
     /\ attTerminal[a]
     /\ UNCHANGED <<attState, attEffect, attTerminal, reqStatus, slotVars, cand>>
  \/ /\ ~UnresolvedControl(a) /\ effect # "unknown"
     /\ ~attTerminal[a]
     /\ attState'    = [attState EXCEPT ![a] = outcome]
     /\ attEffect'   = [attEffect EXCEPT ![a] = effect]
     /\ attTerminal' = [attTerminal EXCEPT ![a] = TRUE]
     /\ reqStatus'   = [reqStatus EXCEPT ![attReq[a]] = outcome]
     /\ active' = 0 /\ occupancy' = "idle"
     /\ reasons' = (reasons \ {"execution_unknown"})
                     \cup FailureReason(outcome, class)
     /\ readiness' = IF reasons' = {} THEN "ready" ELSE "blocked"
     /\ BumpStateVersion

\* What a step that ends the reading of a stream leaves alone.
EndFrame ==
  UNCHANGED <<messageVars, reqMsg, attReq, toolVars, waitVars, actionVars,
              adminVars, queueVars, gate, barrier, settingsOk, auth,
              providerVars>>

\* The terminal event, which the adapter sends once the turn is over.
StreamTerminal(c, outcome, effect, class) ==
  /\ Observing(c)
  /\ turn[actAtt[c]] = "ended"
  /\ ProjectTerminal(actAtt[c], outcome, effect, class)
  /\ pc' = [pc EXCEPT ![c] = Idle]
  /\ EndFrame /\ UNCHANGED reconciling

\* The unknown event, or a stream that ends or fails without a terminal: the
\* turn may go on.
StreamUnknown(c, effect) ==
  /\ Observing(c)
  /\ SetAttemptUnknown(actAtt[c], effect, reqStatus)
  /\ BumpIfKnown(actAtt[c])
  /\ pc' = [pc EXCEPT ![c] = Idle]
  /\ EndFrame /\ UNCHANGED <<attTerminal, reconciling>>

-----------------------------------------------------------------------------
\* ReconcileUnknown.

ReconcileBegin(a) ==
  /\ reconciling = 0
  /\ active = a /\ attState[a] = "unknown"
  /\ reconciling' = a
  /\ DurableUnchanged
  /\ UNCHANGED <<cand, pc, gate, barrier, settingsOk, auth, providerVars>>

\* unresolvedReconciliationEffects.
UnresolvedEffects(a) ==
  \/ UnresolvedControl(a)
  \/ attTool[a] \in {"running", "uncertain"}
  \/ \E w \in Waits : /\ waitAtt[w] = a
                      /\ waitStatus[w] \in {"pending", "responding", "unknown"}

\* The adapter proves that no turn of the attempt runs or can still start.
TurnOver(a) ==
  /\ turn[a] \in {"none", "ended"}
  /\ \A c \in Actions : actAtt[c] = a => pc[c] # "calling"

\* applyReconciledTerminal, after the fence is checked a second time.
ReconcileApply(outcome, effect, class) ==
  LET a == reconciling IN
  /\ a # 0
  /\ TurnOver(a)
  /\ active = a /\ attState[a] = "unknown"
  /\ ~UnresolvedEffects(a)
  /\ ProjectTerminal(a, outcome, effect, class)
  /\ CancelStream(a)
  /\ reconciling' = 0
  /\ EndFrame

\* No terminal, an error, or a fence that changed.
ReconcileNone ==
  /\ reconciling # 0
  /\ reconciling' = 0
  /\ DurableUnchanged
  /\ UNCHANGED <<cand, pc, gate, barrier, settingsOk, auth, providerVars>>

-----------------------------------------------------------------------------
\* The provider.

ProviderStarts(a) ==
  /\ turn[a] = "issued"
  /\ turn' = [turn EXCEPT ![a] = "running"]
  /\ DurableUnchanged
  /\ UNCHANGED <<processVars, delivered>>

ProviderEnds(a) ==
  /\ turn[a] = "running"
  /\ turn' = [turn EXCEPT ![a] = "ended"]
  /\ DurableUnchanged
  /\ UNCHANGED <<processVars, delivered>>
=============================================================================
