-------------------------- MODULE HarnessNode_proofs --------------------------
(***************************************************************************)
(* Theorems about HarnessNode, for every value of its constants: what each *)
(* row and process variable may be, and that one native turn lives; what   *)
(* the handlers keep in two places, and what a step may do to a row that   *)
(* exists; and what closes a node for new work: the swap of settings,      *)
(* holds, deletion, login and the pause against a start that was admitted  *)
(* earlier, the proof of quiescence of a held scope, and the dialog that   *)
(* is deleted.                                                             *)
(***************************************************************************)
EXTENDS HarnessNode, FiniteSetTheorems, TLAPS

-----------------------------------------------------------------------------
\* The inductive invariant.

\* Rows refer to rows that exist.
RowInv ==
  /\ \A a \in Attempts : attState[a] # "absent" => attReq[a] \in Requests
  /\ \A w \in Waits : waitStatus[w] # "absent" =>
       waitAtt[w] \in Attempts /\ attState[waitAtt[w]] # "absent"
  /\ \A c \in Actions : actStatus[c] # "absent" =>
       actAtt[c] \in Attempts /\ attState[actAtt[c]] # "absent"
  /\ \A c \in Actions : actStatus[c] = "absent" => pc[c] = Idle
  /\ \A c \in Actions : actKind[c] = "message.steer" => actObj[c] \in Messages
  /\ \A c \in Actions : actKind[c] = "respond" =>
       actObj[c] \in Waits /\ waitStatus[actObj[c]] # "absent"

\* The slot names the one attempt that is neither absent nor over.
SlotInv == \A a \in Attempts : attState[a] \in ActiveStates <=> active = a

\* The steps of a dispatch between EnterDispatch and FinishAction.
GateSteps == {"calling", "started", "rejected", "uncertain", "finish_ack",
              "finish_rej", "finish_unk"}

\* startGate is held by the dispatch that is between these steps, or by the
\* swap of settings.
GateInv ==
  /\ \A c \in Actions : pc[c] = "calling" => actKind[c] = "dispatch.start"
  /\ \A c \in Actions : pc[c] = "started" => actKind[c] = "dispatch.start"
  /\ \A c \in Actions : pc[c] = "invalid" => actKind[c] # "dispatch.start"
  /\ \A c \in Actions : actKind[c] = "dispatch.start" /\ pc[c] \in GateSteps
                        => gate = c
  /\ barrier = "swapping" => gate = Settings

\* A dispatch that is about to ask for its turn owns the slot, and one that
\* reports a rejection has left no turn behind.
TurnInv ==
  /\ \A c \in Actions : pc[c] = "calling" /\ turn[actAtt[c]] = "none"
                        => active = actAtt[c]
  /\ \A c \in Actions : actKind[c] = "dispatch.start" /\ pc[c] = "rejected"
                        => turn[actAtt[c]] \notin LiveTurn

IInv == TypeOK /\ RowInv /\ SlotInv /\ GateInv /\ TurnInv /\ LiveTurnOwnsSlot

-----------------------------------------------------------------------------
\* Pieces of a transaction.

\* Row numbers start at 1: 0 is no row.
LEMMA AttemptsPositive == 0 \notin Attempts
BY BoundsAssumption DEF Attempts

\* A gate owner is an action row, never Free or Settings.
LEMMA ActionsPositive == Free \notin Actions /\ Settings \notin Actions
BY BoundsAssumption DEF Actions, Free, Settings

\* The values the actions write are values of their columns.
LEMMA StateValues ==
  /\ {"queued", "applied", "steer_pending", "unknown", "cancelled"}
       \subseteq Dispositions
  /\ {"queued", "dispatching", "active", "completed", "failed", "interrupted",
      "cancelled", "unknown"} \subseteq RequestStates
  /\ {"dispatching", "running", "waiting_input", "stopping", "unknown",
      "completed", "failed", "interrupted"} \subseteq AttemptStates
  /\ {"none", "known", "unknown"} \subseteq EffectStates
  /\ {"running", "settled", "uncertain"} \subseteq ToolStates
  /\ {"pending", "responding", "resolved", "unknown"} \subseteq WaitStates
  /\ {"dispatch.start", "attempt.stop", "message.steer", "respond"}
       \subseteq ActionKinds
  /\ {"pending", "inflight", "acknowledged", "rejected", "unknown"}
       \subseteq ActionStates
  /\ {"ready", "blocked", "unknown"} \subseteq Readiness
  /\ {"policy_unavailable", "operator_pause", "execution_unknown",
      "storage_unavailable"} \subseteq Reasons
  /\ {"none", "issued", "running", "ended"} \subseteq TurnStates
  /\ {Idle, "claimed", "calling", "started", "rejected", "applied", "fallback",
      "uncertain", "invalid", "finish_ack", "finish_rej", "finish_unk",
      "opening", "streaming", "closing"} \subseteq WorkerSteps
BY DEF Dispositions, RequestStates, AttemptStates, ActiveStates,
   TerminalStates, EffectStates, ToolStates, WaitStates, ActionKinds,
   ActionStates, Readiness, Reasons, TurnStates, WorkerSteps

\* setAttemptUnknown takes the free slot, or keeps the slot it has.
LEMMA UnknownTakesSlot ==
  ASSUME TypeOK, SlotInv, NEW a \in Attempts, active \in {0, a},
         attState[a] # "absent",
         NEW effect \in EffectStates,
         NEW statuses \in [Requests -> RequestStates],
         SetAttemptUnknown(a, effect, statuses)
  PROVE  /\ attState'  \in [Attempts -> AttemptStates]
         /\ attEffect' \in [Attempts -> EffectStates]
         /\ reqStatus' \in [Requests -> RequestStates]
         /\ readiness' \in Readiness
         /\ occupancy' \in {"idle", "active", "unknown"}
         /\ reasons'   \subseteq Reasons
         /\ active' = a
         /\ SlotInv'
         /\ \A b \in Attempts : attState'[b] = "absent" <=> attState[b] = "absent"
<1> USE DEF SetAttemptUnknown, slotVars
<1>1. CASE attState[a] = "unknown"
  <2>1. active = a
    BY <1>1 DEF SlotInv, ActiveStates
  <2> QED BY <1>1, <2>1 DEF TypeOK, SlotInv
<1>2. CASE attState[a] # "unknown"
  <2>1. /\ attState'  \in [Attempts -> AttemptStates]
        /\ attEffect' \in [Attempts -> EffectStates]
        /\ reqStatus' \in [Requests -> RequestStates]
        /\ readiness' \in Readiness
        /\ occupancy' \in {"idle", "active", "unknown"}
        /\ reasons'   \subseteq Reasons
        /\ active' = a
    <3>1. /\ "unknown" \in AttemptStates /\ "unknown" \in RequestStates
          /\ "unknown" \in Readiness /\ "execution_unknown" \in Reasons
      BY DEF AttemptStates, ActiveStates, RequestStates, Readiness, Reasons
    <3> QED BY <1>2, <3>1 DEF TypeOK
  <2>2. SlotInv'
    BY <1>2, AttemptsPositive DEF TypeOK, SlotInv, ActiveStates
  <2>3. \A b \in Attempts : attState'[b] = "absent" <=> attState[b] = "absent"
    BY <1>2 DEF TypeOK
  <2> QED BY <2>1, <2>2, <2>3
<1> QED BY <1>1, <1>2

\* prepareTerminalProjection, of the attempt in the slot, frees it or keeps it.
LEMMA TerminalKeepsSlotInv ==
  ASSUME TypeOK, SlotInv, NEW a \in Attempts, active = a,
         attState[a] # "absent",
         NEW outcome \in TerminalStates, NEW effect \in EffectStates, NEW class,
         ProjectTerminal(a, outcome, effect, class)
  PROVE  /\ attState'    \in [Attempts -> AttemptStates]
         /\ attEffect'   \in [Attempts -> EffectStates]
         /\ attTerminal' \in [Attempts -> BOOLEAN]
         /\ reqStatus'   \in [Requests -> RequestStates]
         /\ readiness'   \in Readiness
         /\ occupancy'   \in {"idle", "active", "unknown"}
         /\ reasons'     \subseteq Reasons
         /\ cand'        \in Requests \cup {0, Stale}
         /\ active'      \in {0, a}
         /\ SlotInv'
         /\ \A b \in Attempts : attState'[b] = "absent" <=> attState[b] = "absent"
<1>1. CASE UnresolvedControl(a) \/ effect = "unknown"
  <2>1. /\ SetAttemptUnknown(a, "unknown", reqStatus)
        /\ BumpIfKnown(a)
        /\ UNCHANGED attTerminal
    BY <1>1 DEF ProjectTerminal
  <2>2. reqStatus \in [Requests -> RequestStates] /\ "unknown" \in EffectStates
    BY DEF TypeOK, EffectStates
  <2>3. cand' \in Requests \cup {0, Stale}
    BY <2>1 DEF TypeOK, BumpIfKnown, BumpStateVersion
  <2> HIDE DEF SlotInv
  <2> QED BY <2>1, <2>2, <2>3, UnknownTakesSlot DEF TypeOK
<1>2. CASE ~(UnresolvedControl(a) \/ effect = "unknown") /\ attTerminal[a]
  BY <1>2 DEF ProjectTerminal, TypeOK, SlotInv, slotVars
<1>3. CASE ~(UnresolvedControl(a) \/ effect = "unknown") /\ ~attTerminal[a]
  <2>1. /\ attState'    = [attState EXCEPT ![a] = outcome]
        /\ attEffect'   = [attEffect EXCEPT ![a] = effect]
        /\ attTerminal' = [attTerminal EXCEPT ![a] = TRUE]
        /\ reqStatus'   = [reqStatus EXCEPT ![attReq[a]] = outcome]
        /\ active' = 0 /\ occupancy' = "idle"
        /\ reasons' = (reasons \ {"execution_unknown"})
                        \cup FailureReason(outcome, class)
        /\ readiness' = IF reasons' = {} THEN "ready" ELSE "blocked"
        /\ BumpStateVersion
    BY <1>3 DEF ProjectTerminal
  <2>2. FailureReason(outcome, class) \subseteq Reasons
    BY DEF FailureReason, Reasons
  <2>3. /\ attState'    \in [Attempts -> AttemptStates]
        /\ attEffect'   \in [Attempts -> EffectStates]
        /\ attTerminal' \in [Attempts -> BOOLEAN]
        /\ reqStatus'   \in [Requests -> RequestStates]
        /\ cand'        \in Requests \cup {0, Stale}
    BY <2>1 DEF TypeOK, AttemptStates, TerminalStates, RequestStates,
       BumpStateVersion
  <2>4. readiness' \in Readiness /\ reasons' \subseteq Reasons
    BY <2>1, <2>2 DEF TypeOK, Readiness
  <2>5. SlotInv'
    BY <2>1, AttemptsPositive DEF TypeOK, SlotInv, ActiveStates, TerminalStates
  <2>6. \A b \in Attempts : attState'[b] = "absent" <=> attState[b] = "absent"
    BY <2>1 DEF TypeOK, TerminalStates
  <2> QED BY <2>1, <2>3, <2>4, <2>5, <2>6
<1> QED BY <1>1, <1>2, <1>3

-----------------------------------------------------------------------------
\* Every step preserves the invariant.

\* applyDialogCreate only advances StateVersion.
LEMMA DialogCreateStep ==
  ASSUME IInv, DialogCreate
  PROVE  IInv'
<1> USE DEF messageVars, requestVars, attemptVars, toolVars, waitVars,
            actionVars, adminVars, slotVars, queueVars, processVars,
            providerVars
<1>1. TypeOK'
  BY DEF IInv, TypeOK, DialogCreate, BumpStateVersion
<1>2. RowInv' /\ SlotInv' /\ GateInv' /\ TurnInv' /\ LiveTurnOwnsSlot'
  BY DEF IInv, RowInv, SlotInv, GateInv, TurnInv, LiveTurnOwnsSlot,
     DialogCreate, BumpStateVersion
<1> QED BY <1>1, <1>2 DEF IInv

\* applyMessageEnqueue adds rows no attempt refers to yet.
LEMMA MessageEnqueueStep ==
  ASSUME IInv, NEW d \in Dialogs, NEW m \in Messages, NEW r \in Requests,
         MessageEnqueue(d, m, r)
  PROVE  IInv'
<1> USE DEF messageVars, requestVars, attemptVars, toolVars, waitVars,
            actionVars, adminVars, slotVars, queueVars, processVars,
            providerVars
<1>1. TypeOK'
  BY StateValues DEF IInv, TypeOK, MessageEnqueue, BumpStateVersion
<1>2. RowInv' /\ SlotInv' /\ GateInv' /\ TurnInv' /\ LiveTurnOwnsSlot'
  BY DEF IInv, RowInv, SlotInv, GateInv, TurnInv, LiveTurnOwnsSlot,
     MessageEnqueue, BumpStateVersion
<1> QED BY <1>1, <1>2 DEF IInv

\* applyRequestCancel touches neither attempts nor the slot.
LEMMA RequestCancelStep ==
  ASSUME IInv, NEW r \in Requests, NEW low, RequestCancel(r, low)
  PROVE  IInv'
<1> USE DEF messageVars, requestVars, attemptVars, toolVars, waitVars,
            actionVars, adminVars, slotVars, queueVars, processVars,
            providerVars
<1>1. TypeOK'
  <2>1. /\ msgDisp'   \in [Messages -> Dispositions]
        /\ reqStatus' \in [Requests -> RequestStates]
        /\ readiness' \in Readiness
        /\ reasons'   \subseteq Reasons
    BY StateValues DEF IInv, TypeOK, RequestCancel, ControlState,
       BumpStateVersion
  <2> QED BY <2>1 DEF IInv, TypeOK, RequestCancel, ControlState, BumpStateVersion
<1>2. RowInv' /\ SlotInv' /\ GateInv' /\ TurnInv' /\ LiveTurnOwnsSlot'
  BY DEF IInv, RowInv, SlotInv, GateInv, TurnInv, LiveTurnOwnsSlot,
     RequestCancel, ControlState, BumpStateVersion
<1> QED BY <1>1, <1>2 DEF IInv

\* applyQueueResume touches neither attempts nor the slot.
LEMMA QueueResumeStep ==
  ASSUME IInv, NEW low, QueueResume(low)
  PROVE  IInv'
<1> USE DEF messageVars, requestVars, attemptVars, toolVars, waitVars,
            actionVars, adminVars, slotVars, queueVars, processVars,
            providerVars
<1>1. TypeOK'
  BY StateValues DEF IInv, TypeOK, QueueResume, ControlState, BumpStateVersion
<1>2. RowInv' /\ SlotInv' /\ GateInv' /\ TurnInv' /\ LiveTurnOwnsSlot'
  BY DEF IInv, RowInv, SlotInv, GateInv, TurnInv, LiveTurnOwnsSlot,
     QueueResume, ControlState, BumpStateVersion
<1> QED BY <1>1, <1>2 DEF IInv

\* applyAttemptStop keeps the attempt in the slot and adds an action row
\* that no goroutine performs yet.
LEMMA AttemptStopStep ==
  ASSUME IInv, NEW a \in Attempts, NEW c \in Actions, NEW low, AttemptStop(a,
         c, low)
  PROVE  IInv'
<1> USE DEF messageVars, requestVars, attemptVars, toolVars, waitVars,
            actionVars, adminVars, slotVars, queueVars, processVars,
            providerVars
<1>1. TypeOK'
  BY StateValues DEF IInv, TypeOK, AttemptStop, ControlState,
     BumpStateVersion, InsertAction
<1>2. RowInv'
  BY DEF IInv, TypeOK, RowInv, AttemptStop, ControlState, BumpStateVersion,
     InsertAction, Idle, NextAction
<1>3. SlotInv'
  BY DEF IInv, TypeOK, SlotInv, AttemptStop, ControlState, BumpStateVersion,
     InsertAction, ActiveStates
<1>4. GateInv'
  BY DEF IInv, TypeOK, GateInv, AttemptStop, ControlState, BumpStateVersion,
     InsertAction, GateSteps, Idle, RowInv, NextAction
<1>5. TurnInv'
  BY DEF IInv, TypeOK, TurnInv, AttemptStop, ControlState, BumpStateVersion,
     InsertAction, RowInv, Idle, NextAction
<1>6. LiveTurnOwnsSlot'
  BY DEF IInv, LiveTurnOwnsSlot, AttemptStop, ControlState, BumpStateVersion,
     InsertAction
<1> QED BY <1>1, <1>2, <1>3, <1>4, <1>5, <1>6 DEF IInv

\* applyAttemptRetry queues a request for an input that exists.
LEMMA AttemptRetryStep ==
  ASSUME IInv, NEW a \in Attempts, NEW ack, NEW r \in Requests,
         AttemptRetry(a, ack, r)
  PROVE  IInv'
<1> USE DEF messageVars, requestVars, attemptVars, toolVars, waitVars,
            actionVars, adminVars, slotVars, queueVars, processVars,
            providerVars
<1>1. TypeOK'
  BY StateValues DEF IInv, TypeOK, AttemptRetry, BumpStateVersion, RowInv,
     Retryable, MessageOfAttempt
<1>2. RowInv' /\ SlotInv' /\ GateInv' /\ TurnInv' /\ LiveTurnOwnsSlot'
  BY DEF IInv, RowInv, SlotInv, GateInv, TurnInv, LiveTurnOwnsSlot,
     AttemptRetry, BumpStateVersion
<1> QED BY <1>1, <1>2 DEF IInv

\* applyMessageSteer adds an action row for the attempt in the slot.
LEMMA MessageSteerStep ==
  ASSUME IInv, NEW m \in Messages, NEW a \in Attempts, NEW c \in Actions, NEW
         low, MessageSteer(m, a, c, low)
  PROVE  IInv'
<1> USE DEF messageVars, requestVars, attemptVars, toolVars, waitVars,
            actionVars, adminVars, slotVars, queueVars, processVars,
            providerVars
<1>1. TypeOK'
  BY StateValues DEF IInv, TypeOK, MessageSteer, ControlState,
     BumpStateVersion, InsertAction
<1>2. RowInv'
  BY DEF IInv, TypeOK, RowInv, MessageSteer, ControlState, BumpStateVersion,
     InsertAction, Idle, NextAction
<1>3. GateInv'
  BY DEF IInv, TypeOK, GateInv, MessageSteer, ControlState, BumpStateVersion,
     InsertAction, GateSteps, Idle, RowInv, NextAction
<1>4. TurnInv'
  BY DEF IInv, TypeOK, TurnInv, MessageSteer, ControlState, BumpStateVersion,
     InsertAction, RowInv, Idle, NextAction
<1>5. SlotInv' /\ LiveTurnOwnsSlot'
  BY DEF IInv, SlotInv, LiveTurnOwnsSlot, MessageSteer, ControlState,
     BumpStateVersion, InsertAction
<1> QED BY <1>1, <1>2, <1>3, <1>4, <1>5 DEF IInv

\* applyApproval and applyInput add an action row for the attempt of the wait,
\* which may be over.
LEMMA RespondStep ==
  ASSUME IInv, NEW w \in Waits, NEW c \in Actions, NEW low, Respond(w, c,
         low)
  PROVE  IInv'
<1> USE DEF messageVars, requestVars, attemptVars, toolVars, waitVars,
            actionVars, adminVars, slotVars, queueVars, processVars,
            providerVars
<1>1. TypeOK'
  BY StateValues DEF IInv, TypeOK, Respond, ControlState, InsertAction, RowInv
<1>2. RowInv'
  BY DEF IInv, TypeOK, RowInv, Respond, ControlState, InsertAction, Idle,
     NextAction
<1>3. GateInv'
  BY DEF IInv, TypeOK, GateInv, Respond, ControlState, InsertAction,
     GateSteps, Idle, RowInv, NextAction
<1>4. TurnInv'
  BY DEF IInv, TypeOK, TurnInv, Respond, ControlState, InsertAction, RowInv,
     Idle, NextAction
<1>5. SlotInv' /\ LiveTurnOwnsSlot'
  BY DEF IInv, SlotInv, LiveTurnOwnsSlot, Respond, ControlState, InsertAction
<1> QED BY <1>1, <1>2, <1>3, <1>4, <1>5 DEF IInv

\* peekDispatch changes only the candidate.
LEMMA PeekDispatchStep ==
  ASSUME IInv, NEW r \in Requests, PeekDispatch(r)
  PROVE  IInv'
<1> USE DEF messageVars, requestVars, attemptVars, toolVars, waitVars,
            actionVars, adminVars, slotVars, queueVars, processVars,
            providerVars
<1>1. TypeOK'
  BY DEF IInv, TypeOK, PeekDispatch
<1>2. RowInv' /\ SlotInv' /\ GateInv' /\ TurnInv' /\ LiveTurnOwnsSlot'
  BY DEF IInv, RowInv, SlotInv, GateInv, TurnInv, LiveTurnOwnsSlot,
     PeekDispatch
<1> QED BY <1>1, <1>2 DEF IInv

\* blockPolicy changes readiness and reasons only.
LEMMA BlockPolicyStep ==
  ASSUME IInv, BlockPolicy
  PROVE  IInv'
<1> USE DEF messageVars, requestVars, attemptVars, toolVars, waitVars,
            actionVars, adminVars, slotVars, queueVars, processVars,
            providerVars
<1>1. TypeOK'
  BY StateValues DEF IInv, TypeOK, BlockPolicy
<1>2. RowInv' /\ SlotInv' /\ GateInv' /\ TurnInv' /\ LiveTurnOwnsSlot'
  BY DEF IInv, RowInv, SlotInv, GateInv, TurnInv, LiveTurnOwnsSlot,
     BlockPolicy
<1> QED BY <1>1, <1>2 DEF IInv

\* DispatchNext takes the slot when it is free and startGate is not held: no
\* turn is alive and no dispatch is on its way.
LEMMA CommitDispatchStep ==
  ASSUME IInv, NEW r \in Requests, NEW a \in Attempts, NEW c \in Actions,
         CommitDispatch(r, a, c)
  PROVE  IInv'
<1> USE DEF messageVars, requestVars, attemptVars, toolVars, waitVars,
            actionVars, adminVars, slotVars, queueVars, processVars,
            providerVars
<1>1. TypeOK'
  <2>1. /\ msgDisp'   \in [Messages -> Dispositions]
        /\ reqStatus' \in [Requests -> RequestStates]
        /\ attReq'    \in [Attempts -> Requests \cup {0}]
        /\ attState'  \in [Attempts -> AttemptStates]
        /\ attEffect' \in [Attempts -> EffectStates]
        /\ readiness' \in Readiness
        /\ reasons'   \subseteq Reasons
        /\ actKind'   \in [Actions -> ActionKinds]
        /\ actAtt'    \in [Actions -> Attempts \cup {0}]
        /\ actObj'    \in [Actions -> Messages \cup Waits \cup {0}]
        /\ actStatus' \in [Actions -> ActionStates]
    BY StateValues DEF IInv, TypeOK, CommitDispatch, CandidateCurrent,
       SlotOpen, InsertAction
  <2> QED BY <2>1 DEF IInv, TypeOK, CommitDispatch, CandidateCurrent, SlotOpen,
         InsertAction
<1>2. RowInv'
  BY DEF IInv, TypeOK, RowInv, CommitDispatch, CandidateCurrent, SlotOpen,
     InsertAction, NextAttempt, NextAction, Idle
<1>3. SlotInv'
  BY AttemptsPositive DEF IInv, TypeOK, SlotInv, CommitDispatch,
     CandidateCurrent, SlotOpen, InsertAction, ActiveAttempts, ActiveStates
<1>4. GateInv'
  BY ActionsPositive DEF IInv, TypeOK, GateInv, CommitDispatch,
     CandidateCurrent, SlotOpen, InsertAction, RowInv, NextAction, Idle,
     GateSteps
<1>5. TurnInv'
  BY AttemptsPositive DEF IInv, TypeOK, TurnInv, CommitDispatch,
     CandidateCurrent, SlotOpen, InsertAction, RowInv, NextAction, Idle
<1>6. LiveTurnOwnsSlot'
  BY AttemptsPositive DEF IInv, TypeOK, LiveTurnOwnsSlot, CommitDispatch,
     CandidateCurrent, SlotOpen, InsertAction
<1> QED BY <1>1, <1>2, <1>3, <1>4, <1>5, <1>6 DEF IInv

\* DispatchNext gives the candidate up.
LEMMA DropCandidateStep ==
  ASSUME IInv, DropCandidate
  PROVE  IInv'
<1> USE DEF messageVars, requestVars, attemptVars, toolVars, waitVars,
            actionVars, adminVars, slotVars, queueVars, processVars,
            providerVars
<1>1. TypeOK'
  BY DEF IInv, TypeOK, DropCandidate
<1>2. RowInv' /\ SlotInv' /\ GateInv' /\ TurnInv' /\ LiveTurnOwnsSlot'
  BY DEF IInv, RowInv, SlotInv, GateInv, TurnInv, LiveTurnOwnsSlot,
     DropCandidate
<1> QED BY <1>1, <1>2 DEF IInv

\* claimAction hands a row to a goroutine that has not taken startGate.
LEMMA ClaimActionStep ==
  ASSUME IInv, NEW c \in Actions, ClaimAction(c)
  PROVE  IInv'
<1> USE DEF messageVars, requestVars, attemptVars, toolVars, waitVars,
            actionVars, adminVars, slotVars, queueVars, processVars,
            providerVars
<1>1. TypeOK'
  BY StateValues DEF IInv, TypeOK, ClaimAction
<1>2. RowInv'
  BY DEF IInv, TypeOK, RowInv, ClaimAction, Claimable, LaneActions
<1>3. GateInv'
  BY DEF IInv, TypeOK, GateInv, ClaimAction, GateSteps
<1>4. TurnInv'
  BY DEF IInv, TypeOK, TurnInv, ClaimAction
<1>5. SlotInv' /\ LiveTurnOwnsSlot'
  BY DEF IInv, SlotInv, LiveTurnOwnsSlot, ClaimAction
<1> QED BY <1>1, <1>2, <1>3, <1>4, <1>5 DEF IInv

\* requeueAction returns the row and stops the goroutine.
LEMMA RequeueDispatchStep ==
  ASSUME IInv, NEW c \in Actions, RequeueDispatch(c)
  PROVE  IInv'
<1> USE DEF messageVars, requestVars, attemptVars, toolVars, waitVars,
            actionVars, adminVars, slotVars, queueVars, processVars,
            providerVars
<1>1. TypeOK'
  BY StateValues DEF IInv, TypeOK, RequeueDispatch
<1>2. RowInv'
  BY DEF IInv, TypeOK, RowInv, RequeueDispatch, Idle
<1>3. GateInv'
  BY DEF IInv, TypeOK, GateInv, RequeueDispatch, GateSteps, Idle
<1>4. TurnInv'
  BY DEF IInv, TypeOK, TurnInv, RequeueDispatch, RowInv, Idle
<1>5. SlotInv' /\ LiveTurnOwnsSlot'
  BY DEF IInv, SlotInv, LiveTurnOwnsSlot, RequeueDispatch
<1> QED BY <1>1, <1>2, <1>3, <1>4, <1>5 DEF IInv

\* performDispatch takes startGate, and calls the adapter only for an attempt
\* that is dispatching, which therefore owns the slot.
LEMMA EnterDispatchStep ==
  ASSUME IInv, NEW c \in Actions, EnterDispatch(c)
  PROVE  IInv'
<1> USE DEF messageVars, requestVars, attemptVars, toolVars, waitVars,
            actionVars, adminVars, slotVars, queueVars, processVars,
            providerVars
<1>1. TypeOK'
  BY StateValues DEF IInv, TypeOK, EnterDispatch, DurableUnchanged
<1>2. RowInv'
  BY DEF IInv, TypeOK, RowInv, EnterDispatch, DurableUnchanged, Idle
<1>3. GateInv'
  BY ActionsPositive DEF IInv, TypeOK, GateInv, EnterDispatch,
     DurableUnchanged, GateSteps, Idle, Free, Settings
<1>4. TurnInv'
  BY DEF IInv, TypeOK, TurnInv, EnterDispatch, DurableUnchanged, RowInv,
     SlotInv, ActiveStates, Idle
<1>5. SlotInv' /\ LiveTurnOwnsSlot'
  BY DEF IInv, SlotInv, LiveTurnOwnsSlot, EnterDispatch, DurableUnchanged
<1> QED BY <1>1, <1>2, <1>3, <1>4, <1>5 DEF IInv

\* Adapter.Start asks for a turn while the attempt owns the slot.
LEMMA IssueTurnStep ==
  ASSUME IInv, NEW c \in Actions, IssueTurn(c)
  PROVE  IInv'
<1> USE DEF messageVars, requestVars, attemptVars, toolVars, waitVars,
            actionVars, adminVars, slotVars, queueVars, processVars,
            providerVars
<1>1. TypeOK'
  <2>1. /\ turn' \in [Attempts -> TurnStates]
    BY StateValues DEF IInv, TypeOK, IssueTurn, DurableUnchanged
  <2> QED BY <2>1 DEF IInv, TypeOK, IssueTurn, DurableUnchanged
<1>2. TurnInv'
  BY DEF IInv, TypeOK, TurnInv, IssueTurn, DurableUnchanged, RowInv, GateInv,
     GateSteps, Idle, LiveTurn
<1>3. LiveTurnOwnsSlot'
  BY DEF IInv, TypeOK, LiveTurnOwnsSlot, IssueTurn, DurableUnchanged, RowInv,
     TurnInv, Idle, LiveTurn
<1>4. RowInv' /\ SlotInv' /\ GateInv'
  BY DEF IInv, RowInv, SlotInv, GateInv, IssueTurn, DurableUnchanged
<1> QED BY <1>1, <1>2, <1>3, <1>4 DEF IInv

\* The start call returns; a rejection leaves no turn.
LEMMA StartReturnsStep ==
  ASSUME IInv, NEW c \in Actions, StartReturns(c)
  PROVE  IInv'
<1> USE DEF messageVars, requestVars, attemptVars, toolVars, waitVars,
            actionVars, adminVars, slotVars, queueVars, processVars,
            providerVars
<1>1. TypeOK'
  BY StateValues DEF IInv, TypeOK, StartReturns, DurableUnchanged
<1>2. RowInv'
  BY DEF IInv, TypeOK, RowInv, StartReturns, DurableUnchanged, Idle
<1>3. GateInv'
  BY DEF IInv, TypeOK, GateInv, StartReturns, DurableUnchanged, GateSteps
<1>4. TurnInv'
  BY DEF IInv, TypeOK, TurnInv, StartReturns, DurableUnchanged, RowInv,
     GateInv, GateSteps, Idle, LiveTurn
<1>5. LiveTurnOwnsSlot'
  BY DEF IInv, TypeOK, LiveTurnOwnsSlot, StartReturns, DurableUnchanged,
     LiveTurn
<1>6. SlotInv'
  BY DEF IInv, SlotInv, StartReturns, DurableUnchanged
<1> QED BY <1>1, <1>2, <1>3, <1>4, <1>5, <1>6 DEF IInv

\* markStarted keeps the attempt in the slot.
LEMMA MarkStartedStep ==
  ASSUME IInv, NEW c \in Actions, MarkStarted(c)
  PROVE  IInv'
<1> USE DEF messageVars, requestVars, attemptVars, toolVars, waitVars,
            actionVars, adminVars, slotVars, queueVars, processVars,
            providerVars
<1>1. TypeOK'
  BY StateValues DEF IInv, TypeOK, MarkStarted, BumpStateVersion
<1>2. RowInv'
  BY DEF IInv, TypeOK, RowInv, MarkStarted, BumpStateVersion, Idle
<1>3. SlotInv'
  BY DEF IInv, TypeOK, SlotInv, MarkStarted, BumpStateVersion, ActiveStates
<1>4. GateInv'
  BY DEF IInv, TypeOK, GateInv, MarkStarted, BumpStateVersion, GateSteps
<1>5. TurnInv'
  BY DEF IInv, TypeOK, TurnInv, MarkStarted, BumpStateVersion
<1>6. LiveTurnOwnsSlot'
  BY DEF IInv, LiveTurnOwnsSlot, MarkStarted, BumpStateVersion
<1> QED BY <1>1, <1>2, <1>3, <1>4, <1>5, <1>6 DEF IInv

\* markAttemptUnknown changes only the attempt in the slot, and keeps it there.
LEMMA MarkUnknownStep ==
  ASSUME IInv, NEW c \in Actions, MarkUnknown(c)
  PROVE  IInv'
<1> USE DEF messageVars, requestVars, attemptVars, toolVars, waitVars,
            actionVars, adminVars, slotVars, queueVars, processVars,
            providerVars
<1>1. actAtt[c] \in Attempts /\ attState[actAtt[c]] # "absent"
  BY DEF IInv, RowInv, MarkUnknown, Idle
<1>2. /\ attState'  \in [Attempts -> AttemptStates]
      /\ attEffect' \in [Attempts -> EffectStates]
      /\ reqStatus' \in [Requests -> RequestStates]
      /\ readiness' \in Readiness
      /\ occupancy' \in {"idle", "active", "unknown"}
      /\ reasons'   \subseteq Reasons
      /\ cand'      \in Requests \cup {0, Stale}
      /\ active'    = active
      /\ SlotInv'
      /\ \A b \in Attempts : attState'[b] = "absent" <=> attState[b] = "absent"
  <2>1. CASE OwnsSlot(actAtt[c])
    <3>1. /\ active \in {0, actAtt[c]} /\ active = actAtt[c]
          /\ reqStatus \in [Requests -> RequestStates]
          /\ "unknown" \in EffectStates
          /\ SetAttemptUnknown(actAtt[c], "unknown", reqStatus)
          /\ BumpIfKnown(actAtt[c])
      BY <2>1, StateValues DEF IInv, TypeOK, OwnsSlot, MarkUnknown
    <3>2. cand' \in Requests \cup {0, Stale}
      BY <3>1 DEF IInv, TypeOK, BumpIfKnown, BumpStateVersion
    <3> QED BY <1>1, <3>1, <3>2, UnknownTakesSlot DEF IInv
  <2>2. CASE ~OwnsSlot(actAtt[c])
    BY <2>2 DEF IInv, TypeOK, SlotInv, MarkUnknown
  <2> QED BY <2>1, <2>2
<1>3. TypeOK'
  <2>1. pc' \in [Actions -> WorkerSteps]
    BY StateValues DEF IInv, TypeOK, MarkUnknown
  <2> QED BY <1>2, <2>1 DEF IInv, TypeOK, MarkUnknown
<1>4. RowInv'
  BY <1>2 DEF IInv, TypeOK, RowInv, MarkUnknown, Idle
<1>5. GateInv'
  BY DEF IInv, TypeOK, GateInv, MarkUnknown, GateSteps
<1>6. TurnInv' /\ LiveTurnOwnsSlot'
  BY <1>2 DEF IInv, TypeOK, TurnInv, LiveTurnOwnsSlot, MarkUnknown
<1> QED BY <1>2, <1>3, <1>4, <1>5, <1>6 DEF IInv

\* A rejected start frees the slot; startGate shows that no other dispatch is
\* about to ask for a turn.
LEMMA RejectStartStep ==
  ASSUME IInv, NEW c \in Actions, RejectStart(c)
  PROVE  IInv'
<1> USE DEF messageVars, requestVars, attemptVars, toolVars, waitVars,
            actionVars, adminVars, slotVars, queueVars, processVars,
            providerVars
<1>1. TypeOK'
  BY StateValues DEF IInv, TypeOK, RejectStart, OwnsSlot, BumpStateVersion
<1>2. RowInv'
  BY DEF IInv, TypeOK, RowInv, RejectStart, OwnsSlot, BumpStateVersion, Idle
<1>3. SlotInv'
  BY AttemptsPositive DEF IInv, TypeOK, SlotInv, RejectStart, OwnsSlot,
     BumpStateVersion, ActiveStates
<1>4. GateInv'
  BY DEF IInv, TypeOK, GateInv, RejectStart, OwnsSlot, BumpStateVersion,
     GateSteps
<1>5. TurnInv'
  BY DEF IInv, TypeOK, TurnInv, RejectStart, OwnsSlot, BumpStateVersion,
     RowInv, GateInv, GateSteps, Idle
<1>6. LiveTurnOwnsSlot'
  BY DEF IInv, TypeOK, LiveTurnOwnsSlot, RejectStart, OwnsSlot,
     BumpStateVersion, TurnInv
<1> QED BY <1>1, <1>2, <1>3, <1>4, <1>5, <1>6 DEF IInv

\* Adapter.Cancel returns.
LEMMA CancelReturnsStep ==
  ASSUME IInv, NEW c \in Actions, CancelReturns(c)
  PROVE  IInv'
<1> USE DEF messageVars, requestVars, attemptVars, toolVars, waitVars,
            actionVars, adminVars, slotVars, queueVars, processVars,
            providerVars
<1>1. TypeOK'
  BY StateValues DEF IInv, TypeOK, CancelReturns, DurableUnchanged
<1>2. RowInv'
  BY DEF IInv, TypeOK, RowInv, CancelReturns, DurableUnchanged, Idle
<1>3. GateInv'
  BY DEF IInv, TypeOK, GateInv, CancelReturns, DurableUnchanged, GateSteps,
     Idle
<1>4. TurnInv'
  BY DEF IInv, TypeOK, TurnInv, CancelReturns, DurableUnchanged, RowInv, Idle
<1>5. SlotInv' /\ LiveTurnOwnsSlot'
  BY DEF IInv, SlotInv, LiveTurnOwnsSlot, CancelReturns, DurableUnchanged
<1> QED BY <1>1, <1>2, <1>3, <1>4, <1>5 DEF IInv

\* Adapter.Steer returns.
LEMMA SteerReturnsStep ==
  ASSUME IInv, NEW c \in Actions, SteerReturns(c)
  PROVE  IInv'
<1> USE DEF messageVars, requestVars, attemptVars, toolVars, waitVars,
            actionVars, adminVars, slotVars, queueVars, processVars,
            providerVars
<1>1. TypeOK'
  BY StateValues DEF IInv, TypeOK, SteerReturns, DurableUnchanged, RowInv
<1>2. RowInv'
  BY DEF IInv, TypeOK, RowInv, SteerReturns, DurableUnchanged, Idle
<1>3. GateInv'
  BY DEF IInv, TypeOK, GateInv, SteerReturns, DurableUnchanged, GateSteps,
     Idle
<1>4. TurnInv'
  BY DEF IInv, TypeOK, TurnInv, SteerReturns, DurableUnchanged, RowInv, Idle
<1>5. SlotInv' /\ LiveTurnOwnsSlot'
  BY DEF IInv, SlotInv, LiveTurnOwnsSlot, SteerReturns, DurableUnchanged
<1> QED BY <1>1, <1>2, <1>3, <1>4, <1>5 DEF IInv

\* Adapter.RespondApproval and RespondInput return.
LEMMA RespondReturnsStep ==
  ASSUME IInv, NEW c \in Actions, RespondReturns(c)
  PROVE  IInv'
<1> USE DEF messageVars, requestVars, attemptVars, toolVars, waitVars,
            actionVars, adminVars, slotVars, queueVars, processVars,
            providerVars
<1>1. TypeOK'
  BY StateValues DEF IInv, TypeOK, RespondReturns, DurableUnchanged
<1>2. RowInv'
  BY DEF IInv, TypeOK, RowInv, RespondReturns, DurableUnchanged, Idle
<1>3. GateInv'
  BY DEF IInv, TypeOK, GateInv, RespondReturns, DurableUnchanged, GateSteps,
     Idle
<1>4. TurnInv'
  BY DEF IInv, TypeOK, TurnInv, RespondReturns, DurableUnchanged, RowInv, Idle
<1>5. SlotInv' /\ LiveTurnOwnsSlot'
  BY DEF IInv, SlotInv, LiveTurnOwnsSlot, RespondReturns, DurableUnchanged
<1> QED BY <1>1, <1>2, <1>3, <1>4, <1>5 DEF IInv

\* An unknown steer takes the slot only when the unique index lets it: the slot
\* is then free, or the attempt's own.
LEMMA IndexGuardsSlot ==
  ASSUME TypeOK, SlotInv, NEW a \in Attempts, OneActiveIndexAllows(a)
  PROVE  active \in {0, a}
BY DEF TypeOK, SlotInv, OneActiveIndexAllows, ActiveAttempts

\* finishSteer, whose unknown outcome may take a free slot.
LEMMA FinishSteerStep ==
  ASSUME IInv, NEW c \in Actions, FinishSteer(c)
  PROVE  IInv'
<1> USE DEF messageVars, requestVars, attemptVars, toolVars, waitVars,
            actionVars, adminVars, slotVars, queueVars, processVars,
            providerVars
<1> DEFINE m == actObj[c]
           a == actAtt[c]
<1>1. a \in Attempts /\ attState[a] # "absent"
  BY DEF IInv, RowInv, FinishSteer, Outcomes, Idle
<1>2. /\ attState'  \in [Attempts -> AttemptStates]
      /\ attEffect' \in [Attempts -> EffectStates]
      /\ reqStatus' \in [Requests -> RequestStates]
      /\ readiness' \in Readiness
      /\ occupancy' \in {"idle", "active", "unknown"}
      /\ reasons'   \subseteq Reasons
      /\ active' = active \/ (active = 0 /\ active' = a)
      /\ SlotInv'
      /\ \A b \in Attempts : attState'[b] = "absent" <=> attState[b] = "absent"
  <2>1. CASE /\ pc[c] = "uncertain" /\ SteerOutstanding(m)
             /\ OneActiveIndexAllows(a)
    <3>1. PICK r \in Requests :
            SetAttemptUnknown(a, "unknown", [reqStatus EXCEPT ![r] = "unknown"])
      BY <2>1 DEF FinishSteer
    <3>2. /\ [reqStatus EXCEPT ![r] = "unknown"] \in [Requests -> RequestStates]
          /\ "unknown" \in EffectStates
      BY StateValues DEF IInv, TypeOK
    <3>3. active \in {0, a}
      BY <1>1, <2>1, IndexGuardsSlot DEF IInv
    <3> HIDE DEF a
    <3> QED BY <1>1, <3>1, <3>2, <3>3, UnknownTakesSlot DEF IInv
  <2>2. CASE ~(/\ pc[c] = "uncertain" /\ SteerOutstanding(m)
               /\ OneActiveIndexAllows(a))
    <3>1. /\ UNCHANGED <<attState, attEffect, slotVars>>
          /\ \/ UNCHANGED reqStatus
             \/ \E r \in Requests : reqStatus' = [reqStatus EXCEPT
                                                    ![r] = "completed"]
      BY <2>2 DEF FinishSteer, Outcomes
    <3>2. reqStatus' \in [Requests -> RequestStates]
      BY <3>1, StateValues DEF IInv, TypeOK
    <3> QED BY <3>1, <3>2 DEF IInv, TypeOK, SlotInv
  <2> QED BY <2>1, <2>2
<1>3. TypeOK'
  <2>1. pc' \in [Actions -> WorkerSteps]
    BY StateValues DEF IInv, TypeOK, FinishSteer, FinishStep
  <2>2. msgDisp' \in [Messages -> Dispositions]
    BY StateValues DEF IInv, TypeOK, FinishSteer
  <2>3. pending' \in Int /\ cand' \in Requests \cup {0, Stale}
    BY DEF IInv, TypeOK, FinishSteer, BumpStateVersion
  <2>4. active' \in Attempts \cup {0}
    BY <1>1, <1>2 DEF IInv, TypeOK
  <2>5. UNCHANGED <<msgDialog, reqMsg, attReq, attTerminal, toolVars, waitVars,
                    actionVars, adminVars, paused, gate, barrier, settingsOk,
                    auth, reconciling, providerVars>>
    BY DEF FinishSteer
  <2> QED BY <1>2, <2>1, <2>2, <2>3, <2>4, <2>5 DEF IInv, TypeOK
<1>4. RowInv'
  BY <1>2 DEF IInv, TypeOK, RowInv, FinishSteer, FinishStep, Outcomes, Idle
<1>5. GateInv'
  BY DEF IInv, TypeOK, GateInv, FinishSteer, FinishStep, Outcomes
<1>6. pc' = [pc EXCEPT ![c] = FinishStep(pc[c])] /\ UNCHANGED <<actionVars, turn>>
  BY DEF FinishSteer
<1>7. TurnInv'
  BY <1>2, <1>6, AttemptsPositive
  DEF IInv, TypeOK, RowInv, TurnInv, FinishStep, Idle
<1>8. LiveTurnOwnsSlot'
  BY <1>2, <1>6, AttemptsPositive DEF IInv, TypeOK, LiveTurnOwnsSlot
<1> QED BY <1>2, <1>3, <1>4, <1>5, <1>7, <1>8 DEF IInv

\* finishApproval and finishInput, whose unknown outcome may take a free slot
\* for an attempt that was over.
LEMMA FinishResponseStep ==
  ASSUME IInv, NEW c \in Actions, FinishResponse(c)
  PROVE  IInv'
<1> USE DEF messageVars, requestVars, attemptVars, toolVars, waitVars,
            actionVars, adminVars, slotVars, queueVars, processVars,
            providerVars
<1> DEFINE w == actObj[c]
           a == actAtt[c]
<1>1. a \in Attempts /\ attState[a] # "absent"
  BY DEF IInv, RowInv, FinishResponse, Outcomes, Idle
<1>2. /\ attState'  \in [Attempts -> AttemptStates]
      /\ attEffect' \in [Attempts -> EffectStates]
      /\ reqStatus' \in [Requests -> RequestStates]
      /\ readiness' \in Readiness
      /\ occupancy' \in {"idle", "active", "unknown"}
      /\ reasons'   \subseteq Reasons
      /\ cand'      \in Requests \cup {0, Stale}
      /\ active' = active \/ (active = 0 /\ active' = a)
      /\ SlotInv'
      /\ \A b \in Attempts : attState'[b] = "absent" <=> attState[b] = "absent"
  <2>1. CASE pc[c] = "uncertain" /\ OneActiveIndexAllows(a)
    <3>1. /\ SetAttemptUnknown(a, "unknown", reqStatus)
          /\ BumpIfKnown(a)
          /\ reqStatus \in [Requests -> RequestStates]
          /\ "unknown" \in EffectStates
      BY <2>1, StateValues DEF IInv, TypeOK, FinishResponse
    <3>2. active \in {0, a}
      BY <1>1, <2>1, IndexGuardsSlot DEF IInv
    <3>3. cand' \in Requests \cup {0, Stale}
      BY <3>1 DEF IInv, TypeOK, BumpIfKnown, BumpStateVersion
    <3> HIDE DEF a
    <3> QED BY <1>1, <3>1, <3>2, <3>3, UnknownTakesSlot DEF IInv
  <2>2. CASE ~(pc[c] = "uncertain" /\ OneActiveIndexAllows(a))
    BY <2>2 DEF IInv, TypeOK, SlotInv, FinishResponse
  <2> QED BY <2>1, <2>2
<1>3. /\ pc' = [pc EXCEPT ![c] = FinishStep(pc[c])]
      /\ UNCHANGED <<messageVars, reqMsg, attReq, attTerminal, toolVars, waitAtt,
                     actionVars, adminVars, queueVars, gate, barrier, settingsOk,
                     auth, reconciling, providerVars>>
  BY DEF FinishResponse
<1>4. TypeOK'
  <2>1. pc' \in [Actions -> WorkerSteps]
    BY <1>3, StateValues DEF IInv, TypeOK, FinishStep
  <2>2. waitStatus' \in [Waits -> WaitStates]
    BY StateValues DEF IInv, TypeOK, FinishResponse, ResponseStatus
  <2>3. active' \in Attempts \cup {0}
    BY <1>1, <1>2 DEF IInv, TypeOK
  <2> QED BY <1>2, <1>3, <2>1, <2>2, <2>3 DEF IInv, TypeOK
<1>5. RowInv'
  <2>1. \A v \in Waits : waitStatus'[v] # "absent"
          => waitAtt'[v] \in Attempts /\ attState'[waitAtt'[v]] # "absent"
    <3>1. waitStatus[w] # "absent" \/ w \notin Waits
      BY DEF IInv, RowInv, FinishResponse, Outcomes, Idle
    <3> QED BY <1>2, <1>3, <3>1 DEF IInv, TypeOK, RowInv, FinishResponse
  <2>2. \A v \in Waits : waitStatus[v] # "absent" => waitStatus'[v] # "absent"
    BY DEF IInv, TypeOK, FinishResponse, ResponseStatus
  <2>3. pc[c] \in Outcomes
    BY DEF FinishResponse
  <2> QED BY <1>2, <1>3, <2>1, <2>2, <2>3
      DEF IInv, TypeOK, RowInv, FinishStep, Outcomes, Idle
<1>6. GateInv'
  BY <1>3 DEF IInv, TypeOK, GateInv, FinishResponse, FinishStep, Outcomes
<1>7. TurnInv'
  BY <1>2, <1>3, AttemptsPositive
  DEF IInv, TypeOK, RowInv, TurnInv, FinishStep, Idle
<1>8. LiveTurnOwnsSlot'
  BY <1>2, <1>3, AttemptsPositive DEF IInv, TypeOK, LiveTurnOwnsSlot
<1> QED BY <1>2, <1>4, <1>5, <1>6, <1>7, <1>8 DEF IInv

\* A lost transaction leaves the rows alone.
LEMMA TransactionLostStep ==
  ASSUME IInv, NEW c \in Actions, TransactionLost(c)
  PROVE  IInv'
<1> USE DEF messageVars, requestVars, attemptVars, toolVars, waitVars,
            actionVars, adminVars, slotVars, queueVars, processVars,
            providerVars
<1>1. TypeOK'
  BY StateValues DEF IInv, TypeOK, TransactionLost, DurableUnchanged,
     FinishStep
<1>2. RowInv'
  BY DEF IInv, TypeOK, RowInv, TransactionLost, DurableUnchanged, FinishStep,
     Idle, Outcomes
<1>3. GateInv'
  BY DEF IInv, TypeOK, GateInv, TransactionLost, DurableUnchanged, FinishStep,
     GateSteps, Outcomes
<1>4. TurnInv'
  BY DEF IInv, TypeOK, TurnInv, TransactionLost, DurableUnchanged, FinishStep,
     Outcomes
<1>5. SlotInv' /\ LiveTurnOwnsSlot'
  BY DEF IInv, SlotInv, LiveTurnOwnsSlot, TransactionLost, DurableUnchanged,
     FinishStep
<1> QED BY <1>1, <1>2, <1>3, <1>4, <1>5 DEF IInv

\* finishAction releases startGate, which only this dispatch can hold.
LEMMA FinishActionStep ==
  ASSUME IInv, NEW c \in Actions, FinishAction(c)
  PROVE  IInv'
<1> USE DEF messageVars, requestVars, attemptVars, toolVars, waitVars,
            actionVars, adminVars, slotVars, queueVars, processVars,
            providerVars
<1>1. TypeOK'
  BY StateValues DEF IInv, TypeOK, FinishAction
<1>2. RowInv'
  BY DEF IInv, TypeOK, RowInv, FinishAction, Idle
<1>3. GateInv'
  BY ActionsPositive DEF IInv, TypeOK, GateInv, FinishAction, GateSteps, Idle
<1>4. TurnInv'
  BY DEF IInv, TypeOK, TurnInv, FinishAction, Idle
<1>5. SlotInv' /\ LiveTurnOwnsSlot'
  BY DEF IInv, SlotInv, LiveTurnOwnsSlot, FinishAction
<1> QED BY <1>1, <1>2, <1>3, <1>4, <1>5 DEF IInv

\* registerAttemptStream changes only the goroutine.
LEMMA RegisterStreamStep ==
  ASSUME IInv, NEW c \in Actions, RegisterStream(c)
  PROVE  IInv'
<1> USE DEF messageVars, requestVars, attemptVars, toolVars, waitVars,
            actionVars, adminVars, slotVars, queueVars, processVars,
            providerVars
<1>1. TypeOK'
  BY StateValues DEF IInv, TypeOK, RegisterStream, DurableUnchanged
<1>2. RowInv'
  BY DEF IInv, TypeOK, RowInv, RegisterStream, DurableUnchanged, Idle
<1>3. GateInv'
  BY DEF IInv, TypeOK, GateInv, RegisterStream, DurableUnchanged, GateSteps,
     Idle
<1>4. TurnInv'
  BY DEF IInv, TypeOK, TurnInv, RegisterStream, DurableUnchanged, RowInv, Idle
<1>5. SlotInv' /\ LiveTurnOwnsSlot'
  BY DEF IInv, SlotInv, LiveTurnOwnsSlot, RegisterStream, DurableUnchanged
<1> QED BY <1>1, <1>2, <1>3, <1>4, <1>5 DEF IInv

\* A cancelled stream changes only the goroutine.
LEMMA StreamClosedStep ==
  ASSUME IInv, NEW c \in Actions, StreamClosed(c)
  PROVE  IInv'
<1> USE DEF messageVars, requestVars, attemptVars, toolVars, waitVars,
            actionVars, adminVars, slotVars, queueVars, processVars,
            providerVars
<1>1. TypeOK'
  BY StateValues DEF IInv, TypeOK, StreamClosed, DurableUnchanged
<1>2. RowInv'
  BY DEF IInv, TypeOK, RowInv, StreamClosed, DurableUnchanged, Idle
<1>3. GateInv'
  BY DEF IInv, TypeOK, GateInv, StreamClosed, DurableUnchanged, GateSteps,
     Idle
<1>4. TurnInv'
  BY DEF IInv, TypeOK, TurnInv, StreamClosed, DurableUnchanged, RowInv, Idle
<1>5. SlotInv' /\ LiveTurnOwnsSlot'
  BY DEF IInv, SlotInv, LiveTurnOwnsSlot, StreamClosed, DurableUnchanged
<1> QED BY <1>1, <1>2, <1>3, <1>4, <1>5 DEF IInv

\* What observing an event of the attempt in the slot may rely on.
LEMMA ObservedAttempt ==
  ASSUME IInv, NEW c \in Actions, Observing(c)
  PROVE  /\ actAtt[c] \in Attempts
         /\ attState[actAtt[c]] # "absent"
         /\ active = actAtt[c]
BY DEF IInv, RowInv, Observing, Idle

\* chargeAttemptOutput and scheduleOutputLimitStop keep the attempt in the slot.
LEMMA ChargeOutputInv ==
  ASSUME IInv, NEW a \in Attempts, attState[a] # "absent", active = a, NEW over,
         ChargeOutput(a, over), UNCHANGED <<active, pc, gate, barrier, turn>>
  PROVE  /\ attOver'   \in [Attempts -> BOOLEAN]
         /\ attState'  \in [Attempts -> AttemptStates]
         /\ actKind'   \in [Actions -> ActionKinds]
         /\ actAtt'    \in [Actions -> Attempts \cup {0}]
         /\ actObj'    \in [Actions -> Messages \cup Waits \cup {0}]
         /\ actStatus' \in [Actions -> ActionStates]
         /\ \A b \in Attempts : attState'[b] = "absent" <=> attState[b] = "absent"
         /\ \A d \in Actions :
              \/ /\ actKind'[d] = actKind[d] /\ actAtt'[d] = actAtt[d]
                 /\ actObj'[d] = actObj[d] /\ actStatus'[d] = actStatus[d]
              \/ /\ pc[d] = Idle /\ actKind'[d] = "attempt.stop"
                 /\ actAtt'[d] = a /\ actStatus'[d] = "pending"
         /\ SlotInv' /\ GateInv' /\ TurnInv'
<1> USE DEF actionVars
<1>1. CASE over /\ attState[a] \in {"running", "waiting_input"}
  <2>1. attOver' = [attOver EXCEPT ![a] = TRUE]
        /\ attState' = [attState EXCEPT ![a] = "stopping"]
    BY <1>1 DEF ChargeOutput
  <2>2. PICK s \in Actions : InsertAction(s, "attempt.stop", a, 0)
    BY <1>1 DEF ChargeOutput
  <2>3. pc[s] = Idle
    BY <2>2 DEF IInv, RowInv, InsertAction, NextAction
  <2>4. /\ attOver'   \in [Attempts -> BOOLEAN]
        /\ attState'  \in [Attempts -> AttemptStates]
        /\ actKind'   \in [Actions -> ActionKinds]
        /\ actAtt'    \in [Actions -> Attempts \cup {0}]
        /\ actObj'    \in [Actions -> Messages \cup Waits \cup {0}]
        /\ actStatus' \in [Actions -> ActionStates]
    BY <2>1, <2>2, StateValues DEF IInv, TypeOK, InsertAction
  <2>5. \A b \in Attempts : attState'[b] = "absent" <=> attState[b] = "absent"
    BY <2>1 DEF IInv, TypeOK
  <2>6. \A d \in Actions :
          \/ /\ actKind'[d] = actKind[d] /\ actAtt'[d] = actAtt[d]
             /\ actObj'[d] = actObj[d] /\ actStatus'[d] = actStatus[d]
          \/ /\ pc[d] = Idle /\ actKind'[d] = "attempt.stop"
             /\ actAtt'[d] = a /\ actStatus'[d] = "pending"
    BY <2>2, <2>3 DEF IInv, TypeOK, InsertAction
  <2>7. SlotInv'
    BY <1>1, <2>1 DEF IInv, TypeOK, SlotInv, ActiveStates
  <2>8. GateInv'
    BY <2>6 DEF IInv, GateInv, GateSteps, Idle
  <2>9. TurnInv'
    BY <2>6 DEF IInv, TurnInv, Idle
  <2> QED BY <2>4, <2>5, <2>6, <2>7, <2>8, <2>9
<1>2. CASE ~(over /\ attState[a] \in {"running", "waiting_input"})
  <2>1. /\ UNCHANGED <<attState, actionVars>>
        /\ attOver' \in [Attempts -> BOOLEAN]
    BY <1>2 DEF IInv, TypeOK, ChargeOutput
  <2>2. SlotInv' /\ GateInv' /\ TurnInv'
    BY <2>1 DEF IInv, SlotInv, GateInv, TurnInv
  <2> QED BY <2>1, <2>2 DEF IInv, TypeOK
<1> QED BY <1>1, <1>2

\* The projection of tool.started.
LEMMA ToolStartedStep ==
  ASSUME IInv, NEW c \in Actions, NEW over, ToolStarted(c, over)
  PROVE  IInv'
<1> USE DEF messageVars, requestVars, attemptVars, toolVars, waitVars,
            actionVars, adminVars, slotVars, queueVars, processVars,
            providerVars
<1> DEFINE a == actAtt[c]
<1>1. a \in Attempts /\ attState[a] # "absent" /\ active = a
  BY ObservedAttempt DEF ToolStarted, InBudget
<1>2. ChargeOutput(a, over) /\ UNCHANGED <<active, pc, gate, barrier, turn>>
  BY DEF ToolStarted, EventFrame
<1> HIDE DEF a
<1>3. /\ attOver'   \in [Attempts -> BOOLEAN]
      /\ attState'  \in [Attempts -> AttemptStates]
      /\ actKind'   \in [Actions -> ActionKinds]
      /\ actAtt'    \in [Actions -> Attempts \cup {0}]
      /\ actObj'    \in [Actions -> Messages \cup Waits \cup {0}]
      /\ actStatus' \in [Actions -> ActionStates]
      /\ \A b \in Attempts : attState'[b] = "absent" <=> attState[b] = "absent"
      /\ \A d \in Actions :
           \/ /\ actKind'[d] = actKind[d] /\ actAtt'[d] = actAtt[d]
              /\ actObj'[d] = actObj[d] /\ actStatus'[d] = actStatus[d]
           \/ /\ pc[d] = Idle /\ actKind'[d] = "attempt.stop"
              /\ actAtt'[d] = a /\ actStatus'[d] = "pending"
      /\ SlotInv' /\ GateInv' /\ TurnInv'
  BY <1>1, <1>2, ChargeOutputInv
<1>4. TypeOK'
  <2>1. attTool' \in [Attempts -> ToolStates]
    BY <1>1, StateValues DEF IInv, TypeOK, ToolStarted, a
  <2>2. cand' \in Requests \cup {0, Stale}
    BY DEF IInv, TypeOK, ToolStarted, BumpStateVersion
  <2> QED BY <1>3, <2>1, <2>2 DEF IInv, TypeOK, ToolStarted, EventFrame
<1>5. RowInv'
  BY <1>1, <1>3 DEF IInv, TypeOK, RowInv, ToolStarted, EventFrame
<1>6. LiveTurnOwnsSlot'
  BY <1>2 DEF IInv, LiveTurnOwnsSlot
<1> QED BY <1>3, <1>4, <1>5, <1>6 DEF IInv

\* The projection of tool.completed.
LEMMA ToolCompletedStep ==
  ASSUME IInv, NEW c \in Actions, NEW over, NEW end \in {"settled",
         "uncertain"}, ToolCompleted(c, over, end)
  PROVE  IInv'
<1> USE DEF messageVars, requestVars, attemptVars, toolVars, waitVars,
            actionVars, adminVars, slotVars, queueVars, processVars,
            providerVars
<1> DEFINE a == actAtt[c]
<1>1. a \in Attempts /\ attState[a] # "absent" /\ active = a
  BY ObservedAttempt DEF ToolCompleted, InBudget
<1>2. ChargeOutput(a, over) /\ UNCHANGED <<active, pc, gate, barrier, turn>>
  BY DEF ToolCompleted, EventFrame
<1> HIDE DEF a
<1>3. /\ attOver'   \in [Attempts -> BOOLEAN]
      /\ attState'  \in [Attempts -> AttemptStates]
      /\ actKind'   \in [Actions -> ActionKinds]
      /\ actAtt'    \in [Actions -> Attempts \cup {0}]
      /\ actObj'    \in [Actions -> Messages \cup Waits \cup {0}]
      /\ actStatus' \in [Actions -> ActionStates]
      /\ \A b \in Attempts : attState'[b] = "absent" <=> attState[b] = "absent"
      /\ \A d \in Actions :
           \/ /\ actKind'[d] = actKind[d] /\ actAtt'[d] = actAtt[d]
              /\ actObj'[d] = actObj[d] /\ actStatus'[d] = actStatus[d]
           \/ /\ pc[d] = Idle /\ actKind'[d] = "attempt.stop"
              /\ actAtt'[d] = a /\ actStatus'[d] = "pending"
      /\ SlotInv' /\ GateInv' /\ TurnInv'
  BY <1>1, <1>2, ChargeOutputInv
<1>4. TypeOK'
  <2>1. attTool' \in [Attempts -> ToolStates]
    BY <1>1, StateValues DEF IInv, TypeOK, ToolCompleted, a
  <2>2. cand' \in Requests \cup {0, Stale}
    BY DEF IInv, TypeOK, ToolCompleted, BumpStateVersion
  <2> QED BY <1>3, <2>1, <2>2 DEF IInv, TypeOK, ToolCompleted, EventFrame
<1>5. RowInv'
  BY <1>1, <1>3 DEF IInv, TypeOK, RowInv, ToolCompleted, EventFrame
<1>6. LiveTurnOwnsSlot'
  BY <1>2 DEF IInv, LiveTurnOwnsSlot
<1> QED BY <1>3, <1>4, <1>5, <1>6 DEF IInv

\* The projection of content that exceeds the budget.
LEMMA OutputLimitStep ==
  ASSUME IInv, NEW c \in Actions, OutputLimit(c)
  PROVE  IInv'
<1> USE DEF messageVars, requestVars, attemptVars, toolVars, waitVars,
            actionVars, adminVars, slotVars, queueVars, processVars,
            providerVars
<1> DEFINE a == actAtt[c]
<1>1. a \in Attempts /\ attState[a] # "absent" /\ active = a
  BY ObservedAttempt DEF OutputLimit, InBudget
<1>2. ChargeOutput(a, TRUE) /\ UNCHANGED <<active, pc, gate, barrier, turn>>
  BY DEF OutputLimit, EventFrame
<1> HIDE DEF a
<1>3. /\ attOver'   \in [Attempts -> BOOLEAN]
      /\ attState'  \in [Attempts -> AttemptStates]
      /\ actKind'   \in [Actions -> ActionKinds]
      /\ actAtt'    \in [Actions -> Attempts \cup {0}]
      /\ actObj'    \in [Actions -> Messages \cup Waits \cup {0}]
      /\ actStatus' \in [Actions -> ActionStates]
      /\ \A b \in Attempts : attState'[b] = "absent" <=> attState[b] = "absent"
      /\ \A d \in Actions :
           \/ /\ actKind'[d] = actKind[d] /\ actAtt'[d] = actAtt[d]
              /\ actObj'[d] = actObj[d] /\ actStatus'[d] = actStatus[d]
           \/ /\ pc[d] = Idle /\ actKind'[d] = "attempt.stop"
              /\ actAtt'[d] = a /\ actStatus'[d] = "pending"
      /\ SlotInv' /\ GateInv' /\ TurnInv'
  BY <1>1, <1>2, ChargeOutputInv
<1>4. TypeOK'
  <2>1. attTool' \in [Attempts -> ToolStates]
    BY <1>1, StateValues DEF IInv, TypeOK, OutputLimit, a
  <2>2. cand' \in Requests \cup {0, Stale}
    BY DEF IInv, TypeOK, OutputLimit, BumpStateVersion
  <2> QED BY <1>3, <2>1, <2>2 DEF IInv, TypeOK, OutputLimit, EventFrame
<1>5. RowInv'
  BY <1>1, <1>3 DEF IInv, TypeOK, RowInv, OutputLimit, EventFrame
<1>6. LiveTurnOwnsSlot'
  BY <1>2 DEF IInv, LiveTurnOwnsSlot
<1> QED BY <1>3, <1>4, <1>5, <1>6 DEF IInv

\* The projection of an input request that exceeds the budget.
LEMMA WaitRequestedOverStep ==
  ASSUME IInv, NEW c \in Actions, NEW w \in Waits, WaitRequested(c, w, TRUE)
  PROVE  IInv'
<1> USE DEF messageVars, requestVars, attemptVars, toolVars, waitVars,
            actionVars, adminVars, slotVars, queueVars, processVars,
            providerVars
<1> DEFINE a == actAtt[c]
<1>1. a \in Attempts /\ attState[a] # "absent" /\ active = a
  BY ObservedAttempt DEF WaitRequested, InBudget
<1>2. ChargeOutput(a, TRUE) /\ UNCHANGED <<active, pc, gate, barrier, turn>>
  BY DEF WaitRequested, EventFrame
<1> HIDE DEF a
<1>3. /\ attOver'   \in [Attempts -> BOOLEAN]
      /\ attState'  \in [Attempts -> AttemptStates]
      /\ actKind'   \in [Actions -> ActionKinds]
      /\ actAtt'    \in [Actions -> Attempts \cup {0}]
      /\ actObj'    \in [Actions -> Messages \cup Waits \cup {0}]
      /\ actStatus' \in [Actions -> ActionStates]
      /\ \A b \in Attempts : attState'[b] = "absent" <=> attState[b] = "absent"
      /\ \A d \in Actions :
           \/ /\ actKind'[d] = actKind[d] /\ actAtt'[d] = actAtt[d]
              /\ actObj'[d] = actObj[d] /\ actStatus'[d] = actStatus[d]
           \/ /\ pc[d] = Idle /\ actKind'[d] = "attempt.stop"
              /\ actAtt'[d] = a /\ actStatus'[d] = "pending"
      /\ SlotInv' /\ GateInv' /\ TurnInv'
  BY <1>1, <1>2, ChargeOutputInv
<1>4. TypeOK'
  <2>1. /\ waitAtt' \in [Waits -> Attempts \cup {0}]
        /\ waitStatus' \in [Waits -> WaitStates]
    BY <1>1, StateValues DEF IInv, TypeOK, WaitRequested, a
  <2>2. cand' \in Requests \cup {0, Stale}
    BY DEF IInv, TypeOK, WaitRequested, BumpStateVersion
  <2> QED BY <1>3, <2>1, <2>2 DEF IInv, TypeOK, WaitRequested, EventFrame
<1>5. RowInv'
  BY <1>1, <1>3 DEF IInv, TypeOK, RowInv, WaitRequested, EventFrame, NextWait, a
<1>6. LiveTurnOwnsSlot'
  BY <1>2 DEF IInv, LiveTurnOwnsSlot
<1> QED BY <1>3, <1>4, <1>5, <1>6 DEF IInv

\* The projection of approval.requested and input.requested within the budget.
LEMMA WaitRequestedStep ==
  ASSUME IInv, NEW c \in Actions, NEW w \in Waits, WaitRequested(c, w, FALSE)
  PROVE  IInv'
<1> USE DEF messageVars, requestVars, attemptVars, toolVars, waitVars,
            actionVars, adminVars, slotVars, queueVars, processVars,
            providerVars
<1>1. /\ actAtt[c] \in Attempts /\ attState[actAtt[c]] # "absent"
      /\ active = actAtt[c]
  BY ObservedAttempt DEF WaitRequested, InBudget
<1>2. TypeOK'
  <2>1. /\ attState'   \in [Attempts -> AttemptStates]
        /\ waitAtt'    \in [Waits -> Attempts \cup {0}]
        /\ waitStatus' \in [Waits -> WaitStates]
    BY <1>1, StateValues DEF IInv, TypeOK, WaitRequested, EventFrame,
       BumpStateVersion
  <2> QED BY <2>1 DEF IInv, TypeOK, WaitRequested, EventFrame, BumpStateVersion
<1>3. RowInv'
  BY <1>1 DEF IInv, TypeOK, RowInv, WaitRequested, EventFrame,
     BumpStateVersion, NextWait
<1>4. SlotInv'
  BY <1>1 DEF IInv, TypeOK, SlotInv, WaitRequested, EventFrame,
     BumpStateVersion, ActiveStates
<1>5. GateInv' /\ TurnInv' /\ LiveTurnOwnsSlot'
  BY DEF IInv, GateInv, TurnInv, LiveTurnOwnsSlot, WaitRequested, EventFrame,
     BumpStateVersion
<1> QED BY <1>2, <1>3, <1>4, <1>5 DEF IInv

\* transitionWaiting keeps the attempt in the slot.
LEMMA EnterWaitingStep ==
  ASSUME IInv, NEW c \in Actions, EnterWaiting(c)
  PROVE  IInv'
<1> USE DEF messageVars, requestVars, attemptVars, toolVars, waitVars,
            actionVars, adminVars, slotVars, queueVars, processVars,
            providerVars
<1>1. TypeOK'
  <2>1. /\ attState' \in [Attempts -> AttemptStates]
    BY StateValues DEF IInv, TypeOK, EnterWaiting, EventFrame,
       BumpStateVersion
  <2> QED BY <2>1 DEF IInv, TypeOK, EnterWaiting, EventFrame, BumpStateVersion
<1>2. RowInv'
  BY DEF IInv, TypeOK, RowInv, EnterWaiting, EventFrame, BumpStateVersion
<1>3. SlotInv'
  BY DEF IInv, TypeOK, SlotInv, EnterWaiting, EventFrame, BumpStateVersion,
     ActiveStates, Observing
<1>4. GateInv' /\ TurnInv' /\ LiveTurnOwnsSlot'
  BY DEF IInv, GateInv, TurnInv, LiveTurnOwnsSlot, EnterWaiting, EventFrame,
     BumpStateVersion
<1> QED BY <1>1, <1>2, <1>3, <1>4 DEF IInv

\* The terminal event frees the slot of a turn that ended.
LEMMA StreamTerminalStep ==
  ASSUME IInv, NEW c \in Actions, NEW outcome \in TerminalStates, NEW effect
         \in EffectStates, NEW class, StreamTerminal(c, outcome, effect,
         class)
  PROVE  IInv'
<1> USE DEF messageVars, requestVars, attemptVars, toolVars, waitVars,
            actionVars, adminVars, slotVars, queueVars, processVars,
            providerVars
<1> DEFINE a == actAtt[c]
<1>1. a \in Attempts /\ attState[a] # "absent" /\ active = a
  BY ObservedAttempt DEF StreamTerminal
<1>2. /\ ProjectTerminal(a, outcome, effect, class)
      /\ turn[a] = "ended"
      /\ pc' = [pc EXCEPT ![c] = Idle]
      /\ EndFrame /\ UNCHANGED reconciling
  BY DEF StreamTerminal
<1> HIDE DEF a
<1>3. /\ attState'    \in [Attempts -> AttemptStates]
      /\ attEffect'   \in [Attempts -> EffectStates]
      /\ attTerminal' \in [Attempts -> BOOLEAN]
      /\ reqStatus'   \in [Requests -> RequestStates]
      /\ readiness'   \in Readiness
      /\ occupancy'   \in {"idle", "active", "unknown"}
      /\ reasons'     \subseteq Reasons
      /\ cand'        \in Requests \cup {0, Stale}
      /\ active'      \in {0, a}
      /\ SlotInv'
      /\ \A b \in Attempts : attState'[b] = "absent" <=> attState[b] = "absent"
  BY <1>1, <1>2, TerminalKeepsSlotInv DEF IInv
<1>4. TypeOK'
  <2>1. pc' \in [Actions -> WorkerSteps]
    BY <1>2, StateValues DEF IInv, TypeOK
  <2> QED BY <1>1, <1>2, <1>3, <2>1 DEF IInv, TypeOK, EndFrame
<1>5. RowInv'
  BY <1>2, <1>3 DEF IInv, TypeOK, RowInv, EndFrame, Idle
<1>6. GateInv'
  BY <1>2 DEF IInv, TypeOK, GateInv, EndFrame, GateSteps, Idle
<1>7. TurnInv'
  BY <1>1, <1>2, <1>3 DEF IInv, TypeOK, RowInv, TurnInv, EndFrame, Idle
<1>8. LiveTurnOwnsSlot'
  BY <1>1, <1>2, <1>3 DEF IInv, LiveTurnOwnsSlot, EndFrame, LiveTurn
<1> QED BY <1>3, <1>4, <1>5, <1>6, <1>7, <1>8 DEF IInv

\* A stream without a terminal keeps the slot.
LEMMA StreamUnknownStep ==
  ASSUME IInv, NEW c \in Actions, NEW effect \in EffectStates,
         StreamUnknown(c, effect)
  PROVE  IInv'
<1> USE DEF messageVars, requestVars, attemptVars, toolVars, waitVars,
            actionVars, adminVars, slotVars, queueVars, processVars,
            providerVars
<1> DEFINE a == actAtt[c]
<1>1. /\ a \in Attempts /\ attState[a] # "absent"
      /\ active = a /\ active \in {0, a}
  BY ObservedAttempt DEF StreamUnknown
<1>2. /\ SetAttemptUnknown(a, effect, reqStatus)
      /\ BumpIfKnown(a)
      /\ pc' = [pc EXCEPT ![c] = Idle]
      /\ EndFrame /\ UNCHANGED <<attTerminal, reconciling>>
      /\ reqStatus \in [Requests -> RequestStates]
  BY DEF IInv, TypeOK, StreamUnknown
<1> HIDE DEF a
<1>3. /\ attState'  \in [Attempts -> AttemptStates]
      /\ attEffect' \in [Attempts -> EffectStates]
      /\ reqStatus' \in [Requests -> RequestStates]
      /\ readiness' \in Readiness
      /\ occupancy' \in {"idle", "active", "unknown"}
      /\ reasons'   \subseteq Reasons
      /\ active'    = active
      /\ SlotInv'
      /\ \A b \in Attempts : attState'[b] = "absent" <=> attState[b] = "absent"
  BY <1>1, <1>2, UnknownTakesSlot DEF IInv
<1>4. TypeOK'
  <2>1. pc' \in [Actions -> WorkerSteps]
    BY <1>2, StateValues DEF IInv, TypeOK
  <2>2. cand' \in Requests \cup {0, Stale}
    BY <1>2 DEF IInv, TypeOK, BumpIfKnown, BumpStateVersion
  <2> QED BY <1>1, <1>2, <1>3, <2>1, <2>2 DEF IInv, TypeOK, EndFrame
<1>5. RowInv'
  BY <1>2, <1>3 DEF IInv, TypeOK, RowInv, EndFrame, Idle
<1>6. GateInv'
  BY <1>2 DEF IInv, TypeOK, GateInv, EndFrame, GateSteps, Idle
<1>7. TurnInv' /\ LiveTurnOwnsSlot'
  BY <1>2, <1>3 DEF IInv, TypeOK, TurnInv, LiveTurnOwnsSlot, EndFrame, Idle
<1> QED BY <1>3, <1>4, <1>5, <1>6, <1>7 DEF IInv

\* ReconcileUnknown reads the fence.
LEMMA ReconcileBeginStep ==
  ASSUME IInv, NEW a \in Attempts, ReconcileBegin(a)
  PROVE  IInv'
<1> USE DEF messageVars, requestVars, attemptVars, toolVars, waitVars,
            actionVars, adminVars, slotVars, queueVars, processVars,
            providerVars
<1>1. TypeOK'
  BY DEF IInv, TypeOK, ReconcileBegin, DurableUnchanged
<1>2. RowInv' /\ SlotInv' /\ GateInv' /\ TurnInv' /\ LiveTurnOwnsSlot'
  BY DEF IInv, RowInv, SlotInv, GateInv, TurnInv, LiveTurnOwnsSlot,
     ReconcileBegin, DurableUnchanged
<1> QED BY <1>1, <1>2 DEF IInv

\* applyReconciledTerminal frees the slot of a turn the adapter proved over.
LEMMA ReconcileApplyStep ==
  ASSUME IInv, NEW outcome \in TerminalStates, NEW effect \in EffectStates,
         NEW class, ReconcileApply(outcome, effect, class)
  PROVE  IInv'
<1> USE DEF messageVars, requestVars, attemptVars, toolVars, waitVars,
            actionVars, adminVars, slotVars, queueVars, processVars,
            providerVars
<1> DEFINE a == reconciling
<1>1. a \in Attempts /\ attState[a] # "absent" /\ active = a
  BY DEF IInv, TypeOK, ReconcileApply
<1>2. /\ ProjectTerminal(a, outcome, effect, class)
      /\ turn[a] \in {"none", "ended"}
      /\ \A d \in Actions : actAtt[d] = a => pc[d] # "calling"
      /\ pc' = [d \in Actions |-> IF actAtt[d] = a /\ pc[d] = "streaming"
                                  THEN "closing" ELSE pc[d]]
      /\ EndFrame /\ reconciling' = 0
  BY DEF ReconcileApply, TurnOver, CancelStream
<1> HIDE DEF a
<1>3. /\ attState'    \in [Attempts -> AttemptStates]
      /\ attEffect'   \in [Attempts -> EffectStates]
      /\ attTerminal' \in [Attempts -> BOOLEAN]
      /\ reqStatus'   \in [Requests -> RequestStates]
      /\ readiness'   \in Readiness
      /\ occupancy'   \in {"idle", "active", "unknown"}
      /\ reasons'     \subseteq Reasons
      /\ cand'        \in Requests \cup {0, Stale}
      /\ active'      \in {0, a}
      /\ SlotInv'
      /\ \A b \in Attempts : attState'[b] = "absent" <=> attState[b] = "absent"
  BY <1>1, <1>2, TerminalKeepsSlotInv DEF IInv
<1>4. TypeOK'
  <2>1. pc' \in [Actions -> WorkerSteps]
    BY <1>2, StateValues DEF IInv, TypeOK
  <2> QED BY <1>1, <1>2, <1>3, <2>1 DEF IInv, TypeOK, EndFrame
<1>5. RowInv'
  BY <1>2, <1>3 DEF IInv, TypeOK, RowInv, EndFrame, Idle
<1>6. GateInv'
  BY <1>2 DEF IInv, TypeOK, GateInv, EndFrame, GateSteps, Idle
<1>7. TurnInv'
  BY <1>1, <1>2, <1>3 DEF IInv, TypeOK, RowInv, TurnInv, EndFrame, Idle
<1>8. LiveTurnOwnsSlot'
  BY <1>1, <1>2, <1>3 DEF IInv, LiveTurnOwnsSlot, EndFrame, LiveTurn
<1> QED BY <1>3, <1>4, <1>5, <1>6, <1>7, <1>8 DEF IInv

\* ReconcileUnknown changes nothing.
LEMMA ReconcileNoneStep ==
  ASSUME IInv, ReconcileNone
  PROVE  IInv'
<1> USE DEF messageVars, requestVars, attemptVars, toolVars, waitVars,
            actionVars, adminVars, slotVars, queueVars, processVars,
            providerVars
<1>1. TypeOK'
  BY DEF IInv, TypeOK, ReconcileNone, DurableUnchanged
<1>2. RowInv' /\ SlotInv' /\ GateInv' /\ TurnInv' /\ LiveTurnOwnsSlot'
  BY DEF IInv, RowInv, SlotInv, GateInv, TurnInv, LiveTurnOwnsSlot,
     ReconcileNone, DurableUnchanged
<1> QED BY <1>1, <1>2 DEF IInv

\* A turn that was asked for runs.
LEMMA ProviderStartsStep ==
  ASSUME IInv, NEW a \in Attempts, ProviderStarts(a)
  PROVE  IInv'
<1> USE DEF messageVars, requestVars, attemptVars, toolVars, waitVars,
            actionVars, adminVars, slotVars, queueVars, processVars,
            providerVars
<1>1. TypeOK'
  BY StateValues DEF IInv, TypeOK, ProviderStarts, DurableUnchanged
<1>2. TurnInv'
  BY DEF IInv, TypeOK, TurnInv, ProviderStarts, DurableUnchanged, RowInv,
     Idle, LiveTurn
<1>3. LiveTurnOwnsSlot'
  BY DEF IInv, TypeOK, LiveTurnOwnsSlot, ProviderStarts, DurableUnchanged,
     LiveTurn
<1>4. RowInv' /\ SlotInv' /\ GateInv'
  BY DEF IInv, RowInv, SlotInv, GateInv, ProviderStarts, DurableUnchanged
<1> QED BY <1>1, <1>2, <1>3, <1>4 DEF IInv

\* A turn that runs ends.
LEMMA ProviderEndsStep ==
  ASSUME IInv, NEW a \in Attempts, ProviderEnds(a)
  PROVE  IInv'
<1> USE DEF messageVars, requestVars, attemptVars, toolVars, waitVars,
            actionVars, adminVars, slotVars, queueVars, processVars,
            providerVars
<1>1. TypeOK'
  BY StateValues DEF IInv, TypeOK, ProviderEnds, DurableUnchanged
<1>2. TurnInv'
  BY DEF IInv, TypeOK, TurnInv, ProviderEnds, DurableUnchanged, RowInv, Idle,
     LiveTurn
<1>3. LiveTurnOwnsSlot'
  BY DEF IInv, TypeOK, LiveTurnOwnsSlot, ProviderEnds, DurableUnchanged,
     LiveTurn
<1>4. RowInv' /\ SlotInv' /\ GateInv'
  BY DEF IInv, RowInv, SlotInv, GateInv, ProviderEnds, DurableUnchanged
<1> QED BY <1>1, <1>2, <1>3, <1>4 DEF IInv

\* InstallHold changes only the holds.
LEMMA InstallHoldStep ==
  ASSUME IInv, NEW scope \in Dialogs \cup {NodeScope}, InstallHold(scope)
  PROVE  IInv'
<1> USE DEF messageVars, requestVars, attemptVars, toolVars, waitVars,
            actionVars, adminVars, slotVars, queueVars, processVars,
            providerVars
<1>1. TypeOK'
  BY DEF IInv, TypeOK, InstallHold, RowsUnchanged
<1>2. RowInv' /\ SlotInv' /\ GateInv' /\ TurnInv' /\ LiveTurnOwnsSlot'
  BY DEF IInv, RowInv, SlotInv, GateInv, TurnInv, LiveTurnOwnsSlot,
     InstallHold, RowsUnchanged
<1> QED BY <1>1, <1>2 DEF IInv

\* ReleaseHold changes only the holds.
LEMMA ReleaseHoldStep ==
  ASSUME IInv, NEW scope \in Dialogs \cup {NodeScope}, ReleaseHold(scope)
  PROVE  IInv'
<1> USE DEF messageVars, requestVars, attemptVars, toolVars, waitVars,
            actionVars, adminVars, slotVars, queueVars, processVars,
            providerVars
<1>1. TypeOK'
  BY DEF IInv, TypeOK, ReleaseHold, RowsUnchanged
<1>2. RowInv' /\ SlotInv' /\ GateInv' /\ TurnInv' /\ LiveTurnOwnsSlot'
  BY DEF IInv, RowInv, SlotInv, GateInv, TurnInv, LiveTurnOwnsSlot,
     ReleaseHold, RowsUnchanged
<1> QED BY <1>1, <1>2 DEF IInv

\* DeleteLogicalDialog changes only the holds and the tombstones.
LEMMA DeleteStep ==
  ASSUME IInv, NEW d \in Dialogs, DeleteLogicalDialog(d)
  PROVE  IInv'
<1> USE DEF messageVars, requestVars, attemptVars, toolVars, waitVars,
            actionVars, adminVars, slotVars, queueVars, processVars,
            providerVars
<1>1. TypeOK'
  BY DEF IInv, TypeOK, DeleteLogicalDialog, RowsUnchanged, BumpStateVersion
<1>2. RowInv' /\ SlotInv' /\ GateInv' /\ TurnInv' /\ LiveTurnOwnsSlot'
  BY DEF IInv, RowInv, SlotInv, GateInv, TurnInv, LiveTurnOwnsSlot,
     DeleteLogicalDialog, RowsUnchanged, BumpStateVersion
<1> QED BY <1>1, <1>2 DEF IInv

\* BeginSettingsChange closes admission.
LEMMA BeginSettingsStep ==
  ASSUME IInv, BeginSettings
  PROVE  IInv'
<1> USE DEF messageVars, requestVars, attemptVars, toolVars, waitVars,
            actionVars, adminVars, slotVars, queueVars, processVars,
            providerVars
<1>1. TypeOK'
  BY DEF IInv, TypeOK, BeginSettings, SettingsFrame, RowsUnchanged
<1>2. GateInv'
  BY DEF IInv, TypeOK, GateInv, BeginSettings, SettingsFrame, RowsUnchanged
<1>3. RowInv' /\ SlotInv' /\ TurnInv' /\ LiveTurnOwnsSlot'
  BY DEF IInv, RowInv, SlotInv, TurnInv, LiveTurnOwnsSlot, BeginSettings,
     SettingsFrame, RowsUnchanged
<1> QED BY <1>1, <1>2, <1>3 DEF IInv

\* BeginSettingsChange keeps startGate, which no dispatch holds.
LEMMA SettingsSwapStep ==
  ASSUME IInv, SettingsSwap
  PROVE  IInv'
<1> USE DEF messageVars, requestVars, attemptVars, toolVars, waitVars,
            actionVars, adminVars, slotVars, queueVars, processVars,
            providerVars
<1>1. TypeOK'
  BY DEF IInv, TypeOK, SettingsSwap, SettingsFrame, RowsUnchanged
<1>2. GateInv'
  BY ActionsPositive DEF IInv, TypeOK, GateInv, SettingsSwap, SettingsFrame,
     RowsUnchanged
<1>3. RowInv' /\ SlotInv' /\ TurnInv' /\ LiveTurnOwnsSlot'
  BY DEF IInv, RowInv, SlotInv, TurnInv, LiveTurnOwnsSlot, SettingsSwap,
     SettingsFrame, RowsUnchanged
<1> QED BY <1>1, <1>2, <1>3 DEF IInv

\* The release function frees startGate, which no dispatch holds.
LEMMA SettingsReleaseStep ==
  ASSUME IInv, SettingsRelease
  PROVE  IInv'
<1> USE DEF messageVars, requestVars, attemptVars, toolVars, waitVars,
            actionVars, adminVars, slotVars, queueVars, processVars,
            providerVars
<1>1. TypeOK'
  BY DEF IInv, TypeOK, SettingsRelease, SettingsFrame, RowsUnchanged
<1>2. GateInv'
  BY ActionsPositive DEF IInv, TypeOK, GateInv, SettingsRelease,
     SettingsFrame, RowsUnchanged
<1>3. RowInv' /\ SlotInv' /\ TurnInv' /\ LiveTurnOwnsSlot'
  BY DEF IInv, RowInv, SlotInv, TurnInv, LiveTurnOwnsSlot, SettingsRelease,
     SettingsFrame, RowsUnchanged
<1> QED BY <1>1, <1>2, <1>3 DEF IInv

\* SetSettingsReady changes one flag.
LEMMA SetSettingsReadyStep ==
  ASSUME IInv, NEW ready \in BOOLEAN, SetSettingsReady(ready)
  PROVE  IInv'
<1> USE DEF messageVars, requestVars, attemptVars, toolVars, waitVars,
            actionVars, adminVars, slotVars, queueVars, processVars,
            providerVars
<1>1. TypeOK'
  BY DEF IInv, TypeOK, SetSettingsReady, SettingsFrame, RowsUnchanged
<1>2. RowInv' /\ SlotInv' /\ GateInv' /\ TurnInv' /\ LiveTurnOwnsSlot'
  BY DEF IInv, RowInv, SlotInv, GateInv, TurnInv, LiveTurnOwnsSlot,
     SetSettingsReady, SettingsFrame, RowsUnchanged
<1> QED BY <1>1, <1>2 DEF IInv

\* ProviderAuthStart and ProviderAuthLogout change the login only.
LEMMA ProviderAuthStartStep ==
  ASSUME IInv, NEW to \in {"ready", "pending", "out"}, ProviderAuthStart(to)
  PROVE  IInv'
<1> USE DEF messageVars, requestVars, attemptVars, toolVars, waitVars,
            actionVars, adminVars, slotVars, queueVars, processVars,
            providerVars
<1>1. TypeOK'
  BY DEF IInv, TypeOK, ProviderAuthStart, AuthFrame, RowsUnchanged
<1>2. RowInv' /\ SlotInv' /\ GateInv' /\ TurnInv' /\ LiveTurnOwnsSlot'
  BY DEF IInv, RowInv, SlotInv, GateInv, TurnInv, LiveTurnOwnsSlot,
     ProviderAuthStart, AuthFrame, RowsUnchanged
<1> QED BY <1>1, <1>2 DEF IInv

\* ProviderAuthCheck changes the login only.
LEMMA ProviderAuthCheckStep ==
  ASSUME IInv, NEW to \in {"ready", "pending", "out"}, ProviderAuthCheck(to)
  PROVE  IInv'
<1> USE DEF messageVars, requestVars, attemptVars, toolVars, waitVars,
            actionVars, adminVars, slotVars, queueVars, processVars,
            providerVars
<1>1. TypeOK'
  BY DEF IInv, TypeOK, ProviderAuthCheck, AuthFrame, RowsUnchanged
<1>2. RowInv' /\ SlotInv' /\ GateInv' /\ TurnInv' /\ LiveTurnOwnsSlot'
  BY DEF IInv, RowInv, SlotInv, GateInv, TurnInv, LiveTurnOwnsSlot,
     ProviderAuthCheck, AuthFrame, RowsUnchanged
<1> QED BY <1>1, <1>2 DEF IInv

\* A pending login operation settles.
LEMMA ProviderAuthSettlesStep ==
  ASSUME IInv, NEW to \in {"ready", "pending", "out"},
         ProviderAuthSettles(to)
  PROVE  IInv'
<1> USE DEF messageVars, requestVars, attemptVars, toolVars, waitVars,
            actionVars, adminVars, slotVars, queueVars, processVars,
            providerVars
<1>1. TypeOK'
  BY DEF IInv, TypeOK, ProviderAuthSettles, AuthFrame, RowsUnchanged
<1>2. RowInv' /\ SlotInv' /\ GateInv' /\ TurnInv' /\ LiveTurnOwnsSlot'
  BY DEF IInv, RowInv, SlotInv, GateInv, TurnInv, LiveTurnOwnsSlot,
     ProviderAuthSettles, AuthFrame, RowsUnchanged
<1> QED BY <1>1, <1>2 DEF IInv

\* recoverStartup keeps the slot and forgets every goroutine.
LEMMA RestartStep ==
  ASSUME IInv, Restart
  PROVE  IInv'
<1> USE DEF messageVars, requestVars, attemptVars, toolVars, waitVars,
            actionVars, adminVars, slotVars, queueVars, processVars,
            providerVars
<1>1. /\ attState'  \in [Attempts -> AttemptStates]
      /\ attEffect' \in [Attempts -> EffectStates]
      /\ reqStatus' \in [Requests -> RequestStates]
      /\ readiness' \in Readiness
      /\ occupancy' \in {"idle", "active", "unknown"}
      /\ reasons'   \subseteq Reasons
      /\ active'    = active
      /\ SlotInv'
      /\ \A b \in Attempts : attState'[b] = "absent" <=> attState[b] = "absent"
  <2>1. CASE active # 0
    <3>1. /\ active \in Attempts /\ active \in {0, active}
          /\ reqStatus \in [Requests -> RequestStates]
          /\ "unknown" \in EffectStates
          /\ SetAttemptUnknown(active, "unknown", reqStatus)
      BY <2>1, StateValues DEF IInv, TypeOK, Restart, RecoverActive
    <3>2. attState[active] # "absent"
      BY <3>1 DEF IInv, SlotInv, ActiveStates
    <3> QED BY <3>1, <3>2, UnknownTakesSlot DEF IInv
  <2>2. CASE active = 0
    BY <2>2 DEF IInv, TypeOK, SlotInv, Restart, RecoverActive
  <2> QED BY <2>1, <2>2
<1>2. /\ actStatus' = [c \in Actions |->
                         IF actStatus[c] \in {"pending", "inflight"}
                         THEN "unknown" ELSE actStatus[c]]
      /\ pc' = [c \in Actions |-> Idle]
      /\ cand' = 0 /\ gate' = Free /\ barrier' = "open" /\ reconciling' = 0
      /\ settingsOk' = TRUE
      /\ auth' = IF auth = "pending" THEN "out" ELSE auth
      /\ UNCHANGED <<messageVars, reqMsg, attReq, attTerminal, toolVars, waitVars,
                     actKind, actAtt, actObj, adminVars, queueVars, providerVars>>
  BY DEF Restart
<1>3. TypeOK'
  <2>1. pc' \in [Actions -> WorkerSteps] /\ actStatus' \in [Actions -> ActionStates]
    BY <1>2, StateValues DEF IInv, TypeOK
  <2> QED BY <1>1, <1>2, <2>1 DEF IInv, TypeOK
<1>4. RowInv'
  BY <1>1, <1>2 DEF IInv, TypeOK, RowInv, Idle
<1>5. GateInv' /\ TurnInv'
  BY <1>2 DEF GateInv, TurnInv, GateSteps, Idle
<1>6. LiveTurnOwnsSlot'
  BY <1>1, <1>2 DEF IInv, LiveTurnOwnsSlot
<1> QED BY <1>1, <1>3, <1>4, <1>5, <1>6 DEF IInv

-----------------------------------------------------------------------------
\* An unused node satisfies the invariant.
LEMMA InitInv == InitStore => IInv
<1> SUFFICES ASSUME InitStore PROVE IInv
  OBVIOUS
<1>1. TypeOK
  <2>1. /\ "absent" \in Dispositions /\ "absent" \in RequestStates
        /\ "absent" \in AttemptStates /\ "none" \in EffectStates
        /\ "none" \in ToolStates /\ "absent" \in WaitStates
        /\ "absent" \in ActionKinds /\ "absent" \in ActionStates
        /\ {"ready", "blocked"} \subseteq Readiness
        /\ "policy_unavailable" \in Reasons
        /\ "none" \in TurnStates /\ Idle \in WorkerSteps
    BY DEF Dispositions, RequestStates, AttemptStates, EffectStates, ToolStates,
       WaitStates, ActionKinds, ActionStates, Readiness, Reasons, TurnStates,
       WorkerSteps
  <2>2. /\ msgDialog \in [Messages -> Dialogs \cup {NoDialog}]
        /\ msgDisp \in [Messages -> Dispositions]
        /\ reqMsg \in [Requests -> Messages \cup {0}]
        /\ reqStatus \in [Requests -> RequestStates]
        /\ waitAtt \in [Waits -> Attempts \cup {0}]
        /\ waitStatus \in [Waits -> WaitStates]
    BY <2>1 DEF InitStore
  <2>3. /\ attReq \in [Attempts -> Requests \cup {0}]
        /\ attState \in [Attempts -> AttemptStates]
        /\ attEffect \in [Attempts -> EffectStates]
        /\ attTerminal \in [Attempts -> BOOLEAN]
        /\ attTool \in [Attempts -> ToolStates]
        /\ attOver \in [Attempts -> BOOLEAN]
        /\ turn \in [Attempts -> TurnStates]
    BY <2>1 DEF InitStore
  <2>4. /\ actKind \in [Actions -> ActionKinds]
        /\ actAtt \in [Actions -> Attempts \cup {0}]
        /\ actObj \in [Actions -> Messages \cup Waits \cup {0}]
        /\ actStatus \in [Actions -> ActionStates]
        /\ pc \in [Actions -> WorkerSteps]
    BY <2>1 DEF InitStore
  <2>5. readiness \in Readiness /\ reasons \subseteq Reasons
    BY <2>1 DEF InitStore
  <2>6. /\ holds = {} /\ deleted = {} /\ delivered = {}
        /\ paused = FALSE /\ active = 0 /\ occupancy = "idle" /\ pending = 0
        /\ cand = 0 /\ gate = Free /\ barrier = "open" /\ reconciling = 0
        /\ settingsOk = TRUE /\ auth = "ready"
    BY DEF InitStore
  <2>7. paused \in BOOLEAN /\ settingsOk \in BOOLEAN
    BY <2>6
  <2>8. /\ holds \subseteq Dialogs \cup {NodeScope} /\ deleted \subseteq Dialogs
        /\ delivered \subseteq Messages
        /\ active \in Attempts \cup {0} /\ reconciling \in Attempts \cup {0}
        /\ occupancy \in {"idle", "active", "unknown"} /\ pending \in Int
        /\ cand \in Requests \cup {0, Stale}
        /\ gate \in Actions \cup {Free, Settings}
        /\ barrier \in {"open", "waiting", "swapping"}
        /\ auth \in {"ready", "pending", "out"}
    BY <2>6
  <2> QED BY <2>2, <2>3, <2>4, <2>5, <2>7, <2>8 DEF TypeOK
<1>2. RowInv
  BY DEF InitStore, RowInv
<1>3. SlotInv
  BY AttemptsPositive DEF InitStore, SlotInv, ActiveStates
<1>4. GateInv /\ TurnInv
  BY DEF InitStore, GateInv, TurnInv, GateSteps, Idle
<1>5. LiveTurnOwnsSlot
  BY DEF InitStore, LiveTurnOwnsSlot, LiveTurn
<1> QED BY <1>1, <1>2, <1>3, <1>4, <1>5 DEF IInv

\* A step that changes nothing keeps the invariant.
LEMMA StutterStep ==
  ASSUME IInv, UNCHANGED vars
  PROVE  IInv'
BY DEF IInv, TypeOK, RowInv, SlotInv, GateInv, TurnInv, LiveTurnOwnsSlot, vars

\* Every step of the node keeps the invariant.
LEMMA NextInv == IInv /\ [Next]_vars => IInv'
<1> SUFFICES ASSUME IInv, [Next]_vars PROVE IInv'
  OBVIOUS
<1>1. CASE CommandStep
  BY <1>1, DialogCreateStep, MessageEnqueueStep, RequestCancelStep,
     QueueResumeStep, AttemptStopStep, AttemptRetryStep, MessageSteerStep,
     RespondStep DEF CommandStep
<1>2. CASE LoopStep
  BY <1>2, PeekDispatchStep, BlockPolicyStep, CommitDispatchStep,
     DropCandidateStep DEF LoopStep
<1>3. ASSUME NEW c \in Actions, ClaimAction(c) PROVE IInv'
  BY <1>3, ClaimActionStep
<1>4. ASSUME NEW c \in Actions, WorkerStep(c) PROVE IInv'
  BY <1>4, RequeueDispatchStep, EnterDispatchStep, IssueTurnStep,
     StartReturnsStep, MarkStartedStep, MarkUnknownStep, RejectStartStep,
     CancelReturnsStep, SteerReturnsStep, RespondReturnsStep, FinishSteerStep,
     FinishResponseStep, TransactionLostStep, FinishActionStep DEF WorkerStep
<1>5. ASSUME NEW c \in Actions, StreamEnds(c) PROVE IInv'
  BY <1>5, RegisterStreamStep, StreamClosedStep, StreamTerminalStep,
     StreamUnknownStep DEF StreamEnds
<1>6. ASSUME NEW c \in Actions, StreamEvent(c) PROVE IInv'
  <2>1. ASSUME NEW w \in Waits, NEW over \in OutputMayExceed,
               WaitRequested(c, w, over)
        PROVE  IInv'
    <3>1. over = TRUE \/ over = FALSE
      BY ObserveAssumption
    <3> QED BY <2>1, <3>1, WaitRequestedOverStep, WaitRequestedStep
  <2> QED BY <1>6, <2>1, ToolStartedStep, ToolCompletedStep, OutputLimitStep,
      EnterWaitingStep DEF StreamEvent
<1>7. CASE ReconcileStep
  <2>1. \A effect \in {"none", "known"} : effect \in EffectStates
    BY DEF EffectStates
  <2> QED BY <1>7, <2>1, ReconcileBeginStep, ReconcileApplyStep,
      ReconcileNoneStep DEF ReconcileStep
<1>8. CASE ProviderStep
  BY <1>8, ProviderStartsStep, ProviderEndsStep DEF ProviderStep
<1>9. CASE BarrierStep
  BY <1>9, InstallHoldStep, ReleaseHoldStep, DeleteStep, BeginSettingsStep,
     SettingsSwapStep, SettingsReleaseStep, SetSettingsReadyStep,
     ProviderAuthStartStep, ProviderAuthCheckStep, ProviderAuthSettlesStep
  DEF BarrierStep
<1>10. CASE Restart
  BY <1>10, RestartStep
<1>11. CASE UNCHANGED vars
  BY <1>11, StutterStep
<1> QED BY <1>1, <1>2, <1>3, <1>4, <1>5, <1>6, <1>7, <1>8, <1>9, <1>10, <1>11
    DEF Next

\* The invariant holds in every reachable state of a node, for every number of
\* dialogs, rows and lanes and every set of operations.
THEOREM Invariance == Spec => []IInv
BY InitInv, NextInv, PTL DEF Spec

\* Every row and process variable keeps its type (the columns of
\* runtime/schema.go and the states of the executor's goroutines).
THEOREM TypeCorrect == Spec => []TypeOK
<1>1. IInv => TypeOK
  BY DEF IInv
<1> QED BY <1>1, Invariance, PTL

\* A native turn that is asked for or running belongs to the attempt in
\* node_state.active_attempt_id.
THEOREM TurnExclusion == Spec => []LiveTurnOwnsSlot
<1>1. IInv => LiveTurnOwnsSlot
  BY DEF IInv
<1> QED BY <1>1, Invariance, PTL

\* Hence the provider never has two turns of the node alive at once.
THEOREM OneLiveTurn ==
  Spec => [](\A a, b \in Attempts : turn[a] \in LiveTurn /\ turn[b] \in LiveTurn
                                    => a = b)
<1>1. LiveTurnOwnsSlot
        => \A a, b \in Attempts : turn[a] \in LiveTurn /\ turn[b] \in LiveTurn
                                  => a = b
  BY DEF LiveTurnOwnsSlot
<1> QED BY <1>1, TurnExclusion, PTL

-----------------------------------------------------------------------------
\* The rows of the store.

USE DEF messageVars, requestVars, attemptVars, toolVars, waitVars, actionVars,
        adminVars, slotVars, queueVars, processVars, providerVars

-----------------------------------------------------------------------------
\* Rows are only added.

\* What no transaction does: remove a row, or change what it refers to.
RowsKept ==
  /\ \A m \in Messages : msgDisp[m] # "absent" =>
       msgDisp'[m] # "absent" /\ msgDialog'[m] = msgDialog[m]
  /\ \A r \in Requests : reqStatus[r] # "absent" =>
       reqStatus'[r] # "absent" /\ reqMsg'[r] = reqMsg[r]
  /\ \A a \in Attempts : attState[a] # "absent" =>
       attState'[a] # "absent" /\ attReq'[a] = attReq[a]
  /\ \A c \in Actions : actStatus[c] # "absent" =>
       /\ actStatus'[c] # "absent"
       /\ actKind'[c] = actKind[c] /\ actAtt'[c] = actAtt[c]
       /\ actObj'[c] = actObj[c]

\* Every transaction keeps the rows it finds.
LEMMA RowsAreKept ==
  ASSUME IInv, [Next]_vars
  PROVE  RowsKept
<1>1. ASSUME NEW d \in Dialogs, NEW m \in Messages, NEW r \in Requests,
             MessageEnqueue(d, m, r)
      PROVE  RowsKept
  BY <1>1 DEF IInv, TypeOK, RowsKept, MessageEnqueue, NextMessage, NextRequest
<1>2. ASSUME NEW r \in Requests, NEW low, RequestCancel(r, low)
      PROVE  RowsKept
  BY <1>2 DEF IInv, TypeOK, RowsKept, RequestCancel, ControlState
<1>3. ASSUME NEW a \in Attempts, NEW c \in Actions, NEW low,
             AttemptStop(a, c, low)
      PROVE  RowsKept
  BY <1>3 DEF IInv, TypeOK, RowsKept, AttemptStop, ControlState, InsertAction,
     NextAction
<1>4. ASSUME NEW a \in Attempts, NEW ack, NEW r \in Requests,
             AttemptRetry(a, ack, r)
      PROVE  RowsKept
  BY <1>4 DEF IInv, TypeOK, RowsKept, AttemptRetry, NextRequest, Retryable,
     MessageOfAttempt
<1>5. ASSUME NEW m \in Messages, NEW a \in Attempts, NEW c \in Actions,
             NEW low, MessageSteer(m, a, c, low)
      PROVE  RowsKept
  BY <1>5 DEF IInv, TypeOK, RowsKept, MessageSteer, ControlState,
     InsertAction, NextAction
<1>6. ASSUME NEW w \in Waits, NEW c \in Actions, NEW low, Respond(w, c, low)
      PROVE  RowsKept
  BY <1>6 DEF IInv, TypeOK, RowsKept, Respond, ControlState, InsertAction,
     NextAction
<1>7. ASSUME NEW r \in Requests, NEW a \in Attempts, NEW c \in Actions,
             CommitDispatch(r, a, c)
      PROVE  RowsKept
  BY <1>7 DEF IInv, TypeOK, RowsKept, CommitDispatch, InsertAction,
     NextAction, CandidateCurrent, QueueHead, Unheld, Queued, NextAttempt
<1>8. ASSUME NEW c \in Actions, ClaimAction(c)
      PROVE  RowsKept
  BY <1>8 DEF IInv, TypeOK, RowsKept, ClaimAction, Claimable, LaneActions
<1>9. ASSUME NEW c \in Actions, RequeueDispatch(c)
      PROVE  RowsKept
  BY <1>9 DEF IInv, TypeOK, RowsKept, RequeueDispatch
<1>10. ASSUME NEW c \in Actions, MarkStarted(c)
      PROVE  RowsKept
  BY <1>10 DEF IInv, TypeOK, RowsKept, MarkStarted
<1>11. ASSUME NEW c \in Actions, MarkUnknown(c)
      PROVE  RowsKept
  BY <1>11 DEF IInv, TypeOK, RowsKept, MarkUnknown, SetAttemptUnknown,
     OwnsSlot
<1>12. ASSUME NEW c \in Actions, RejectStart(c)
      PROVE  RowsKept
  BY <1>12 DEF IInv, TypeOK, RowsKept, RejectStart, OwnsSlot
<1>13. ASSUME NEW c \in Actions, FinishSteer(c)
      PROVE  RowsKept
  BY <1>13 DEF IInv, TypeOK, RowsKept, FinishSteer, SetAttemptUnknown,
     FinishStep, Outcomes, OriginalRequest, SteerOutstanding
<1>14. ASSUME NEW c \in Actions, FinishResponse(c)
      PROVE  RowsKept
  BY <1>14 DEF IInv, TypeOK, RowsKept, FinishResponse, SetAttemptUnknown,
     FinishStep, Outcomes
<1>15. ASSUME NEW c \in Actions, FinishAction(c)
      PROVE  RowsKept
  BY <1>15 DEF IInv, TypeOK, RowsKept, FinishAction
<1>16. ASSUME NEW c \in Actions, NEW outcome \in TerminalStates,
             NEW effect \in EffectStates, NEW class,
             StreamTerminal(c, outcome, effect, class)
      PROVE  RowsKept
  BY <1>16 DEF IInv, TypeOK, RowsKept, StreamTerminal, EndFrame,
     ProjectTerminal, SetAttemptUnknown, TerminalStates, Observing
<1>17. ASSUME NEW c \in Actions, NEW effect \in EffectStates,
             StreamUnknown(c, effect)
      PROVE  RowsKept
  BY <1>17 DEF IInv, TypeOK, RowsKept, StreamUnknown, EndFrame,
     SetAttemptUnknown, Observing
<1>18. ASSUME NEW c \in Actions, NEW over, ToolStarted(c, over)
      PROVE  RowsKept
  BY <1>18 DEF IInv, TypeOK, RowsKept, ToolStarted, EventFrame, ChargeOutput,
     InBudget, Observing, InsertAction, NextAction
<1>19. ASSUME NEW c \in Actions, NEW over, NEW end,
             ToolCompleted(c, over, end)
      PROVE  RowsKept
  BY <1>19 DEF IInv, TypeOK, RowsKept, ToolCompleted, EventFrame,
     ChargeOutput, InBudget, Observing, InsertAction, NextAction
<1>20. ASSUME NEW c \in Actions, OutputLimit(c)
      PROVE  RowsKept
  BY <1>20 DEF IInv, TypeOK, RowsKept, OutputLimit, EventFrame, ChargeOutput,
     InBudget, Observing, InsertAction, NextAction
<1>21. ASSUME NEW c \in Actions, EnterWaiting(c)
      PROVE  RowsKept
  BY <1>21 DEF IInv, TypeOK, RowsKept, EnterWaiting, EventFrame, Observing
<1>22. ASSUME NEW c \in Actions, NEW w \in Waits, NEW over,
             WaitRequested(c, w, over)
      PROVE  RowsKept
  BY <1>22 DEF IInv, TypeOK, RowsKept, WaitRequested, EventFrame,
     ChargeOutput, InBudget, Observing, InsertAction, NextAction, NextWait
<1>23. ASSUME NEW outcome \in TerminalStates, NEW effect \in EffectStates,
             NEW class, ReconcileApply(outcome, effect, class)
      PROVE  RowsKept
  BY <1>23 DEF IInv, TypeOK, RowsKept, ReconcileApply, EndFrame,
     ProjectTerminal, SetAttemptUnknown, TerminalStates, CancelStream
<1>24. CASE Restart
  BY <1>24 DEF IInv, TypeOK, RowsKept, Restart, RecoverActive,
     SetAttemptUnknown
<1>25. CASE UNCHANGED <<msgDisp, msgDialog, reqStatus, reqMsg,
                       attState, attReq, actionVars>>
  BY <1>25 DEF RowsKept
<1>26. CASE CommandStep
  BY <1>26, <1>1, <1>2, <1>3, <1>4, <1>5, <1>6, <1>25 DEF CommandStep,
     DialogCreate, QueueResume
<1>27. CASE LoopStep
  BY <1>27, <1>7, <1>25 DEF LoopStep, PeekDispatch, BlockPolicy, DropCandidate
<1>28. ASSUME NEW c \in Actions, WorkerStep(c) PROVE RowsKept
  BY <1>28, <1>9, <1>10, <1>11, <1>12, <1>13, <1>14, <1>15, <1>25 DEF
     WorkerStep, EnterDispatch, IssueTurn, StartReturns, CancelReturns,
     SteerReturns, RespondReturns, TransactionLost, DurableUnchanged
<1>29. ASSUME NEW c \in Actions, StreamEnds(c) PROVE RowsKept
  BY <1>29, <1>16, <1>17, <1>25 DEF StreamEnds, RegisterStream, StreamClosed,
     DurableUnchanged
<1>30. ASSUME NEW c \in Actions, StreamEvent(c) PROVE RowsKept
  BY <1>30, <1>18, <1>19, <1>20, <1>21, <1>22 DEF StreamEvent
<1>31. CASE ReconcileStep
  BY <1>31, StateValues, <1>23, <1>25 DEF ReconcileStep, ReconcileBegin,
     ReconcileNone, DurableUnchanged
<1>32. CASE ProviderStep
  BY <1>32, <1>25 DEF ProviderStep, ProviderStarts, ProviderEnds,
     DurableUnchanged
<1>33. CASE BarrierStep
  BY <1>33, <1>25 DEF BarrierStep, InstallHold, ReleaseHold,
     DeleteLogicalDialog, BeginSettings, SettingsSwap, SettingsRelease,
     SetSettingsReady, ProviderAuthStart, ProviderAuthCheck,
     ProviderAuthSettles, RowsUnchanged, SettingsFrame, AuthFrame
<1>34. CASE UNCHANGED vars
  BY <1>34, <1>25 DEF vars
<1> QED BY <1>26, <1>27, <1>8, <1>28, <1>29, <1>30, <1>31, <1>32, <1>33,
   <1>24, <1>34 DEF Next

-----------------------------------------------------------------------------
\* References between rows.

\* The action a goroutine performs belongs to an attempt of a request.
LEMMA PerformedAttempt ==
  ASSUME IInv, NEW c \in Actions, pc[c] # Idle
  PROVE  /\ actAtt[c] \in Attempts /\ attState[actAtt[c]] # "absent"
         /\ attReq[actAtt[c]] \in Requests
BY DEF IInv, RowInv

\* A request row names a message that exists, and the request of an attempt has
\* left the queue.
RefInv ==
  /\ \A r \in Requests : reqStatus[r] = "absent" <=> reqMsg[r] = 0
  /\ \A r \in Requests : reqMsg[r] # 0 => msgDisp[reqMsg[r]] # "absent"
  /\ \A a \in Attempts : attState[a] # "absent" =>
       reqStatus[attReq[a]] \notin {"absent", "queued"}

\* There is no row to refer to at first.
LEMMA RefInit == InitStore => RefInv
BY DEF InitStore, RefInv

\* 0 is no message: it marks a request row that does not exist yet.
LEMMA MessagesPositive == 0 \notin Messages
BY BoundsAssumption DEF Messages

\* Every transaction refers to rows that exist.
LEMMA RefNext ==
  ASSUME IInv, RefInv, [Next]_vars
  PROVE  RefInv'
<1>1. ASSUME NEW d \in Dialogs, NEW m \in Messages, NEW r \in Requests,
             MessageEnqueue(d, m, r)
      PROVE  RefInv'
  BY <1>1, MessagesPositive DEF IInv, TypeOK, RowInv, RefInv, MessageEnqueue,
     NextMessage, NextRequest
<1>2. ASSUME NEW r \in Requests, NEW low, RequestCancel(r, low)
      PROVE  RefInv'
  BY <1>2, MessagesPositive DEF IInv, TypeOK, RowInv, RefInv, RequestCancel,
     ControlState
<1>3. ASSUME NEW a \in Attempts, NEW c \in Actions, NEW low,
             AttemptStop(a, c, low)
      PROVE  RefInv'
  BY <1>3, MessagesPositive DEF IInv, TypeOK, RowInv, RefInv, AttemptStop,
     ControlState, InsertAction, NextAction
<1>4. ASSUME NEW a \in Attempts, NEW ack, NEW r \in Requests,
             AttemptRetry(a, ack, r)
      PROVE  RefInv'
  BY <1>4, MessagesPositive DEF IInv, TypeOK, RowInv, RefInv, AttemptRetry,
     NextRequest, Retryable, MessageOfAttempt
<1>5. ASSUME NEW m \in Messages, NEW a \in Attempts, NEW c \in Actions,
             NEW low, MessageSteer(m, a, c, low)
      PROVE  RefInv'
  BY <1>5, MessagesPositive DEF IInv, TypeOK, RowInv, RefInv, MessageSteer,
     ControlState, InsertAction, NextAction
<1>6. ASSUME NEW r \in Requests, NEW a \in Attempts, NEW c \in Actions,
             CommitDispatch(r, a, c)
      PROVE  RefInv'
  BY <1>6, MessagesPositive DEF IInv, TypeOK, RowInv, RefInv, CommitDispatch,
     InsertAction, NextAction, CandidateCurrent, QueueHead, Unheld, Queued,
     NextAttempt
<1>7. ASSUME NEW c \in Actions, MarkStarted(c)
      PROVE  RefInv'
  <2>1. /\ actAtt[c] \in Attempts /\ attState[actAtt[c]] # "absent"
        /\ attReq[actAtt[c]] \in Requests
    BY <1>7, PerformedAttempt DEF MarkStarted, Idle
  <2> QED BY <1>7, <2>1, MessagesPositive DEF IInv, TypeOK, RowInv, RefInv,
     MarkStarted
<1>8. ASSUME NEW c \in Actions, MarkUnknown(c)
      PROVE  RefInv'
  <2>1. /\ actAtt[c] \in Attempts /\ attState[actAtt[c]] # "absent"
        /\ attReq[actAtt[c]] \in Requests
    BY <1>8, PerformedAttempt DEF MarkUnknown, Idle
  <2> QED BY <1>8, <2>1, MessagesPositive DEF IInv, TypeOK, RowInv, RefInv,
     MarkUnknown, SetAttemptUnknown, OwnsSlot
<1>9. ASSUME NEW c \in Actions, RejectStart(c)
      PROVE  RefInv'
  <2>1. /\ actAtt[c] \in Attempts /\ attState[actAtt[c]] # "absent"
        /\ attReq[actAtt[c]] \in Requests
    BY <1>9, PerformedAttempt DEF RejectStart, Idle
  <2> QED BY <1>9, <2>1, MessagesPositive DEF IInv, TypeOK, RowInv, RefInv,
     RejectStart, OwnsSlot
<1>10. ASSUME NEW c \in Actions, FinishSteer(c)
      PROVE  RefInv'
  <2>1. /\ actAtt[c] \in Attempts /\ attState[actAtt[c]] # "absent"
        /\ attReq[actAtt[c]] \in Requests
    BY <1>10, PerformedAttempt DEF FinishSteer, Outcomes, Idle
  <2> QED BY <1>10, <2>1, MessagesPositive DEF IInv, TypeOK, RowInv, RefInv,
     FinishSteer, SetAttemptUnknown, FinishStep, Outcomes, OriginalRequest,
     SteerOutstanding
<1>11. ASSUME NEW c \in Actions, FinishResponse(c)
      PROVE  RefInv'
  <2>1. /\ actAtt[c] \in Attempts /\ attState[actAtt[c]] # "absent"
        /\ attReq[actAtt[c]] \in Requests
    BY <1>11, PerformedAttempt DEF FinishResponse, Outcomes, Idle
  <2> QED BY <1>11, <2>1, MessagesPositive DEF IInv, TypeOK, RowInv, RefInv,
     FinishResponse, SetAttemptUnknown, FinishStep, Outcomes
<1>12. ASSUME NEW c \in Actions, NEW outcome \in TerminalStates,
             NEW effect \in EffectStates, NEW class,
             StreamTerminal(c, outcome, effect, class)
      PROVE  RefInv'
  <2>1. /\ actAtt[c] \in Attempts /\ attState[actAtt[c]] # "absent"
        /\ attReq[actAtt[c]] \in Requests
    BY <1>12, PerformedAttempt DEF StreamTerminal, Observing, Idle
  <2> QED BY <1>12, <2>1, MessagesPositive DEF IInv, TypeOK, RowInv, RefInv,
     StreamTerminal, EndFrame, ProjectTerminal, SetAttemptUnknown,
     TerminalStates, Observing
<1>13. ASSUME NEW c \in Actions, NEW effect \in EffectStates,
             StreamUnknown(c, effect)
      PROVE  RefInv'
  <2>1. /\ actAtt[c] \in Attempts /\ attState[actAtt[c]] # "absent"
        /\ attReq[actAtt[c]] \in Requests
    BY <1>13, PerformedAttempt DEF StreamUnknown, Observing, Idle
  <2> QED BY <1>13, <2>1, MessagesPositive DEF IInv, TypeOK, RowInv, RefInv,
     StreamUnknown, EndFrame, SetAttemptUnknown, Observing
<1>14. ASSUME NEW c \in Actions, NEW over, ToolStarted(c, over)
      PROVE  RefInv'
  <2>1. /\ actAtt[c] \in Attempts /\ attState[actAtt[c]] # "absent"
        /\ attReq[actAtt[c]] \in Requests
    BY <1>14, PerformedAttempt DEF ToolStarted, InBudget, Observing, Idle
  <2> QED BY <1>14, <2>1, MessagesPositive DEF IInv, TypeOK, RowInv, RefInv,
     ToolStarted, EventFrame, ChargeOutput, InBudget, Observing, InsertAction,
     NextAction
<1>15. ASSUME NEW c \in Actions, NEW over, NEW end,
             ToolCompleted(c, over, end)
      PROVE  RefInv'
  <2>1. /\ actAtt[c] \in Attempts /\ attState[actAtt[c]] # "absent"
        /\ attReq[actAtt[c]] \in Requests
    BY <1>15, PerformedAttempt DEF ToolCompleted, InBudget, Observing, Idle
  <2> QED BY <1>15, <2>1, MessagesPositive DEF IInv, TypeOK, RowInv, RefInv,
     ToolCompleted, EventFrame, ChargeOutput, InBudget, Observing,
     InsertAction, NextAction
<1>16. ASSUME NEW c \in Actions, OutputLimit(c)
      PROVE  RefInv'
  <2>1. /\ actAtt[c] \in Attempts /\ attState[actAtt[c]] # "absent"
        /\ attReq[actAtt[c]] \in Requests
    BY <1>16, PerformedAttempt DEF OutputLimit, InBudget, Observing, Idle
  <2> QED BY <1>16, <2>1, MessagesPositive DEF IInv, TypeOK, RowInv, RefInv,
     OutputLimit, EventFrame, ChargeOutput, InBudget, Observing, InsertAction,
     NextAction
<1>17. ASSUME NEW c \in Actions, EnterWaiting(c)
      PROVE  RefInv'
  <2>1. /\ actAtt[c] \in Attempts /\ attState[actAtt[c]] # "absent"
        /\ attReq[actAtt[c]] \in Requests
    BY <1>17, PerformedAttempt DEF EnterWaiting, Observing, Idle
  <2> QED BY <1>17, <2>1, MessagesPositive DEF IInv, TypeOK, RowInv, RefInv,
     EnterWaiting, EventFrame, Observing
<1>18. ASSUME NEW c \in Actions, NEW w \in Waits, NEW over,
             WaitRequested(c, w, over)
      PROVE  RefInv'
  <2>1. /\ actAtt[c] \in Attempts /\ attState[actAtt[c]] # "absent"
        /\ attReq[actAtt[c]] \in Requests
    BY <1>18, PerformedAttempt DEF WaitRequested, InBudget, Observing, Idle
  <2> QED BY <1>18, <2>1, MessagesPositive DEF IInv, TypeOK, RowInv, RefInv,
     WaitRequested, EventFrame, ChargeOutput, InBudget, Observing,
     InsertAction, NextAction, NextWait
<1>19. ASSUME NEW outcome \in TerminalStates, NEW effect \in EffectStates,
             NEW class, ReconcileApply(outcome, effect, class)
      PROVE  RefInv'
  <2>1. /\ reconciling \in Attempts /\ attState[reconciling] # "absent"
        /\ attReq[reconciling] \in Requests
    BY <1>19 DEF IInv, TypeOK, RowInv, ReconcileApply
  <2> QED BY <1>19, <2>1, MessagesPositive DEF IInv, TypeOK, RowInv, RefInv,
     ReconcileApply, EndFrame, ProjectTerminal, SetAttemptUnknown,
     TerminalStates, CancelStream
<1>20. CASE Restart
  <2>1. active # 0 => /\ active \in Attempts /\ attState[active] # "absent"
                      /\ attReq[active] \in Requests
    BY DEF IInv, TypeOK, RowInv, SlotInv, ActiveStates
  <2> QED BY <1>20, <2>1, MessagesPositive DEF IInv, TypeOK, RowInv, RefInv,
     Restart, RecoverActive, SetAttemptUnknown
<1>21. CASE UNCHANGED <<msgDisp, reqStatus, reqMsg, attState, attReq>>
  BY <1>21 DEF RefInv
<1>22. CASE CommandStep
  BY <1>22, <1>1, <1>2, <1>3, <1>4, <1>5, <1>21 DEF CommandStep, DialogCreate,
     QueueResume, Respond
<1>23. CASE LoopStep
  BY <1>23, <1>6, <1>21 DEF LoopStep, PeekDispatch, BlockPolicy, DropCandidate
<1>24. ASSUME NEW c \in Actions, ClaimAction(c) PROVE RefInv'
  BY <1>24, <1>21 DEF ClaimAction
<1>25. ASSUME NEW c \in Actions, WorkerStep(c) PROVE RefInv'
  BY <1>25, <1>7, <1>8, <1>9, <1>10, <1>11, <1>21 DEF WorkerStep,
     RequeueDispatch, EnterDispatch, IssueTurn, StartReturns, CancelReturns,
     SteerReturns, RespondReturns, TransactionLost, FinishAction,
     DurableUnchanged
<1>26. ASSUME NEW c \in Actions, StreamEnds(c) PROVE RefInv'
  BY <1>26, <1>12, <1>13, <1>21 DEF StreamEnds, RegisterStream, StreamClosed,
     DurableUnchanged
<1>27. ASSUME NEW c \in Actions, StreamEvent(c) PROVE RefInv'
  BY <1>27, <1>14, <1>15, <1>16, <1>17, <1>18 DEF StreamEvent
<1>28. CASE ReconcileStep
  BY <1>28, StateValues, <1>19, <1>21 DEF ReconcileStep, ReconcileBegin,
     ReconcileNone, DurableUnchanged
<1>29. CASE ProviderStep
  BY <1>29, <1>21 DEF ProviderStep, ProviderStarts, ProviderEnds,
     DurableUnchanged
<1>30. CASE BarrierStep
  BY <1>30, <1>21 DEF BarrierStep, InstallHold, ReleaseHold,
     DeleteLogicalDialog, BeginSettings, SettingsSwap, SettingsRelease,
     SetSettingsReady, ProviderAuthStart, ProviderAuthCheck,
     ProviderAuthSettles, RowsUnchanged, SettingsFrame, AuthFrame
<1>31. CASE UNCHANGED vars
  BY <1>31, <1>21 DEF vars
<1> QED BY <1>22, <1>23, <1>24, <1>25, <1>26, <1>27, <1>28, <1>29, <1>30,
   <1>20, <1>31 DEF Next

-----------------------------------------------------------------------------
\* The life of a control action.

\* The steps of the goroutine that reads the attempt's events.
ReadSteps == {"opening", "streaming", "closing"}

\* A pending action is with no goroutine, one that is being performed is
\* inflight, and only a dispatch goes on to read events.
ActInv ==
  /\ \A c \in Actions : actKind[c] = "absent" <=> actStatus[c] = "absent"
  /\ \A c \in Actions : actStatus[c] = "pending" => pc[c] = Idle
  /\ \A c \in Actions : pc[c] \notin ReadSteps \cup {Idle}
                        => actStatus[c] = "inflight"
  /\ \A c \in Actions : pc[c] \in ReadSteps => actKind[c] = "dispatch.start"

\* No action exists at first.
LEMMA ActInit == InitStore => ActInv
BY DEF InitStore, ActInv, ReadSteps, Idle

\* Every step moves an action along its life.
LEMMA ActNext ==
  ASSUME IInv, ActInv, [Next]_vars
  PROVE  ActInv'
<1>1. ASSUME NEW a \in Attempts, NEW c \in Actions, NEW low,
             AttemptStop(a, c, low)
      PROVE  ActInv'
  BY <1>1 DEF IInv, TypeOK, ActInv, AttemptStop, ControlState, InsertAction,
     NextAction, RowInv, ReadSteps, Idle
<1>2. ASSUME NEW m \in Messages, NEW a \in Attempts, NEW c \in Actions,
             NEW low, MessageSteer(m, a, c, low)
      PROVE  ActInv'
  BY <1>2 DEF IInv, TypeOK, ActInv, MessageSteer, ControlState, InsertAction,
     NextAction, RowInv, ReadSteps, Idle
<1>3. ASSUME NEW w \in Waits, NEW c \in Actions, NEW low, Respond(w, c, low)
      PROVE  ActInv'
  BY <1>3 DEF IInv, TypeOK, ActInv, Respond, ControlState, InsertAction,
     NextAction, RowInv, ReadSteps, Idle
<1>4. ASSUME NEW r \in Requests, NEW a \in Attempts, NEW c \in Actions,
             CommitDispatch(r, a, c)
      PROVE  ActInv'
  BY <1>4 DEF IInv, TypeOK, ActInv, CommitDispatch, InsertAction, NextAction,
     CandidateCurrent, QueueHead, Unheld, Queued, NextAttempt, RowInv,
     ReadSteps, Idle
<1>5. ASSUME NEW c \in Actions, ClaimAction(c)
      PROVE  ActInv'
  BY <1>5 DEF IInv, TypeOK, ActInv, ClaimAction, Claimable, LaneActions,
     RowInv, ReadSteps, Idle
<1>6. ASSUME NEW c \in Actions, RequeueDispatch(c)
      PROVE  ActInv'
  BY <1>6 DEF IInv, TypeOK, ActInv, RequeueDispatch, ReadSteps, Idle
<1>7. ASSUME NEW c \in Actions, EnterDispatch(c)
      PROVE  ActInv'
  BY <1>7 DEF IInv, TypeOK, ActInv, EnterDispatch, DurableUnchanged,
     ReadSteps, Idle
<1>8. ASSUME NEW c \in Actions, StartReturns(c)
      PROVE  ActInv'
  BY <1>8 DEF IInv, TypeOK, ActInv, StartReturns, DurableUnchanged, ReadSteps,
     Idle
<1>9. ASSUME NEW c \in Actions, MarkStarted(c)
      PROVE  ActInv'
  BY <1>9 DEF IInv, TypeOK, ActInv, MarkStarted, ReadSteps, Idle
<1>10. ASSUME NEW c \in Actions, MarkUnknown(c)
      PROVE  ActInv'
  BY <1>10 DEF IInv, TypeOK, ActInv, MarkUnknown, SetAttemptUnknown, OwnsSlot,
     ReadSteps, Idle
<1>11. ASSUME NEW c \in Actions, RejectStart(c)
      PROVE  ActInv'
  BY <1>11 DEF IInv, TypeOK, ActInv, RejectStart, OwnsSlot, ReadSteps, Idle
<1>12. ASSUME NEW c \in Actions, CancelReturns(c)
      PROVE  ActInv'
  BY <1>12 DEF IInv, TypeOK, ActInv, CancelReturns, DurableUnchanged,
     ReadSteps, Idle
<1>13. ASSUME NEW c \in Actions, SteerReturns(c)
      PROVE  ActInv'
  BY <1>13 DEF IInv, TypeOK, ActInv, SteerReturns, DurableUnchanged,
     ReadSteps, Idle
<1>14. ASSUME NEW c \in Actions, RespondReturns(c)
      PROVE  ActInv'
  BY <1>14 DEF IInv, TypeOK, ActInv, RespondReturns, DurableUnchanged,
     ReadSteps, Idle
<1>15. ASSUME NEW c \in Actions, FinishSteer(c)
      PROVE  ActInv'
  BY <1>15 DEF IInv, TypeOK, ActInv, FinishSteer, SetAttemptUnknown,
     FinishStep, Outcomes, OriginalRequest, SteerOutstanding, ReadSteps, Idle
<1>16. ASSUME NEW c \in Actions, FinishResponse(c)
      PROVE  ActInv'
  BY <1>16 DEF IInv, TypeOK, ActInv, FinishResponse, SetAttemptUnknown,
     FinishStep, Outcomes, ReadSteps, Idle
<1>17. ASSUME NEW c \in Actions, TransactionLost(c)
      PROVE  ActInv'
  BY <1>17 DEF IInv, TypeOK, ActInv, TransactionLost, DurableUnchanged,
     FinishStep, Outcomes, ReadSteps, Idle
<1>18. ASSUME NEW c \in Actions, FinishAction(c)
      PROVE  ActInv'
  BY <1>18 DEF IInv, TypeOK, ActInv, FinishAction, ReadSteps, Idle
<1>19. ASSUME NEW c \in Actions, RegisterStream(c)
      PROVE  ActInv'
  BY <1>19 DEF IInv, TypeOK, ActInv, RegisterStream, DurableUnchanged,
     ReadSteps, Idle
<1>20. ASSUME NEW c \in Actions, StreamClosed(c)
      PROVE  ActInv'
  BY <1>20 DEF IInv, TypeOK, ActInv, StreamClosed, DurableUnchanged,
     ReadSteps, Idle
<1>21. ASSUME NEW c \in Actions, NEW outcome \in TerminalStates,
             NEW effect \in EffectStates, NEW class,
             StreamTerminal(c, outcome, effect, class)
      PROVE  ActInv'
  BY <1>21 DEF IInv, TypeOK, ActInv, StreamTerminal, EndFrame,
     ProjectTerminal, SetAttemptUnknown, TerminalStates, Observing, ReadSteps,
     Idle
<1>22. ASSUME NEW c \in Actions, NEW effect \in EffectStates,
             StreamUnknown(c, effect)
      PROVE  ActInv'
  BY <1>22 DEF IInv, TypeOK, ActInv, StreamUnknown, EndFrame,
     SetAttemptUnknown, Observing, ReadSteps, Idle
<1>23. ASSUME NEW c \in Actions, NEW over, ToolStarted(c, over)
      PROVE  ActInv'
  BY <1>23 DEF IInv, TypeOK, ActInv, ToolStarted, EventFrame, ChargeOutput,
     InBudget, Observing, InsertAction, NextAction, ReadSteps, Idle
<1>24. ASSUME NEW c \in Actions, NEW over, NEW end,
             ToolCompleted(c, over, end)
      PROVE  ActInv'
  BY <1>24 DEF IInv, TypeOK, ActInv, ToolCompleted, EventFrame, ChargeOutput,
     InBudget, Observing, InsertAction, NextAction, ReadSteps, Idle
<1>25. ASSUME NEW c \in Actions, OutputLimit(c)
      PROVE  ActInv'
  BY <1>25 DEF IInv, TypeOK, ActInv, OutputLimit, EventFrame, ChargeOutput,
     InBudget, Observing, InsertAction, NextAction, ReadSteps, Idle
<1>26. ASSUME NEW c \in Actions, NEW w \in Waits, NEW over,
             WaitRequested(c, w, over)
      PROVE  ActInv'
  BY <1>26 DEF IInv, TypeOK, ActInv, WaitRequested, EventFrame, ChargeOutput,
     InBudget, Observing, InsertAction, NextAction, NextWait, ReadSteps, Idle
<1>27. ASSUME NEW outcome \in TerminalStates, NEW effect \in EffectStates,
             NEW class, ReconcileApply(outcome, effect, class)
      PROVE  ActInv'
  BY <1>27 DEF IInv, TypeOK, ActInv, ReconcileApply, EndFrame,
     ProjectTerminal, SetAttemptUnknown, TerminalStates, CancelStream,
     ReadSteps, Idle
<1>28. CASE Restart
  BY <1>28 DEF IInv, TypeOK, ActInv, Restart, RecoverActive,
     SetAttemptUnknown, ReadSteps, Idle
<1>29. CASE UNCHANGED <<actionVars, pc>>
  BY <1>29 DEF ActInv
<1>30. CASE CommandStep
  BY <1>30, <1>1, <1>2, <1>3, <1>29 DEF CommandStep, DialogCreate,
     MessageEnqueue, RequestCancel, QueueResume, AttemptRetry
<1>31. CASE LoopStep
  BY <1>31, <1>4, <1>29 DEF LoopStep, PeekDispatch, BlockPolicy, DropCandidate
<1>32. ASSUME NEW c \in Actions, WorkerStep(c) PROVE ActInv'
  BY <1>32, <1>6, <1>7, <1>8, <1>9, <1>10, <1>11, <1>12, <1>13, <1>14, <1>15,
     <1>16, <1>17, <1>18, <1>29 DEF WorkerStep, IssueTurn, DurableUnchanged
<1>33. ASSUME NEW c \in Actions, StreamEnds(c) PROVE ActInv'
  BY <1>33, <1>19, <1>20, <1>21, <1>22 DEF StreamEnds
<1>34. ASSUME NEW c \in Actions, StreamEvent(c) PROVE ActInv'
  BY <1>34, <1>23, <1>24, <1>25, <1>26, <1>29 DEF StreamEvent, EnterWaiting,
     EventFrame
<1>35. CASE ReconcileStep
  BY <1>35, StateValues, <1>27, <1>29 DEF ReconcileStep, ReconcileBegin,
     ReconcileNone, DurableUnchanged
<1>36. CASE ProviderStep
  BY <1>36, <1>29 DEF ProviderStep, ProviderStarts, ProviderEnds,
     DurableUnchanged
<1>37. CASE BarrierStep
  BY <1>37, <1>29 DEF BarrierStep, InstallHold, ReleaseHold,
     DeleteLogicalDialog, BeginSettings, SettingsSwap, SettingsRelease,
     SetSettingsReady, ProviderAuthStart, ProviderAuthCheck,
     ProviderAuthSettles, RowsUnchanged, SettingsFrame, AuthFrame
<1>38. CASE UNCHANGED vars
  BY <1>38, <1>29 DEF vars
<1> QED BY <1>30, <1>31, <1>5, <1>32, <1>33, <1>34, <1>35, <1>36, <1>37,
   <1>28, <1>38 DEF Next

-----------------------------------------------------------------------------
\* A dispatch and its attempt.

\* The dispatch has not yet been answered by the adapter, or the answer is not
\* yet recorded.
Early(c) ==
  /\ actKind[c] = "dispatch.start"
  /\ \/ actStatus[c] = "pending"
     \/ pc[c] \in {"claimed", "calling", "started", "rejected"}

\* An attempt has one dispatch.  Before its start is recorded it does not run,
\* asks for nothing and is steered by nobody; afterwards it is no longer
\* dispatching.
StageInv ==
  /\ \A c, d \in Actions : /\ actKind[c] = "dispatch.start"
                           /\ actKind[d] = "dispatch.start"
                           /\ actAtt[c] = actAtt[d]
                           => c = d
  /\ \A c \in Actions : Early(c) =>
       attState[actAtt[c]] \notin {"running", "waiting_input"}
  /\ \A c \in Actions, w \in Waits : Early(c) /\ waitStatus[w] # "absent"
                                     => waitAtt[w] # actAtt[c]
  /\ \A c, d \in Actions : Early(c) /\ actAtt[d] = actAtt[c]
                           => actKind[d] \notin {"message.steer", "respond"}
  /\ \A c \in Actions : /\ actKind[c] = "dispatch.start"
                        /\ pc[c] \in ReadSteps \cup {"finish_ack"}
                        => attState[actAtt[c]] # "dispatching"

\* No dispatch exists at first.
LEMMA StageInit == InitStore => StageInv
<1> SUFFICES ASSUME InitStore PROVE StageInv
  OBVIOUS
<1>1. \A c \in Actions : actKind[c] # "dispatch.start"
  BY DEF InitStore
<1> QED BY <1>1 DEF StageInv, Early

\* Every step keeps dispatch and attempt in step.
LEMMA StageNext ==
  ASSUME IInv, ActInv, StageInv, [Next]_vars
  PROVE  StageInv'
<1>1. ASSUME NEW a \in Attempts, NEW c \in Actions, NEW low,
             AttemptStop(a, c, low)
      PROVE  StageInv'
  BY <1>1 DEF IInv, TypeOK, RowInv, ActInv, StageInv, Early, ReadSteps, Idle,
     AttemptStop, ControlState, InsertAction, NextAction
<1>2. ASSUME NEW m \in Messages, NEW a \in Attempts, NEW c \in Actions,
             NEW low, MessageSteer(m, a, c, low)
      PROVE  StageInv'
  BY <1>2 DEF IInv, TypeOK, RowInv, ActInv, StageInv, Early, ReadSteps, Idle,
     MessageSteer, ControlState, InsertAction, NextAction
<1>3. ASSUME NEW w \in Waits, NEW c \in Actions, NEW low, Respond(w, c, low)
      PROVE  StageInv'
  BY <1>3 DEF IInv, TypeOK, RowInv, ActInv, StageInv, Early, ReadSteps, Idle,
     Respond, ControlState, InsertAction, NextAction
<1>4. ASSUME NEW r \in Requests, NEW a \in Attempts, NEW c \in Actions,
             CommitDispatch(r, a, c)
      PROVE  StageInv'
  BY <1>4 DEF IInv, TypeOK, RowInv, ActInv, StageInv, Early, ReadSteps, Idle,
     CommitDispatch, InsertAction, NextAction, CandidateCurrent, QueueHead,
     Unheld, Queued, NextAttempt
<1>5. ASSUME NEW c \in Actions, ClaimAction(c)
      PROVE  StageInv'
  BY <1>5 DEF IInv, TypeOK, RowInv, ActInv, StageInv, Early, ReadSteps, Idle,
     ClaimAction, Claimable, LaneActions
<1>6. ASSUME NEW c \in Actions, RequeueDispatch(c)
      PROVE  StageInv'
  BY <1>6 DEF IInv, TypeOK, RowInv, ActInv, StageInv, Early, ReadSteps, Idle,
     RequeueDispatch
<1>7. ASSUME NEW c \in Actions, EnterDispatch(c)
      PROVE  StageInv'
  BY <1>7 DEF IInv, TypeOK, RowInv, ActInv, StageInv, Early, ReadSteps, Idle,
     EnterDispatch, DurableUnchanged
<1>8. ASSUME NEW c \in Actions, StartReturns(c)
      PROVE  StageInv'
  BY <1>8 DEF IInv, TypeOK, RowInv, ActInv, StageInv, Early, ReadSteps, Idle,
     StartReturns, DurableUnchanged
<1>9. ASSUME NEW c \in Actions, MarkStarted(c)
      PROVE  StageInv'
  <2>1. /\ actAtt[c] \in Attempts /\ attState[actAtt[c]] # "absent"
        /\ attReq[actAtt[c]] \in Requests
    BY <1>9, PerformedAttempt DEF MarkStarted, Idle
  <2> QED BY <1>9, <2>1 DEF IInv, TypeOK, RowInv, ActInv, StageInv, Early,
     ReadSteps, Idle, GateInv, MarkStarted
<1>10. ASSUME NEW c \in Actions, MarkUnknown(c)
      PROVE  StageInv'
  <2>1. /\ actAtt[c] \in Attempts /\ attState[actAtt[c]] # "absent"
        /\ attReq[actAtt[c]] \in Requests
    BY <1>10, PerformedAttempt DEF MarkUnknown, Idle
  <2> QED BY <1>10, <2>1 DEF IInv, TypeOK, RowInv, ActInv, StageInv, Early,
     ReadSteps, Idle, MarkUnknown, SetAttemptUnknown, OwnsSlot
<1>11. ASSUME NEW c \in Actions, RejectStart(c)
      PROVE  StageInv'
  <2>1. /\ actAtt[c] \in Attempts /\ attState[actAtt[c]] # "absent"
        /\ attReq[actAtt[c]] \in Requests
    BY <1>11, PerformedAttempt DEF RejectStart, Idle
  <2> QED BY <1>11, <2>1 DEF IInv, TypeOK, RowInv, ActInv, StageInv, Early,
     ReadSteps, Idle, RejectStart, OwnsSlot
<1>12. ASSUME NEW c \in Actions, CancelReturns(c)
      PROVE  StageInv'
  BY <1>12 DEF IInv, TypeOK, RowInv, ActInv, StageInv, Early, ReadSteps, Idle,
     CancelReturns, DurableUnchanged
<1>13. ASSUME NEW c \in Actions, SteerReturns(c)
      PROVE  StageInv'
  BY <1>13 DEF IInv, TypeOK, RowInv, ActInv, StageInv, Early, ReadSteps, Idle,
     SteerReturns, DurableUnchanged
<1>14. ASSUME NEW c \in Actions, RespondReturns(c)
      PROVE  StageInv'
  BY <1>14 DEF IInv, TypeOK, RowInv, ActInv, StageInv, Early, ReadSteps, Idle,
     RespondReturns, DurableUnchanged
<1>15. ASSUME NEW c \in Actions, FinishSteer(c)
      PROVE  StageInv'
  <2>1. /\ actAtt[c] \in Attempts /\ attState[actAtt[c]] # "absent"
        /\ attReq[actAtt[c]] \in Requests
    BY <1>15, PerformedAttempt DEF FinishSteer, Outcomes, Idle
  <2> QED BY <1>15, <2>1 DEF IInv, TypeOK, RowInv, ActInv, StageInv, Early,
     ReadSteps, Idle, FinishSteer, SetAttemptUnknown, FinishStep, Outcomes,
     OriginalRequest, SteerOutstanding
<1>16. ASSUME NEW c \in Actions, FinishResponse(c)
      PROVE  StageInv'
  <2>1. /\ actAtt[c] \in Attempts /\ attState[actAtt[c]] # "absent"
        /\ attReq[actAtt[c]] \in Requests
    BY <1>16, PerformedAttempt DEF FinishResponse, Outcomes, Idle
  <2> QED BY <1>16, <2>1 DEF IInv, TypeOK, RowInv, ActInv, StageInv, Early,
     ReadSteps, Idle, FinishResponse, SetAttemptUnknown, FinishStep, Outcomes
<1>17. ASSUME NEW c \in Actions, TransactionLost(c)
      PROVE  StageInv'
  BY <1>17 DEF IInv, TypeOK, RowInv, ActInv, StageInv, Early, ReadSteps, Idle,
     TransactionLost, DurableUnchanged, FinishStep, Outcomes
<1>18. ASSUME NEW c \in Actions, FinishAction(c)
      PROVE  StageInv'
  BY <1>18 DEF IInv, TypeOK, RowInv, ActInv, StageInv, Early, ReadSteps, Idle,
     FinishAction
<1>19. ASSUME NEW c \in Actions, RegisterStream(c)
      PROVE  StageInv'
  BY <1>19 DEF IInv, TypeOK, RowInv, ActInv, StageInv, Early, ReadSteps, Idle,
     RegisterStream, DurableUnchanged
<1>20. ASSUME NEW c \in Actions, StreamClosed(c)
      PROVE  StageInv'
  BY <1>20 DEF IInv, TypeOK, RowInv, ActInv, StageInv, Early, ReadSteps, Idle,
     StreamClosed, DurableUnchanged
<1>21. ASSUME NEW c \in Actions, NEW outcome \in TerminalStates,
             NEW effect \in EffectStates, NEW class,
             StreamTerminal(c, outcome, effect, class)
      PROVE  StageInv'
  <2>1. /\ actAtt[c] \in Attempts /\ attState[actAtt[c]] # "absent"
        /\ attReq[actAtt[c]] \in Requests
    BY <1>21, PerformedAttempt DEF StreamTerminal, Observing, Idle
  <2> QED BY <1>21, <2>1 DEF IInv, TypeOK, RowInv, ActInv, StageInv, Early,
     ReadSteps, Idle, StreamTerminal, EndFrame, ProjectTerminal,
     SetAttemptUnknown, TerminalStates, Observing
<1>22. ASSUME NEW c \in Actions, NEW effect \in EffectStates,
             StreamUnknown(c, effect)
      PROVE  StageInv'
  <2>1. /\ actAtt[c] \in Attempts /\ attState[actAtt[c]] # "absent"
        /\ attReq[actAtt[c]] \in Requests
    BY <1>22, PerformedAttempt DEF StreamUnknown, Observing, Idle
  <2> QED BY <1>22, <2>1 DEF IInv, TypeOK, RowInv, ActInv, StageInv, Early,
     ReadSteps, Idle, StreamUnknown, EndFrame, SetAttemptUnknown, Observing
<1>23. ASSUME NEW c \in Actions, NEW over, ToolStarted(c, over)
      PROVE  StageInv'
  <2>1. /\ actAtt[c] \in Attempts /\ attState[actAtt[c]] # "absent"
        /\ attReq[actAtt[c]] \in Requests
    BY <1>23, PerformedAttempt DEF ToolStarted, InBudget, Observing, Idle
  <2>2. CASE UNCHANGED <<attState, actionVars>>
    BY <1>23, <2>1, <2>2 DEF IInv, TypeOK, RowInv, ActInv, StageInv, Early,
       ReadSteps, Idle, ToolStarted, EventFrame, InBudget, Observing
  <2>3. ASSUME NEW s \in Actions,
               InsertAction(s, "attempt.stop", actAtt[c], 0),
               attState[actAtt[c]] \in {"running", "waiting_input"},
               attState' = [attState EXCEPT ![actAtt[c]] = "stopping"]
        PROVE  StageInv'
    BY <1>23, <2>1, <2>3 DEF IInv, TypeOK, RowInv, ActInv, StageInv, Early,
       ReadSteps, Idle, ToolStarted, EventFrame, InBudget, Observing,
       InsertAction, NextAction
  <2> QED BY <1>23, <2>2, <2>3 DEF ToolStarted, ChargeOutput
<1>24. ASSUME NEW c \in Actions, NEW over, NEW end,
             ToolCompleted(c, over, end)
      PROVE  StageInv'
  <2>1. /\ actAtt[c] \in Attempts /\ attState[actAtt[c]] # "absent"
        /\ attReq[actAtt[c]] \in Requests
    BY <1>24, PerformedAttempt DEF ToolCompleted, InBudget, Observing, Idle
  <2>2. CASE UNCHANGED <<attState, actionVars>>
    BY <1>24, <2>1, <2>2 DEF IInv, TypeOK, RowInv, ActInv, StageInv, Early,
       ReadSteps, Idle, ToolCompleted, EventFrame, InBudget, Observing
  <2>3. ASSUME NEW s \in Actions,
               InsertAction(s, "attempt.stop", actAtt[c], 0),
               attState[actAtt[c]] \in {"running", "waiting_input"},
               attState' = [attState EXCEPT ![actAtt[c]] = "stopping"]
        PROVE  StageInv'
    BY <1>24, <2>1, <2>3 DEF IInv, TypeOK, RowInv, ActInv, StageInv, Early,
       ReadSteps, Idle, ToolCompleted, EventFrame, InBudget, Observing,
       InsertAction, NextAction
  <2> QED BY <1>24, <2>2, <2>3 DEF ToolCompleted, ChargeOutput
<1>25. ASSUME NEW c \in Actions, OutputLimit(c)
      PROVE  StageInv'
  <2>1. /\ actAtt[c] \in Attempts /\ attState[actAtt[c]] # "absent"
        /\ attReq[actAtt[c]] \in Requests
    BY <1>25, PerformedAttempt DEF OutputLimit, InBudget, Observing, Idle
  <2>2. CASE UNCHANGED <<attState, actionVars>>
    BY <1>25, <2>1, <2>2 DEF IInv, TypeOK, RowInv, ActInv, StageInv, Early,
       ReadSteps, Idle, OutputLimit, EventFrame, InBudget, Observing
  <2>3. ASSUME NEW s \in Actions,
               InsertAction(s, "attempt.stop", actAtt[c], 0),
               attState[actAtt[c]] \in {"running", "waiting_input"},
               attState' = [attState EXCEPT ![actAtt[c]] = "stopping"]
        PROVE  StageInv'
    BY <1>25, <2>1, <2>3 DEF IInv, TypeOK, RowInv, ActInv, StageInv, Early,
       ReadSteps, Idle, OutputLimit, EventFrame, InBudget, Observing,
       InsertAction, NextAction
  <2> QED BY <1>25, <2>2, <2>3 DEF OutputLimit, ChargeOutput
<1>26. ASSUME NEW c \in Actions, EnterWaiting(c)
      PROVE  StageInv'
  <2>1. /\ actAtt[c] \in Attempts /\ attState[actAtt[c]] # "absent"
        /\ attReq[actAtt[c]] \in Requests
    BY <1>26, PerformedAttempt DEF EnterWaiting, Observing, Idle
  <2> QED BY <1>26, <2>1 DEF IInv, TypeOK, RowInv, ActInv, StageInv, Early,
     ReadSteps, Idle, EnterWaiting, EventFrame, Observing
<1>27. ASSUME NEW c \in Actions, NEW w \in Waits, NEW over,
             WaitRequested(c, w, over)
      PROVE  StageInv'
  <2>1. /\ actAtt[c] \in Attempts /\ attState[actAtt[c]] # "absent"
        /\ attReq[actAtt[c]] \in Requests
    BY <1>27, PerformedAttempt DEF WaitRequested, InBudget, Observing, Idle
  <2>2. CASE UNCHANGED <<attState, actionVars>>
    BY <1>27, <2>1, <2>2 DEF IInv, TypeOK, RowInv, ActInv, StageInv, Early,
       ReadSteps, Idle, WaitRequested, EventFrame, InBudget, Observing,
       NextWait
  <2>3. ASSUME NEW s \in Actions,
               InsertAction(s, "attempt.stop", actAtt[c], 0),
               attState[actAtt[c]] \in {"running", "waiting_input"},
               attState' = [attState EXCEPT ![actAtt[c]] = "stopping"]
        PROVE  StageInv'
    BY <1>27, <2>1, <2>3 DEF IInv, TypeOK, RowInv, ActInv, StageInv, Early,
       ReadSteps, Idle, WaitRequested, EventFrame, InBudget, Observing,
       InsertAction, NextAction, NextWait
  <2>4. CASE /\ attState' = [attState EXCEPT ![actAtt[c]] = "waiting_input"]
             /\ UNCHANGED <<attOver, actionVars>>
    BY <1>27, <2>1, <2>4 DEF IInv, TypeOK, RowInv, ActInv, StageInv, Early,
       ReadSteps, Idle, WaitRequested, EventFrame, InBudget, Observing,
       NextWait
  <2> QED BY <1>27, <2>2, <2>3, <2>4 DEF WaitRequested, ChargeOutput
<1>28. ASSUME NEW outcome \in TerminalStates, NEW effect \in EffectStates,
             NEW class, ReconcileApply(outcome, effect, class)
      PROVE  StageInv'
  <2>1. /\ reconciling \in Attempts /\ attState[reconciling] # "absent"
        /\ attReq[reconciling] \in Requests
    BY <1>28 DEF IInv, TypeOK, RowInv, ReconcileApply
  <2> QED BY <1>28, <2>1 DEF IInv, TypeOK, RowInv, ActInv, StageInv, Early,
     ReadSteps, Idle, ReconcileApply, EndFrame, ProjectTerminal,
     SetAttemptUnknown, TerminalStates, CancelStream
<1>29. CASE Restart
  <2>1. active # 0 => /\ active \in Attempts /\ attState[active] # "absent"
                      /\ attReq[active] \in Requests
    BY DEF IInv, TypeOK, RowInv, SlotInv, ActiveStates
  <2> QED BY <1>29, <2>1 DEF IInv, TypeOK, RowInv, ActInv, StageInv, Early,
     ReadSteps, Idle, Restart, RecoverActive, SetAttemptUnknown
<1>30. CASE UNCHANGED <<actionVars, pc, attState, waitVars>>
  BY <1>30 DEF StageInv, Early
<1>31. CASE CommandStep
  BY <1>31, <1>1, <1>2, <1>3, <1>30 DEF CommandStep, DialogCreate,
     MessageEnqueue, RequestCancel, QueueResume, AttemptRetry
<1>32. CASE LoopStep
  BY <1>32, <1>4, <1>30 DEF LoopStep, PeekDispatch, BlockPolicy, DropCandidate
<1>33. ASSUME NEW c \in Actions, WorkerStep(c) PROVE StageInv'
  BY <1>33, <1>6, <1>7, <1>8, <1>9, <1>10, <1>11, <1>12, <1>13, <1>14, <1>15,
     <1>16, <1>17, <1>18, <1>30 DEF WorkerStep, IssueTurn, DurableUnchanged
<1>34. ASSUME NEW c \in Actions, StreamEnds(c) PROVE StageInv'
  BY <1>34, <1>19, <1>20, <1>21, <1>22 DEF StreamEnds
<1>35. ASSUME NEW c \in Actions, StreamEvent(c) PROVE StageInv'
  BY <1>35, <1>23, <1>24, <1>25, <1>26, <1>27 DEF StreamEvent
<1>36. CASE ReconcileStep
  BY <1>36, StateValues, <1>28, <1>30 DEF ReconcileStep, ReconcileBegin,
     ReconcileNone, DurableUnchanged
<1>37. CASE ProviderStep
  BY <1>37, <1>30 DEF ProviderStep, ProviderStarts, ProviderEnds,
     DurableUnchanged
<1>38. CASE BarrierStep
  BY <1>38, <1>30 DEF BarrierStep, InstallHold, ReleaseHold,
     DeleteLogicalDialog, BeginSettings, SettingsSwap, SettingsRelease,
     SetSettingsReady, ProviderAuthStart, ProviderAuthCheck,
     ProviderAuthSettles, RowsUnchanged, SettingsFrame, AuthFrame
<1>39. CASE UNCHANGED vars
  BY <1>39, <1>30 DEF vars
<1> QED BY <1>31, <1>32, <1>5, <1>33, <1>34, <1>35, <1>36, <1>37, <1>38,
   <1>29, <1>39 DEF Next

\* References between rows hold in every reachable state.
THEOREM RefInvariance == Spec => []RefInv
<1>1. IInv /\ RefInv /\ [Next]_vars => RefInv'
  BY RefNext
<1> QED BY <1>1, RefInit, Invariance, PTL DEF Spec

\* So does the life of a control action.
THEOREM ActInvariance == Spec => []ActInv
<1>1. IInv /\ ActInv /\ [Next]_vars => ActInv'
  BY ActNext
<1> QED BY <1>1, ActInit, Invariance, PTL DEF Spec

\* So does the agreement of a dispatch with its attempt.
THEOREM StageInvariance == Spec => []StageInv
<1>1. IInv /\ ActInv /\ StageInv /\ [Next]_vars => StageInv'
  BY StageNext
<1> QED BY <1>1, StageInit, Invariance, ActInvariance, PTL DEF Spec

-----------------------------------------------------------------------------
\* A steer that is under way.

\* The steer waits to be claimed, is with the adapter, or its outcome is not
\* yet recorded.
LiveSteer(c) ==
  /\ actKind[c] = "message.steer"
  /\ \/ actStatus[c] = "pending"
     \/ pc[c] \in {"claimed", "invalid"} \cup Outcomes

\* The attempt a steer goes to keeps the slot until the steer is settled.
SteerSlotInv == \A c \in Actions : LiveSteer(c) => active = actAtt[c]

\* No action exists at first.
LEMMA SteerSlotInit == InitStore => SteerSlotInv
BY DEF InitStore, SteerSlotInv, LiveSteer

\* A steer under way is a control that prepareTerminalProjection respects.
LEMMA LiveSteerUnresolved ==
  ASSUME IInv, ActInv, NEW c \in Actions, LiveSteer(c)
  PROVE  /\ actStatus[c] \in {"pending", "inflight"}
         /\ actAtt[c] \in Attempts
         /\ UnresolvedControl(actAtt[c])
<1>1. actStatus[c] \in {"pending", "inflight"} /\ actStatus[c] # "absent"
  BY DEF LiveSteer, ActInv, ReadSteps, Idle, Outcomes
<1> QED BY <1>1 DEF IInv, RowInv, UnresolvedControl, Unresolved, LiveSteer

\* The slot is not given up while a steer is under way.
LEMMA SteerSlotNext ==
  ASSUME IInv, ActInv, StageInv, SteerSlotInv, [Next]_vars
  PROVE  SteerSlotInv'
<1>1. ASSUME NEW a \in Attempts, NEW c \in Actions, NEW low,
             AttemptStop(a, c, low)
      PROVE  SteerSlotInv'
  BY <1>1 DEF IInv, TypeOK, RowInv, ActInv, SteerSlotInv, LiveSteer, Outcomes,
     Idle, AttemptStop, ControlState, InsertAction, NextAction
<1>2. ASSUME NEW m \in Messages, NEW a \in Attempts, NEW c \in Actions,
             NEW low, MessageSteer(m, a, c, low)
      PROVE  SteerSlotInv'
  BY <1>2 DEF IInv, TypeOK, RowInv, ActInv, SteerSlotInv, LiveSteer, Outcomes,
     Idle, MessageSteer, ControlState, InsertAction, NextAction
<1>3. ASSUME NEW w \in Waits, NEW c \in Actions, NEW low, Respond(w, c, low)
      PROVE  SteerSlotInv'
  BY <1>3 DEF IInv, TypeOK, RowInv, ActInv, SteerSlotInv, LiveSteer, Outcomes,
     Idle, Respond, ControlState, InsertAction, NextAction
<1>4. ASSUME NEW r \in Requests, NEW a \in Attempts, NEW c \in Actions,
             CommitDispatch(r, a, c)
      PROVE  SteerSlotInv'
  BY <1>4, LiveSteerUnresolved, AttemptsPositive DEF IInv, TypeOK, RowInv,
     ActInv, SteerSlotInv, LiveSteer, Outcomes, Idle, CommitDispatch,
     InsertAction, NextAction, CandidateCurrent, QueueHead, Unheld, Queued,
     NextAttempt, SlotOpen
<1>5. ASSUME NEW c \in Actions, ClaimAction(c)
      PROVE  SteerSlotInv'
  BY <1>5 DEF IInv, TypeOK, RowInv, ActInv, SteerSlotInv, LiveSteer, Outcomes,
     Idle, ClaimAction, Claimable, LaneActions
<1>6. ASSUME NEW c \in Actions, RequeueDispatch(c)
      PROVE  SteerSlotInv'
  BY <1>6 DEF IInv, TypeOK, RowInv, ActInv, SteerSlotInv, LiveSteer, Outcomes,
     Idle, RequeueDispatch
<1>7. ASSUME NEW c \in Actions, EnterDispatch(c)
      PROVE  SteerSlotInv'
  BY <1>7 DEF IInv, TypeOK, RowInv, ActInv, SteerSlotInv, LiveSteer, Outcomes,
     Idle, EnterDispatch, DurableUnchanged
<1>8. ASSUME NEW c \in Actions, StartReturns(c)
      PROVE  SteerSlotInv'
  BY <1>8 DEF IInv, TypeOK, RowInv, ActInv, SteerSlotInv, LiveSteer, Outcomes,
     Idle, StartReturns, DurableUnchanged, GateInv
<1>9. ASSUME NEW c \in Actions, MarkStarted(c)
      PROVE  SteerSlotInv'
  <2>1. /\ actAtt[c] \in Attempts /\ attState[actAtt[c]] # "absent"
        /\ attReq[actAtt[c]] \in Requests
    BY <1>9, PerformedAttempt DEF MarkStarted, Idle
  <2> QED BY <1>9, <2>1 DEF IInv, TypeOK, RowInv, ActInv, SteerSlotInv,
     LiveSteer, Outcomes, Idle, GateInv, MarkStarted
<1>10. ASSUME NEW c \in Actions, MarkUnknown(c)
      PROVE  SteerSlotInv'
  <2>1. /\ actAtt[c] \in Attempts /\ attState[actAtt[c]] # "absent"
        /\ attReq[actAtt[c]] \in Requests
    BY <1>10, PerformedAttempt DEF MarkUnknown, Idle
  <2> QED BY <1>10, <2>1 DEF IInv, TypeOK, RowInv, ActInv, SteerSlotInv,
     LiveSteer, Outcomes, Idle, MarkUnknown, SetAttemptUnknown, OwnsSlot
<1>11. ASSUME NEW c \in Actions, RejectStart(c)
      PROVE  SteerSlotInv'
  <2>1. /\ actAtt[c] \in Attempts /\ attState[actAtt[c]] # "absent"
        /\ attReq[actAtt[c]] \in Requests
    BY <1>11, PerformedAttempt DEF RejectStart, Idle
  <2> QED BY <1>11, <2>1 DEF IInv, TypeOK, RowInv, ActInv, SteerSlotInv,
     LiveSteer, Outcomes, Idle, StageInv, Early, RejectStart, OwnsSlot
<1>12. ASSUME NEW c \in Actions, CancelReturns(c)
      PROVE  SteerSlotInv'
  BY <1>12 DEF IInv, TypeOK, RowInv, ActInv, SteerSlotInv, LiveSteer,
     Outcomes, Idle, CancelReturns, DurableUnchanged
<1>13. ASSUME NEW c \in Actions, SteerReturns(c)
      PROVE  SteerSlotInv'
  BY <1>13 DEF IInv, TypeOK, RowInv, ActInv, SteerSlotInv, LiveSteer,
     Outcomes, Idle, SteerReturns, DurableUnchanged
<1>14. ASSUME NEW c \in Actions, RespondReturns(c)
      PROVE  SteerSlotInv'
  BY <1>14 DEF IInv, TypeOK, RowInv, ActInv, SteerSlotInv, LiveSteer,
     Outcomes, Idle, RespondReturns, DurableUnchanged
<1>15. ASSUME NEW c \in Actions, FinishSteer(c)
      PROVE  SteerSlotInv'
  <2>1. /\ actAtt[c] \in Attempts /\ attState[actAtt[c]] # "absent"
        /\ attReq[actAtt[c]] \in Requests
    BY <1>15, PerformedAttempt DEF FinishSteer, Outcomes, Idle
  <2> QED BY <1>15, <2>1, LiveSteerUnresolved, IndexGuardsSlot, AttemptsPositive DEF
     IInv, TypeOK, RowInv, ActInv, SteerSlotInv, LiveSteer, Outcomes, Idle,
     FinishSteer, SetAttemptUnknown, FinishStep, OriginalRequest,
     SteerOutstanding
<1>16. ASSUME NEW c \in Actions, FinishResponse(c)
      PROVE  SteerSlotInv'
  <2>1. /\ actAtt[c] \in Attempts /\ attState[actAtt[c]] # "absent"
        /\ attReq[actAtt[c]] \in Requests
    BY <1>16, PerformedAttempt DEF FinishResponse, Outcomes, Idle
  <2> QED BY <1>16, <2>1, LiveSteerUnresolved, IndexGuardsSlot, AttemptsPositive DEF
     IInv, TypeOK, RowInv, ActInv, SteerSlotInv, LiveSteer, Outcomes, Idle,
     FinishResponse, SetAttemptUnknown, FinishStep
<1>17. ASSUME NEW c \in Actions, TransactionLost(c)
      PROVE  SteerSlotInv'
  BY <1>17 DEF IInv, TypeOK, RowInv, ActInv, SteerSlotInv, LiveSteer,
     Outcomes, Idle, TransactionLost, DurableUnchanged, FinishStep, GateInv
<1>18. ASSUME NEW c \in Actions, FinishAction(c)
      PROVE  SteerSlotInv'
  BY <1>18 DEF IInv, TypeOK, RowInv, ActInv, SteerSlotInv, LiveSteer,
     Outcomes, Idle, FinishAction
<1>19. ASSUME NEW c \in Actions, RegisterStream(c)
      PROVE  SteerSlotInv'
  BY <1>19 DEF IInv, TypeOK, RowInv, ActInv, SteerSlotInv, LiveSteer,
     Outcomes, Idle, RegisterStream, DurableUnchanged
<1>20. ASSUME NEW c \in Actions, StreamClosed(c)
      PROVE  SteerSlotInv'
  BY <1>20 DEF IInv, TypeOK, RowInv, ActInv, SteerSlotInv, LiveSteer,
     Outcomes, Idle, StreamClosed, DurableUnchanged
<1>21. ASSUME NEW c \in Actions, NEW outcome \in TerminalStates,
             NEW effect \in EffectStates, NEW class,
             StreamTerminal(c, outcome, effect, class)
      PROVE  SteerSlotInv'
  <2>1. /\ actAtt[c] \in Attempts /\ attState[actAtt[c]] # "absent"
        /\ attReq[actAtt[c]] \in Requests
    BY <1>21, PerformedAttempt DEF StreamTerminal, Observing, Idle
  <2> QED BY <1>21, <2>1, LiveSteerUnresolved DEF IInv, TypeOK, RowInv, ActInv,
     SteerSlotInv, LiveSteer, Outcomes, Idle, StreamTerminal, EndFrame,
     ProjectTerminal, SetAttemptUnknown, TerminalStates, Observing
<1>22. ASSUME NEW c \in Actions, NEW effect \in EffectStates,
             StreamUnknown(c, effect)
      PROVE  SteerSlotInv'
  <2>1. /\ actAtt[c] \in Attempts /\ attState[actAtt[c]] # "absent"
        /\ attReq[actAtt[c]] \in Requests
    BY <1>22, PerformedAttempt DEF StreamUnknown, Observing, Idle
  <2> QED BY <1>22, <2>1 DEF IInv, TypeOK, RowInv, ActInv, SteerSlotInv,
     LiveSteer, Outcomes, Idle, StreamUnknown, EndFrame, SetAttemptUnknown,
     Observing
<1>23. ASSUME NEW c \in Actions, NEW over, ToolStarted(c, over)
      PROVE  SteerSlotInv'
  <2>1. /\ actAtt[c] \in Attempts /\ attState[actAtt[c]] # "absent"
        /\ attReq[actAtt[c]] \in Requests
    BY <1>23, PerformedAttempt DEF ToolStarted, InBudget, Observing, Idle
  <2>2. CASE UNCHANGED <<attState, actionVars>>
    BY <1>23, <2>1, <2>2 DEF IInv, TypeOK, RowInv, ActInv, SteerSlotInv,
       LiveSteer, Outcomes, Idle, ToolStarted, EventFrame, InBudget, Observing
  <2>3. ASSUME NEW s \in Actions,
               InsertAction(s, "attempt.stop", actAtt[c], 0),
               attState[actAtt[c]] \in {"running", "waiting_input"},
               attState' = [attState EXCEPT ![actAtt[c]] = "stopping"]
        PROVE  SteerSlotInv'
    BY <1>23, <2>1, <2>3 DEF IInv, TypeOK, RowInv, ActInv, SteerSlotInv,
       LiveSteer, Outcomes, Idle, ToolStarted, EventFrame, InBudget,
       Observing, InsertAction, NextAction
  <2> QED BY <1>23, <2>2, <2>3 DEF ToolStarted, ChargeOutput
<1>24. ASSUME NEW c \in Actions, NEW over, NEW end,
             ToolCompleted(c, over, end)
      PROVE  SteerSlotInv'
  <2>1. /\ actAtt[c] \in Attempts /\ attState[actAtt[c]] # "absent"
        /\ attReq[actAtt[c]] \in Requests
    BY <1>24, PerformedAttempt DEF ToolCompleted, InBudget, Observing, Idle
  <2>2. CASE UNCHANGED <<attState, actionVars>>
    BY <1>24, <2>1, <2>2 DEF IInv, TypeOK, RowInv, ActInv, SteerSlotInv,
       LiveSteer, Outcomes, Idle, ToolCompleted, EventFrame, InBudget,
       Observing
  <2>3. ASSUME NEW s \in Actions,
               InsertAction(s, "attempt.stop", actAtt[c], 0),
               attState[actAtt[c]] \in {"running", "waiting_input"},
               attState' = [attState EXCEPT ![actAtt[c]] = "stopping"]
        PROVE  SteerSlotInv'
    BY <1>24, <2>1, <2>3 DEF IInv, TypeOK, RowInv, ActInv, SteerSlotInv,
       LiveSteer, Outcomes, Idle, ToolCompleted, EventFrame, InBudget,
       Observing, InsertAction, NextAction
  <2> QED BY <1>24, <2>2, <2>3 DEF ToolCompleted, ChargeOutput
<1>25. ASSUME NEW c \in Actions, OutputLimit(c)
      PROVE  SteerSlotInv'
  <2>1. /\ actAtt[c] \in Attempts /\ attState[actAtt[c]] # "absent"
        /\ attReq[actAtt[c]] \in Requests
    BY <1>25, PerformedAttempt DEF OutputLimit, InBudget, Observing, Idle
  <2>2. CASE UNCHANGED <<attState, actionVars>>
    BY <1>25, <2>1, <2>2 DEF IInv, TypeOK, RowInv, ActInv, SteerSlotInv,
       LiveSteer, Outcomes, Idle, OutputLimit, EventFrame, InBudget, Observing
  <2>3. ASSUME NEW s \in Actions,
               InsertAction(s, "attempt.stop", actAtt[c], 0),
               attState[actAtt[c]] \in {"running", "waiting_input"},
               attState' = [attState EXCEPT ![actAtt[c]] = "stopping"]
        PROVE  SteerSlotInv'
    BY <1>25, <2>1, <2>3 DEF IInv, TypeOK, RowInv, ActInv, SteerSlotInv,
       LiveSteer, Outcomes, Idle, OutputLimit, EventFrame, InBudget,
       Observing, InsertAction, NextAction
  <2> QED BY <1>25, <2>2, <2>3 DEF OutputLimit, ChargeOutput
<1>26. ASSUME NEW c \in Actions, NEW w \in Waits, NEW over,
             WaitRequested(c, w, over)
      PROVE  SteerSlotInv'
  <2>1. /\ actAtt[c] \in Attempts /\ attState[actAtt[c]] # "absent"
        /\ attReq[actAtt[c]] \in Requests
    BY <1>26, PerformedAttempt DEF WaitRequested, InBudget, Observing, Idle
  <2>2. CASE UNCHANGED <<attState, actionVars>>
    BY <1>26, <2>1, <2>2 DEF IInv, TypeOK, RowInv, ActInv, SteerSlotInv,
       LiveSteer, Outcomes, Idle, WaitRequested, EventFrame, InBudget,
       Observing, NextWait
  <2>3. ASSUME NEW s \in Actions,
               InsertAction(s, "attempt.stop", actAtt[c], 0),
               attState[actAtt[c]] \in {"running", "waiting_input"},
               attState' = [attState EXCEPT ![actAtt[c]] = "stopping"]
        PROVE  SteerSlotInv'
    BY <1>26, <2>1, <2>3 DEF IInv, TypeOK, RowInv, ActInv, SteerSlotInv,
       LiveSteer, Outcomes, Idle, WaitRequested, EventFrame, InBudget,
       Observing, InsertAction, NextAction, NextWait
  <2>4. CASE /\ attState' = [attState EXCEPT ![actAtt[c]] = "waiting_input"]
             /\ UNCHANGED <<attOver, actionVars>>
    BY <1>26, <2>1, <2>4 DEF IInv, TypeOK, RowInv, ActInv, SteerSlotInv,
       LiveSteer, Outcomes, Idle, WaitRequested, EventFrame, InBudget,
       Observing, NextWait
  <2> QED BY <1>26, <2>2, <2>3, <2>4 DEF WaitRequested, ChargeOutput
<1>27. ASSUME NEW outcome \in TerminalStates, NEW effect \in EffectStates,
             NEW class, ReconcileApply(outcome, effect, class)
      PROVE  SteerSlotInv'
  <2>1. /\ reconciling \in Attempts /\ attState[reconciling] # "absent"
        /\ attReq[reconciling] \in Requests
    BY <1>27 DEF IInv, TypeOK, RowInv, ReconcileApply
  <2> QED BY <1>27, <2>1, LiveSteerUnresolved DEF IInv, TypeOK, RowInv, ActInv,
     SteerSlotInv, LiveSteer, Outcomes, Idle, ReconcileApply, EndFrame,
     ProjectTerminal, SetAttemptUnknown, TerminalStates, CancelStream
<1>28. CASE Restart
  <2>1. active # 0 => /\ active \in Attempts /\ attState[active] # "absent"
                      /\ attReq[active] \in Requests
    BY DEF IInv, TypeOK, RowInv, SlotInv, ActiveStates
  <2> QED BY <1>28, <2>1 DEF IInv, TypeOK, RowInv, ActInv, SteerSlotInv,
     LiveSteer, Outcomes, Idle, Restart, RecoverActive, SetAttemptUnknown
<1>29. CASE UNCHANGED <<actionVars, pc, active>>
  BY <1>29 DEF SteerSlotInv, LiveSteer
<1>30. CASE CommandStep
  BY <1>30, <1>1, <1>2, <1>3, <1>29 DEF CommandStep, DialogCreate,
     MessageEnqueue, RequestCancel, QueueResume, AttemptRetry
<1>31. CASE LoopStep
  BY <1>31, <1>4, <1>29 DEF LoopStep, PeekDispatch, BlockPolicy, DropCandidate
<1>32. ASSUME NEW c \in Actions, WorkerStep(c) PROVE SteerSlotInv'
  BY <1>32, <1>6, <1>7, <1>8, <1>9, <1>10, <1>11, <1>12, <1>13, <1>14, <1>15,
     <1>16, <1>17, <1>18, <1>29 DEF WorkerStep, IssueTurn, DurableUnchanged
<1>33. ASSUME NEW c \in Actions, StreamEnds(c) PROVE SteerSlotInv'
  BY <1>33, <1>19, <1>20, <1>21, <1>22 DEF StreamEnds
<1>34. ASSUME NEW c \in Actions, StreamEvent(c) PROVE SteerSlotInv'
  BY <1>34, <1>23, <1>24, <1>25, <1>26, <1>29 DEF StreamEvent, EnterWaiting,
     EventFrame
<1>35. CASE ReconcileStep
  BY <1>35, StateValues, <1>27, <1>29 DEF ReconcileStep, ReconcileBegin,
     ReconcileNone, DurableUnchanged
<1>36. CASE ProviderStep
  BY <1>36, <1>29 DEF ProviderStep, ProviderStarts, ProviderEnds,
     DurableUnchanged
<1>37. CASE BarrierStep
  BY <1>37, <1>29 DEF BarrierStep, InstallHold, ReleaseHold,
     DeleteLogicalDialog, BeginSettings, SettingsSwap, SettingsRelease,
     SetSettingsReady, ProviderAuthStart, ProviderAuthCheck,
     ProviderAuthSettles, RowsUnchanged, SettingsFrame, AuthFrame
<1>38. CASE UNCHANGED vars
  BY <1>38, <1>29 DEF vars
<1> QED BY <1>30, <1>31, <1>5, <1>32, <1>33, <1>34, <1>35, <1>36, <1>37,
   <1>28, <1>38 DEF Next

\* The request of a message that was never started, and of one whose steer is
\* under way, is in the queue.
QueuedInv ==
  /\ \A m \in Messages : msgDisp[m] = "queued" =>
       \A r \in Requests : reqMsg[r] = m => reqStatus[r] = "queued"
  /\ \A c \in Actions : LiveSteer(c) /\ msgDisp[actObj[c]] = "steer_pending" =>
       \A r \in Requests : reqMsg[r] = actObj[c] => reqStatus[r] = "queued"

\* There is neither message nor action at first.
LEMMA QueuedInit == InitStore => QueuedInv
BY DEF InitStore, QueuedInv, LiveSteer

\* Only what leaves the queue loses its place in it.
LEMMA QueuedNext ==
  ASSUME IInv, RefInv, ActInv, SteerSlotInv, QueuedInv, [Next]_vars
  PROVE  QueuedInv'
<1>1. ASSUME NEW d \in Dialogs, NEW m \in Messages, NEW r \in Requests,
             MessageEnqueue(d, m, r)
      PROVE  QueuedInv'
  BY <1>1, MessagesPositive DEF IInv, TypeOK, RowInv, RefInv, ActInv,
     QueuedInv, LiveSteer, Outcomes, Idle, MessageEnqueue, NextMessage,
     NextRequest
<1>2. ASSUME NEW r \in Requests, NEW low, RequestCancel(r, low)
      PROVE  QueuedInv'
  BY <1>2 DEF IInv, TypeOK, RowInv, RefInv, ActInv, QueuedInv, LiveSteer,
     Outcomes, Idle, RequestCancel, ControlState
<1>3. ASSUME NEW a \in Attempts, NEW c \in Actions, NEW low,
             AttemptStop(a, c, low)
      PROVE  QueuedInv'
  BY <1>3 DEF IInv, TypeOK, RowInv, RefInv, ActInv, QueuedInv, LiveSteer,
     Outcomes, Idle, AttemptStop, ControlState, InsertAction, NextAction
<1>4. ASSUME NEW a \in Attempts, NEW ack, NEW r \in Requests,
             AttemptRetry(a, ack, r)
      PROVE  QueuedInv'
  BY <1>4, MessagesPositive DEF IInv, TypeOK, RowInv, RefInv, ActInv,
     QueuedInv, LiveSteer, Outcomes, Idle, AttemptRetry, NextRequest,
     Retryable, MessageOfAttempt
<1>5. ASSUME NEW m \in Messages, NEW a \in Attempts, NEW c \in Actions,
             NEW low, MessageSteer(m, a, c, low)
      PROVE  QueuedInv'
  BY <1>5 DEF IInv, TypeOK, RowInv, RefInv, ActInv, QueuedInv, LiveSteer,
     Outcomes, Idle, MessageSteer, ControlState, InsertAction, NextAction
<1>6. ASSUME NEW w \in Waits, NEW c \in Actions, NEW low, Respond(w, c, low)
      PROVE  QueuedInv'
  BY <1>6 DEF IInv, TypeOK, RowInv, RefInv, ActInv, QueuedInv, LiveSteer,
     Outcomes, Idle, Respond, ControlState, InsertAction, NextAction
<1>7. ASSUME NEW r \in Requests, NEW a \in Attempts, NEW c \in Actions,
             CommitDispatch(r, a, c)
      PROVE  QueuedInv'
  BY <1>7, LiveSteerUnresolved, AttemptsPositive DEF IInv, TypeOK, RowInv,
     RefInv, ActInv, QueuedInv, LiveSteer, Outcomes, Idle, CommitDispatch,
     InsertAction, NextAction, CandidateCurrent, QueueHead, Unheld, Queued,
     NextAttempt, SteerSlotInv, SlotOpen
<1>8. ASSUME NEW c \in Actions, ClaimAction(c)
      PROVE  QueuedInv'
  BY <1>8 DEF IInv, TypeOK, RowInv, RefInv, ActInv, QueuedInv, LiveSteer,
     Outcomes, Idle, ClaimAction, Claimable, LaneActions
<1>9. ASSUME NEW c \in Actions, RequeueDispatch(c)
      PROVE  QueuedInv'
  BY <1>9 DEF IInv, TypeOK, RowInv, RefInv, ActInv, QueuedInv, LiveSteer,
     Outcomes, Idle, RequeueDispatch
<1>10. ASSUME NEW c \in Actions, EnterDispatch(c)
      PROVE  QueuedInv'
  BY <1>10 DEF IInv, TypeOK, RowInv, RefInv, ActInv, QueuedInv, LiveSteer,
     Outcomes, Idle, EnterDispatch, DurableUnchanged
<1>11. ASSUME NEW c \in Actions, StartReturns(c)
      PROVE  QueuedInv'
  BY <1>11 DEF IInv, TypeOK, RowInv, RefInv, ActInv, QueuedInv, LiveSteer,
     Outcomes, Idle, StartReturns, DurableUnchanged, GateInv
<1>12. ASSUME NEW c \in Actions, MarkStarted(c)
      PROVE  QueuedInv'
  <2>1. /\ actAtt[c] \in Attempts /\ attState[actAtt[c]] # "absent"
        /\ attReq[actAtt[c]] \in Requests
    BY <1>12, PerformedAttempt DEF MarkStarted, Idle
  <2> QED BY <1>12, <2>1 DEF IInv, TypeOK, RowInv, RefInv, ActInv, QueuedInv,
     LiveSteer, Outcomes, Idle, GateInv, MarkStarted
<1>13. ASSUME NEW c \in Actions, MarkUnknown(c)
      PROVE  QueuedInv'
  <2>1. /\ actAtt[c] \in Attempts /\ attState[actAtt[c]] # "absent"
        /\ attReq[actAtt[c]] \in Requests
    BY <1>13, PerformedAttempt DEF MarkUnknown, Idle
  <2> QED BY <1>13, <2>1 DEF IInv, TypeOK, RowInv, RefInv, ActInv, QueuedInv,
     LiveSteer, Outcomes, Idle, MarkUnknown, SetAttemptUnknown, OwnsSlot
<1>14. ASSUME NEW c \in Actions, RejectStart(c)
      PROVE  QueuedInv'
  <2>1. /\ actAtt[c] \in Attempts /\ attState[actAtt[c]] # "absent"
        /\ attReq[actAtt[c]] \in Requests
    BY <1>14, PerformedAttempt DEF RejectStart, Idle
  <2> QED BY <1>14, <2>1 DEF IInv, TypeOK, RowInv, RefInv, ActInv, QueuedInv,
     LiveSteer, Outcomes, Idle, RejectStart, OwnsSlot
<1>15. ASSUME NEW c \in Actions, CancelReturns(c)
      PROVE  QueuedInv'
  BY <1>15 DEF IInv, TypeOK, RowInv, RefInv, ActInv, QueuedInv, LiveSteer,
     Outcomes, Idle, CancelReturns, DurableUnchanged
<1>16. ASSUME NEW c \in Actions, SteerReturns(c)
      PROVE  QueuedInv'
  BY <1>16 DEF IInv, TypeOK, RowInv, RefInv, ActInv, QueuedInv, LiveSteer,
     Outcomes, Idle, SteerReturns, DurableUnchanged
<1>17. ASSUME NEW c \in Actions, RespondReturns(c)
      PROVE  QueuedInv'
  BY <1>17 DEF IInv, TypeOK, RowInv, RefInv, ActInv, QueuedInv, LiveSteer,
     Outcomes, Idle, RespondReturns, DurableUnchanged
<1>18. ASSUME NEW c \in Actions, FinishSteer(c)
      PROVE  QueuedInv'
  <2>1. /\ actAtt[c] \in Attempts /\ attState[actAtt[c]] # "absent"
        /\ attReq[actAtt[c]] \in Requests
    BY <1>18, PerformedAttempt DEF FinishSteer, Outcomes, Idle
  <2> QED BY <1>18, <2>1 DEF IInv, TypeOK, RowInv, RefInv, ActInv, QueuedInv,
     LiveSteer, Outcomes, Idle, FinishSteer, SetAttemptUnknown, FinishStep,
     OriginalRequest, SteerOutstanding
<1>19. ASSUME NEW c \in Actions, FinishResponse(c)
      PROVE  QueuedInv'
  <2>1. /\ actAtt[c] \in Attempts /\ attState[actAtt[c]] # "absent"
        /\ attReq[actAtt[c]] \in Requests
    BY <1>19, PerformedAttempt DEF FinishResponse, Outcomes, Idle
  <2> QED BY <1>19, <2>1 DEF IInv, TypeOK, RowInv, RefInv, ActInv, QueuedInv,
     LiveSteer, Outcomes, Idle, FinishResponse, SetAttemptUnknown, FinishStep
<1>20. ASSUME NEW c \in Actions, TransactionLost(c)
      PROVE  QueuedInv'
  BY <1>20 DEF IInv, TypeOK, RowInv, RefInv, ActInv, QueuedInv, LiveSteer,
     Outcomes, Idle, TransactionLost, DurableUnchanged, FinishStep, GateInv
<1>21. ASSUME NEW c \in Actions, FinishAction(c)
      PROVE  QueuedInv'
  BY <1>21 DEF IInv, TypeOK, RowInv, RefInv, ActInv, QueuedInv, LiveSteer,
     Outcomes, Idle, FinishAction
<1>22. ASSUME NEW c \in Actions, RegisterStream(c)
      PROVE  QueuedInv'
  BY <1>22 DEF IInv, TypeOK, RowInv, RefInv, ActInv, QueuedInv, LiveSteer,
     Outcomes, Idle, RegisterStream, DurableUnchanged
<1>23. ASSUME NEW c \in Actions, StreamClosed(c)
      PROVE  QueuedInv'
  BY <1>23 DEF IInv, TypeOK, RowInv, RefInv, ActInv, QueuedInv, LiveSteer,
     Outcomes, Idle, StreamClosed, DurableUnchanged
<1>24. ASSUME NEW c \in Actions, NEW outcome \in TerminalStates,
             NEW effect \in EffectStates, NEW class,
             StreamTerminal(c, outcome, effect, class)
      PROVE  QueuedInv'
  <2>1. /\ actAtt[c] \in Attempts /\ attState[actAtt[c]] # "absent"
        /\ attReq[actAtt[c]] \in Requests
    BY <1>24, PerformedAttempt DEF StreamTerminal, Observing, Idle
  <2> QED BY <1>24, <2>1 DEF IInv, TypeOK, RowInv, RefInv, ActInv, QueuedInv,
     LiveSteer, Outcomes, Idle, StreamTerminal, EndFrame, ProjectTerminal,
     SetAttemptUnknown, TerminalStates, Observing
<1>25. ASSUME NEW c \in Actions, NEW effect \in EffectStates,
             StreamUnknown(c, effect)
      PROVE  QueuedInv'
  <2>1. /\ actAtt[c] \in Attempts /\ attState[actAtt[c]] # "absent"
        /\ attReq[actAtt[c]] \in Requests
    BY <1>25, PerformedAttempt DEF StreamUnknown, Observing, Idle
  <2> QED BY <1>25, <2>1 DEF IInv, TypeOK, RowInv, RefInv, ActInv, QueuedInv,
     LiveSteer, Outcomes, Idle, StreamUnknown, EndFrame, SetAttemptUnknown,
     Observing
<1>26. ASSUME NEW c \in Actions, NEW over, ToolStarted(c, over)
      PROVE  QueuedInv'
  <2>1. /\ actAtt[c] \in Attempts /\ attState[actAtt[c]] # "absent"
        /\ attReq[actAtt[c]] \in Requests
    BY <1>26, PerformedAttempt DEF ToolStarted, InBudget, Observing, Idle
  <2>2. CASE UNCHANGED <<attState, actionVars>>
    BY <1>26, <2>1, <2>2 DEF IInv, TypeOK, RowInv, RefInv, ActInv, QueuedInv,
       LiveSteer, Outcomes, Idle, ToolStarted, EventFrame, InBudget, Observing
  <2>3. ASSUME NEW s \in Actions,
               InsertAction(s, "attempt.stop", actAtt[c], 0),
               attState[actAtt[c]] \in {"running", "waiting_input"},
               attState' = [attState EXCEPT ![actAtt[c]] = "stopping"]
        PROVE  QueuedInv'
    BY <1>26, <2>1, <2>3 DEF IInv, TypeOK, RowInv, RefInv, ActInv, QueuedInv,
       LiveSteer, Outcomes, Idle, ToolStarted, EventFrame, InBudget,
       Observing, InsertAction, NextAction
  <2> QED BY <1>26, <2>2, <2>3 DEF ToolStarted, ChargeOutput
<1>27. ASSUME NEW c \in Actions, NEW over, NEW end,
             ToolCompleted(c, over, end)
      PROVE  QueuedInv'
  <2>1. /\ actAtt[c] \in Attempts /\ attState[actAtt[c]] # "absent"
        /\ attReq[actAtt[c]] \in Requests
    BY <1>27, PerformedAttempt DEF ToolCompleted, InBudget, Observing, Idle
  <2>2. CASE UNCHANGED <<attState, actionVars>>
    BY <1>27, <2>1, <2>2 DEF IInv, TypeOK, RowInv, RefInv, ActInv, QueuedInv,
       LiveSteer, Outcomes, Idle, ToolCompleted, EventFrame, InBudget,
       Observing
  <2>3. ASSUME NEW s \in Actions,
               InsertAction(s, "attempt.stop", actAtt[c], 0),
               attState[actAtt[c]] \in {"running", "waiting_input"},
               attState' = [attState EXCEPT ![actAtt[c]] = "stopping"]
        PROVE  QueuedInv'
    BY <1>27, <2>1, <2>3 DEF IInv, TypeOK, RowInv, RefInv, ActInv, QueuedInv,
       LiveSteer, Outcomes, Idle, ToolCompleted, EventFrame, InBudget,
       Observing, InsertAction, NextAction
  <2> QED BY <1>27, <2>2, <2>3 DEF ToolCompleted, ChargeOutput
<1>28. ASSUME NEW c \in Actions, OutputLimit(c)
      PROVE  QueuedInv'
  <2>1. /\ actAtt[c] \in Attempts /\ attState[actAtt[c]] # "absent"
        /\ attReq[actAtt[c]] \in Requests
    BY <1>28, PerformedAttempt DEF OutputLimit, InBudget, Observing, Idle
  <2>2. CASE UNCHANGED <<attState, actionVars>>
    BY <1>28, <2>1, <2>2 DEF IInv, TypeOK, RowInv, RefInv, ActInv, QueuedInv,
       LiveSteer, Outcomes, Idle, OutputLimit, EventFrame, InBudget, Observing
  <2>3. ASSUME NEW s \in Actions,
               InsertAction(s, "attempt.stop", actAtt[c], 0),
               attState[actAtt[c]] \in {"running", "waiting_input"},
               attState' = [attState EXCEPT ![actAtt[c]] = "stopping"]
        PROVE  QueuedInv'
    BY <1>28, <2>1, <2>3 DEF IInv, TypeOK, RowInv, RefInv, ActInv, QueuedInv,
       LiveSteer, Outcomes, Idle, OutputLimit, EventFrame, InBudget,
       Observing, InsertAction, NextAction
  <2> QED BY <1>28, <2>2, <2>3 DEF OutputLimit, ChargeOutput
<1>29. ASSUME NEW c \in Actions, NEW w \in Waits, NEW over,
             WaitRequested(c, w, over)
      PROVE  QueuedInv'
  <2>1. /\ actAtt[c] \in Attempts /\ attState[actAtt[c]] # "absent"
        /\ attReq[actAtt[c]] \in Requests
    BY <1>29, PerformedAttempt DEF WaitRequested, InBudget, Observing, Idle
  <2>2. CASE UNCHANGED <<attState, actionVars>>
    BY <1>29, <2>1, <2>2 DEF IInv, TypeOK, RowInv, RefInv, ActInv, QueuedInv,
       LiveSteer, Outcomes, Idle, WaitRequested, EventFrame, InBudget,
       Observing, NextWait
  <2>3. ASSUME NEW s \in Actions,
               InsertAction(s, "attempt.stop", actAtt[c], 0),
               attState[actAtt[c]] \in {"running", "waiting_input"},
               attState' = [attState EXCEPT ![actAtt[c]] = "stopping"]
        PROVE  QueuedInv'
    BY <1>29, <2>1, <2>3 DEF IInv, TypeOK, RowInv, RefInv, ActInv, QueuedInv,
       LiveSteer, Outcomes, Idle, WaitRequested, EventFrame, InBudget,
       Observing, InsertAction, NextAction, NextWait
  <2>4. CASE /\ attState' = [attState EXCEPT ![actAtt[c]] = "waiting_input"]
             /\ UNCHANGED <<attOver, actionVars>>
    BY <1>29, <2>1, <2>4 DEF IInv, TypeOK, RowInv, RefInv, ActInv, QueuedInv,
       LiveSteer, Outcomes, Idle, WaitRequested, EventFrame, InBudget,
       Observing, NextWait
  <2> QED BY <1>29, <2>2, <2>3, <2>4 DEF WaitRequested, ChargeOutput
<1>30. ASSUME NEW outcome \in TerminalStates, NEW effect \in EffectStates,
             NEW class, ReconcileApply(outcome, effect, class)
      PROVE  QueuedInv'
  <2>1. /\ reconciling \in Attempts /\ attState[reconciling] # "absent"
        /\ attReq[reconciling] \in Requests
    BY <1>30 DEF IInv, TypeOK, RowInv, ReconcileApply
  <2> QED BY <1>30, <2>1 DEF IInv, TypeOK, RowInv, RefInv, ActInv, QueuedInv,
     LiveSteer, Outcomes, Idle, ReconcileApply, EndFrame, ProjectTerminal,
     SetAttemptUnknown, TerminalStates, CancelStream
<1>31. CASE Restart
  <2>1. active # 0 => /\ active \in Attempts /\ attState[active] # "absent"
                      /\ attReq[active] \in Requests
    BY DEF IInv, TypeOK, RowInv, SlotInv, ActiveStates
  <2> QED BY <1>31, <2>1 DEF IInv, TypeOK, RowInv, RefInv, ActInv, QueuedInv,
     LiveSteer, Outcomes, Idle, Restart, RecoverActive, SetAttemptUnknown
<1>32. CASE UNCHANGED <<actionVars, pc, msgDisp, reqStatus,
                       reqMsg>>
  BY <1>32 DEF QueuedInv, LiveSteer
<1>33. CASE CommandStep
  BY <1>33, <1>1, <1>2, <1>3, <1>4, <1>5, <1>6, <1>32 DEF CommandStep,
     DialogCreate, QueueResume
<1>34. CASE LoopStep
  BY <1>34, <1>7, <1>32 DEF LoopStep, PeekDispatch, BlockPolicy, DropCandidate
<1>35. ASSUME NEW c \in Actions, WorkerStep(c) PROVE QueuedInv'
  BY <1>35, <1>9, <1>10, <1>11, <1>12, <1>13, <1>14, <1>15, <1>16, <1>17,
     <1>18, <1>19, <1>20, <1>21, <1>32 DEF WorkerStep, IssueTurn,
     DurableUnchanged
<1>36. ASSUME NEW c \in Actions, StreamEnds(c) PROVE QueuedInv'
  BY <1>36, <1>22, <1>23, <1>24, <1>25 DEF StreamEnds
<1>37. ASSUME NEW c \in Actions, StreamEvent(c) PROVE QueuedInv'
  BY <1>37, <1>26, <1>27, <1>28, <1>29, <1>32 DEF StreamEvent, EnterWaiting,
     EventFrame
<1>38. CASE ReconcileStep
  BY <1>38, StateValues, <1>30, <1>32 DEF ReconcileStep, ReconcileBegin,
     ReconcileNone, DurableUnchanged
<1>39. CASE ProviderStep
  BY <1>39, <1>32 DEF ProviderStep, ProviderStarts, ProviderEnds,
     DurableUnchanged
<1>40. CASE BarrierStep
  BY <1>40, <1>32 DEF BarrierStep, InstallHold, ReleaseHold,
     DeleteLogicalDialog, BeginSettings, SettingsSwap, SettingsRelease,
     SetSettingsReady, ProviderAuthStart, ProviderAuthCheck,
     ProviderAuthSettles, RowsUnchanged, SettingsFrame, AuthFrame
<1>41. CASE UNCHANGED vars
  BY <1>41, <1>32 DEF vars
<1> QED BY <1>33, <1>34, <1>8, <1>35, <1>36, <1>37, <1>38, <1>39, <1>40,
   <1>31, <1>41 DEF Next

-----------------------------------------------------------------------------
\* The slot and its rows.

\* The request of the attempt in the slot has the status that goes with the
\* attempt's state, and an unknown attempt is announced.
StatusInv ==
  /\ (occupancy = "idle") <=> (active = 0)
  /\ \A a \in Attempts :
       LET status == reqStatus[attReq[a]] IN
       /\ attState[a] = "dispatching" => status = "dispatching"
       /\ attState[a] \in {"running", "waiting_input"} => status = "active"
       /\ attState[a] = "stopping" => status \in {"dispatching", "active"}
       /\ attState[a] = "unknown" =>
            status = "unknown" /\ "execution_unknown" \in reasons

\* The slot is free at first.
LEMMA StatusInit == InitStore => StatusInv
BY DEF InitStore, StatusInv

\* Every transaction moves the slot and its rows together.
LEMMA StatusNext ==
  ASSUME IInv, RefInv, QueuedInv, StatusInv, [Next]_vars
  PROVE  StatusInv'
<1>1. ASSUME NEW d \in Dialogs, NEW m \in Messages, NEW r \in Requests,
             MessageEnqueue(d, m, r)
      PROVE  StatusInv'
  BY <1>1 DEF IInv, TypeOK, RowInv, SlotInv, ActiveStates, RefInv, StatusInv,
     MessageEnqueue, NextMessage, NextRequest
<1>2. ASSUME NEW r \in Requests, NEW low, RequestCancel(r, low)
      PROVE  StatusInv'
  BY <1>2 DEF IInv, TypeOK, RowInv, SlotInv, ActiveStates, RefInv, StatusInv,
     RequestCancel, ControlState
<1>3. ASSUME NEW low, QueueResume(low)
      PROVE  StatusInv'
  BY <1>3 DEF IInv, TypeOK, RowInv, SlotInv, ActiveStates, RefInv, StatusInv,
     QueueResume, ControlState
<1>4. ASSUME NEW a \in Attempts, NEW c \in Actions, NEW low,
             AttemptStop(a, c, low)
      PROVE  StatusInv'
  BY <1>4 DEF IInv, TypeOK, RowInv, SlotInv, ActiveStates, RefInv, StatusInv,
     AttemptStop, ControlState, InsertAction, NextAction
<1>5. ASSUME NEW a \in Attempts, NEW ack, NEW r \in Requests,
             AttemptRetry(a, ack, r)
      PROVE  StatusInv'
  BY <1>5 DEF IInv, TypeOK, RowInv, SlotInv, ActiveStates, RefInv, StatusInv,
     AttemptRetry, NextRequest, Retryable, MessageOfAttempt
<1>6. ASSUME NEW m \in Messages, NEW a \in Attempts, NEW c \in Actions,
             NEW low, MessageSteer(m, a, c, low)
      PROVE  StatusInv'
  BY <1>6 DEF IInv, TypeOK, RowInv, SlotInv, ActiveStates, RefInv, StatusInv,
     MessageSteer, ControlState, InsertAction, NextAction
<1>7. ASSUME NEW w \in Waits, NEW c \in Actions, NEW low, Respond(w, c, low)
      PROVE  StatusInv'
  BY <1>7 DEF IInv, TypeOK, RowInv, SlotInv, ActiveStates, RefInv, StatusInv,
     Respond, ControlState, InsertAction, NextAction
<1>8. CASE BlockPolicy
  BY <1>8 DEF IInv, TypeOK, RowInv, SlotInv, ActiveStates, RefInv, StatusInv,
     BlockPolicy
<1>9. ASSUME NEW r \in Requests, NEW a \in Attempts, NEW c \in Actions,
             CommitDispatch(r, a, c)
      PROVE  StatusInv'
  BY <1>9, AttemptsPositive DEF IInv, TypeOK, RowInv, SlotInv, ActiveStates,
     RefInv, StatusInv, CommitDispatch, InsertAction, NextAction,
     CandidateCurrent, QueueHead, Unheld, Queued, NextAttempt, SlotOpen
<1>10. ASSUME NEW c \in Actions, MarkStarted(c)
      PROVE  StatusInv'
  <2>1. /\ actAtt[c] \in Attempts /\ attState[actAtt[c]] # "absent"
        /\ attReq[actAtt[c]] \in Requests
    BY <1>10, PerformedAttempt DEF MarkStarted, Idle
  <2> QED BY <1>10, <2>1, AttemptsPositive DEF IInv, TypeOK, RowInv, SlotInv,
     ActiveStates, RefInv, StatusInv, MarkStarted
<1>11. ASSUME NEW c \in Actions, MarkUnknown(c)
      PROVE  StatusInv'
  <2>1. /\ actAtt[c] \in Attempts /\ attState[actAtt[c]] # "absent"
        /\ attReq[actAtt[c]] \in Requests
    BY <1>11, PerformedAttempt DEF MarkUnknown, Idle
  <2> QED BY <1>11, <2>1, AttemptsPositive DEF IInv, TypeOK, RowInv, SlotInv,
     ActiveStates, RefInv, StatusInv, MarkUnknown, SetAttemptUnknown, OwnsSlot
<1>12. ASSUME NEW c \in Actions, RejectStart(c)
      PROVE  StatusInv'
  <2>1. /\ actAtt[c] \in Attempts /\ attState[actAtt[c]] # "absent"
        /\ attReq[actAtt[c]] \in Requests
    BY <1>12, PerformedAttempt DEF RejectStart, Idle
  <2> QED BY <1>12, <2>1, AttemptsPositive DEF IInv, TypeOK, RowInv, SlotInv,
     ActiveStates, RefInv, StatusInv, RejectStart, OwnsSlot
<1>13. ASSUME NEW c \in Actions, FinishSteer(c)
      PROVE  StatusInv'
  <2>1. /\ actAtt[c] \in Attempts /\ attState[actAtt[c]] # "absent"
        /\ attReq[actAtt[c]] \in Requests
    BY <1>13, PerformedAttempt DEF FinishSteer, Outcomes, Idle
  <2> QED BY <1>13, <2>1, AttemptsPositive, IndexGuardsSlot DEF IInv, TypeOK,
     RowInv, SlotInv, ActiveStates, RefInv, StatusInv, QueuedInv, LiveSteer,
     FinishSteer, SetAttemptUnknown, FinishStep, Outcomes, OriginalRequest,
     SteerOutstanding
<1>14. ASSUME NEW c \in Actions, FinishResponse(c)
      PROVE  StatusInv'
  <2>1. /\ actAtt[c] \in Attempts /\ attState[actAtt[c]] # "absent"
        /\ attReq[actAtt[c]] \in Requests
    BY <1>14, PerformedAttempt DEF FinishResponse, Outcomes, Idle
  <2> QED BY <1>14, <2>1, AttemptsPositive, IndexGuardsSlot DEF IInv, TypeOK,
     RowInv, SlotInv, ActiveStates, RefInv, StatusInv, FinishResponse,
     SetAttemptUnknown, FinishStep, Outcomes
<1>15. ASSUME NEW c \in Actions, NEW outcome \in TerminalStates,
             NEW effect \in EffectStates, NEW class,
             StreamTerminal(c, outcome, effect, class)
      PROVE  StatusInv'
  <2>1. /\ actAtt[c] \in Attempts /\ attState[actAtt[c]] # "absent"
        /\ attReq[actAtt[c]] \in Requests
    BY <1>15, PerformedAttempt DEF StreamTerminal, Observing, Idle
  <2> QED BY <1>15, <2>1, AttemptsPositive DEF IInv, TypeOK, RowInv, SlotInv,
     ActiveStates, RefInv, StatusInv, StreamTerminal, EndFrame,
     ProjectTerminal, SetAttemptUnknown, TerminalStates, Observing
<1>16. ASSUME NEW c \in Actions, NEW effect \in EffectStates,
             StreamUnknown(c, effect)
      PROVE  StatusInv'
  <2>1. /\ actAtt[c] \in Attempts /\ attState[actAtt[c]] # "absent"
        /\ attReq[actAtt[c]] \in Requests
    BY <1>16, PerformedAttempt DEF StreamUnknown, Observing, Idle
  <2> QED BY <1>16, <2>1, AttemptsPositive DEF IInv, TypeOK, RowInv, SlotInv,
     ActiveStates, RefInv, StatusInv, StreamUnknown, EndFrame,
     SetAttemptUnknown, Observing
<1>17. ASSUME NEW c \in Actions, NEW over, ToolStarted(c, over)
      PROVE  StatusInv'
  <2>1. /\ actAtt[c] \in Attempts /\ attState[actAtt[c]] # "absent"
        /\ attReq[actAtt[c]] \in Requests
    BY <1>17, PerformedAttempt DEF ToolStarted, InBudget, Observing, Idle
  <2>2. CASE UNCHANGED <<attState, actionVars>>
    BY <1>17, <2>1, <2>2 DEF IInv, TypeOK, RowInv, SlotInv, ActiveStates, RefInv,
       StatusInv, ToolStarted, EventFrame, InBudget, Observing
  <2>3. ASSUME NEW s \in Actions,
               InsertAction(s, "attempt.stop", actAtt[c], 0),
               attState[actAtt[c]] \in {"running", "waiting_input"},
               attState' = [attState EXCEPT ![actAtt[c]] = "stopping"]
        PROVE  StatusInv'
    BY <1>17, <2>1, <2>3 DEF IInv, TypeOK, RowInv, SlotInv, ActiveStates, RefInv,
       StatusInv, ToolStarted, EventFrame, InBudget, Observing, InsertAction,
       NextAction
  <2> QED BY <1>17, <2>2, <2>3 DEF ToolStarted, ChargeOutput
<1>18. ASSUME NEW c \in Actions, NEW over, NEW end,
             ToolCompleted(c, over, end)
      PROVE  StatusInv'
  <2>1. /\ actAtt[c] \in Attempts /\ attState[actAtt[c]] # "absent"
        /\ attReq[actAtt[c]] \in Requests
    BY <1>18, PerformedAttempt DEF ToolCompleted, InBudget, Observing, Idle
  <2>2. CASE UNCHANGED <<attState, actionVars>>
    BY <1>18, <2>1, <2>2 DEF IInv, TypeOK, RowInv, SlotInv, ActiveStates, RefInv,
       StatusInv, ToolCompleted, EventFrame, InBudget, Observing
  <2>3. ASSUME NEW s \in Actions,
               InsertAction(s, "attempt.stop", actAtt[c], 0),
               attState[actAtt[c]] \in {"running", "waiting_input"},
               attState' = [attState EXCEPT ![actAtt[c]] = "stopping"]
        PROVE  StatusInv'
    BY <1>18, <2>1, <2>3 DEF IInv, TypeOK, RowInv, SlotInv, ActiveStates, RefInv,
       StatusInv, ToolCompleted, EventFrame, InBudget, Observing,
       InsertAction, NextAction
  <2> QED BY <1>18, <2>2, <2>3 DEF ToolCompleted, ChargeOutput
<1>19. ASSUME NEW c \in Actions, OutputLimit(c)
      PROVE  StatusInv'
  <2>1. /\ actAtt[c] \in Attempts /\ attState[actAtt[c]] # "absent"
        /\ attReq[actAtt[c]] \in Requests
    BY <1>19, PerformedAttempt DEF OutputLimit, InBudget, Observing, Idle
  <2>2. CASE UNCHANGED <<attState, actionVars>>
    BY <1>19, <2>1, <2>2 DEF IInv, TypeOK, RowInv, SlotInv, ActiveStates, RefInv,
       StatusInv, OutputLimit, EventFrame, InBudget, Observing
  <2>3. ASSUME NEW s \in Actions,
               InsertAction(s, "attempt.stop", actAtt[c], 0),
               attState[actAtt[c]] \in {"running", "waiting_input"},
               attState' = [attState EXCEPT ![actAtt[c]] = "stopping"]
        PROVE  StatusInv'
    BY <1>19, <2>1, <2>3 DEF IInv, TypeOK, RowInv, SlotInv, ActiveStates, RefInv,
       StatusInv, OutputLimit, EventFrame, InBudget, Observing, InsertAction,
       NextAction
  <2> QED BY <1>19, <2>2, <2>3 DEF OutputLimit, ChargeOutput
<1>20. ASSUME NEW c \in Actions, EnterWaiting(c)
      PROVE  StatusInv'
  <2>1. /\ actAtt[c] \in Attempts /\ attState[actAtt[c]] # "absent"
        /\ attReq[actAtt[c]] \in Requests
    BY <1>20, PerformedAttempt DEF EnterWaiting, Observing, Idle
  <2> QED BY <1>20, <2>1, AttemptsPositive DEF IInv, TypeOK, RowInv, SlotInv,
     ActiveStates, RefInv, StatusInv, EnterWaiting, EventFrame, Observing
<1>21. ASSUME NEW c \in Actions, NEW w \in Waits, NEW over,
             WaitRequested(c, w, over)
      PROVE  StatusInv'
  <2>1. /\ actAtt[c] \in Attempts /\ attState[actAtt[c]] # "absent"
        /\ attReq[actAtt[c]] \in Requests
    BY <1>21, PerformedAttempt DEF WaitRequested, InBudget, Observing, Idle
  <2>2. CASE UNCHANGED <<attState, actionVars>>
    BY <1>21, <2>1, <2>2 DEF IInv, TypeOK, RowInv, SlotInv, ActiveStates, RefInv,
       StatusInv, WaitRequested, EventFrame, InBudget, Observing, NextWait
  <2>3. ASSUME NEW s \in Actions,
               InsertAction(s, "attempt.stop", actAtt[c], 0),
               attState[actAtt[c]] \in {"running", "waiting_input"},
               attState' = [attState EXCEPT ![actAtt[c]] = "stopping"]
        PROVE  StatusInv'
    BY <1>21, <2>1, <2>3 DEF IInv, TypeOK, RowInv, SlotInv, ActiveStates, RefInv,
       StatusInv, WaitRequested, EventFrame, InBudget, Observing,
       InsertAction, NextAction, NextWait
  <2>4. CASE /\ attState' = [attState EXCEPT ![actAtt[c]] = "waiting_input"]
             /\ UNCHANGED <<attOver, actionVars>>
    BY <1>21, <2>1, <2>4 DEF IInv, TypeOK, RowInv, SlotInv, ActiveStates, RefInv,
       StatusInv, WaitRequested, EventFrame, InBudget, Observing, NextWait
  <2> QED BY <1>21, <2>2, <2>3, <2>4 DEF WaitRequested, ChargeOutput
<1>22. ASSUME NEW outcome \in TerminalStates, NEW effect \in EffectStates,
             NEW class, ReconcileApply(outcome, effect, class)
      PROVE  StatusInv'
  <2>1. /\ reconciling \in Attempts /\ attState[reconciling] # "absent"
        /\ attReq[reconciling] \in Requests
    BY <1>22 DEF IInv, TypeOK, RowInv, ReconcileApply
  <2> QED BY <1>22, <2>1, AttemptsPositive DEF IInv, TypeOK, RowInv, SlotInv,
     ActiveStates, RefInv, StatusInv, ReconcileApply, EndFrame,
     ProjectTerminal, SetAttemptUnknown, TerminalStates, CancelStream
<1>23. CASE Restart
  <2>1. active # 0 => /\ active \in Attempts /\ attState[active] # "absent"
                      /\ attReq[active] \in Requests
    BY DEF IInv, TypeOK, RowInv, SlotInv, ActiveStates
  <2> QED BY <1>23, <2>1, AttemptsPositive DEF IInv, TypeOK, RowInv, SlotInv,
     ActiveStates, RefInv, StatusInv, Restart, RecoverActive,
     SetAttemptUnknown
<1>24. CASE UNCHANGED <<attState, attReq, reqStatus, reasons,
                       occupancy, active>>
  BY <1>24 DEF StatusInv
<1>25. CASE CommandStep
  BY <1>25, <1>1, <1>2, <1>3, <1>4, <1>5, <1>6, <1>7, <1>24 DEF CommandStep,
     DialogCreate
<1>26. CASE LoopStep
  BY <1>26, <1>8, <1>9, <1>24 DEF LoopStep, PeekDispatch, DropCandidate
<1>27. ASSUME NEW c \in Actions, ClaimAction(c) PROVE StatusInv'
  BY <1>27, <1>24 DEF ClaimAction
<1>28. ASSUME NEW c \in Actions, WorkerStep(c) PROVE StatusInv'
  BY <1>28, <1>10, <1>11, <1>12, <1>13, <1>14, <1>24 DEF WorkerStep,
     RequeueDispatch, EnterDispatch, IssueTurn, StartReturns, CancelReturns,
     SteerReturns, RespondReturns, TransactionLost, FinishAction,
     DurableUnchanged
<1>29. ASSUME NEW c \in Actions, StreamEnds(c) PROVE StatusInv'
  BY <1>29, <1>15, <1>16, <1>24 DEF StreamEnds, RegisterStream, StreamClosed,
     DurableUnchanged
<1>30. ASSUME NEW c \in Actions, StreamEvent(c) PROVE StatusInv'
  BY <1>30, <1>17, <1>18, <1>19, <1>20, <1>21 DEF StreamEvent
<1>31. CASE ReconcileStep
  BY <1>31, StateValues, <1>22, <1>24 DEF ReconcileStep, ReconcileBegin,
     ReconcileNone, DurableUnchanged
<1>32. CASE ProviderStep
  BY <1>32, <1>24 DEF ProviderStep, ProviderStarts, ProviderEnds,
     DurableUnchanged
<1>33. CASE BarrierStep
  BY <1>33, <1>24 DEF BarrierStep, InstallHold, ReleaseHold,
     DeleteLogicalDialog, BeginSettings, SettingsSwap, SettingsRelease,
     SetSettingsReady, ProviderAuthStart, ProviderAuthCheck,
     ProviderAuthSettles, RowsUnchanged, SettingsFrame, AuthFrame
<1>34. CASE UNCHANGED vars
  BY <1>34, <1>24 DEF vars
<1> QED BY <1>25, <1>26, <1>27, <1>28, <1>29, <1>30, <1>31, <1>32, <1>33,
   <1>23, <1>34 DEF Next

-----------------------------------------------------------------------------
\* The counter and the queue.

\* Request rows are finitely many.
LEMMA QueueFinite == IsFiniteSet(Queued) /\ Cardinality(Queued) \in Nat
<1>1. IsFiniteSet(Requests)
  BY FS_Interval, BoundsAssumption DEF Requests
<1>2. Queued \in SUBSET Requests
  BY DEF Queued
<1> QED BY <1>1, <1>2, FS_Subset, FS_CardinalityType

\* A request joins the queue.
LEMMA QueueGrows ==
  ASSUME NEW r \in Requests, r \notin Queued, Queued' = Queued \cup {r}
  PROVE  Cardinality(Queued)' = Cardinality(Queued) + 1
BY QueueFinite, FS_AddElement

\* A request leaves the queue.
LEMMA QueueShrinks ==
  ASSUME NEW r \in Requests, r \in Queued, Queued' = Queued \ {r}
  PROVE  /\ Cardinality(Queued)' = Cardinality(Queued) - 1
BY QueueFinite, FS_RemoveElement

\* No request is queued at first.
LEMMA PendingInit == InitStore => PendingCountsQueue
<1> SUFFICES ASSUME InitStore PROVE PendingCountsQueue
  OBVIOUS
<1>1. Queued = {}
  BY DEF InitStore, Queued
<1>2. pending = 0
  BY DEF InitStore
<1> QED BY <1>1, <1>2, FS_EmptySet, BoundsAssumption DEF PendingCountsQueue

\* Every transaction that queues a request, or takes one from the queue, counts
\* it.
LEMMA PendingStep ==
  ASSUME IInv, PendingCountsQueue,
         \/ /\ UNCHANGED <<Queued, pending>>
         \/ \E r \in Requests : /\ r \notin Queued /\ Queued' = Queued \cup {r}
                                /\ pending' = pending + 1
                                /\ QueueHasRoom
         \/ \E r \in Requests : /\ r \in Queued /\ Queued' = Queued \ {r}
                                /\ pending' = pending - 1
  PROVE  PendingCountsQueue'
<1>1. /\ pending = Cardinality(Queued) /\ Cardinality(Queued) \in Nat
      /\ QueueCapacity \in Nat /\ pending <= QueueCapacity
  BY QueueFinite, BoundsAssumption DEF PendingCountsQueue
<1>2. CASE UNCHANGED <<Queued, pending>>
  BY <1>1, <1>2 DEF PendingCountsQueue
<1>3. ASSUME NEW r \in Requests, r \notin Queued, Queued' = Queued \cup {r},
             pending' = pending + 1, QueueHasRoom
      PROVE  PendingCountsQueue'
  BY <1>1, <1>3, QueueGrows DEF PendingCountsQueue, QueueHasRoom
<1>4. ASSUME NEW r \in Requests, r \in Queued, Queued' = Queued \ {r},
             pending' = pending - 1
      PROVE  PendingCountsQueue'
  BY <1>1, <1>4, QueueShrinks DEF PendingCountsQueue
<1> QED BY <1>2, <1>3, <1>4

\* The counter follows the queue through every transaction.
LEMMA PendingNext ==
  ASSUME IInv, RefInv, QueuedInv, PendingCountsQueue, [Next]_vars
  PROVE  PendingCountsQueue'
<1>1. ASSUME NEW d \in Dialogs, NEW m \in Messages, NEW r \in Requests,
             MessageEnqueue(d, m, r)
      PROVE  PendingCountsQueue'
  <2>1. /\ r \notin Queued /\ Queued' = Queued \cup {r}
        /\ pending' = pending + 1 /\ QueueHasRoom
    BY <1>1 DEF IInv, TypeOK, Queued, MessageEnqueue, NextMessage, NextRequest
  <2> QED BY <2>1, PendingStep
<1>2. ASSUME NEW r \in Requests, NEW low, RequestCancel(r, low)
      PROVE  PendingCountsQueue'
  <2>1. /\ r \in Queued /\ Queued' = Queued \ {r}
        /\ pending' = pending - 1
    BY <1>2 DEF IInv, TypeOK, Queued, RequestCancel, ControlState
  <2> QED BY <2>1, PendingStep
<1>3. ASSUME NEW a \in Attempts, NEW ack, NEW r \in Requests,
             AttemptRetry(a, ack, r)
      PROVE  PendingCountsQueue'
  <2>1. /\ r \notin Queued /\ Queued' = Queued \cup {r}
        /\ pending' = pending + 1 /\ QueueHasRoom
    BY <1>3 DEF IInv, TypeOK, Queued, AttemptRetry, NextRequest, Retryable,
       MessageOfAttempt
  <2> QED BY <2>1, PendingStep
<1>4. ASSUME NEW r \in Requests, NEW a \in Attempts, NEW c \in Actions,
             CommitDispatch(r, a, c)
      PROVE  PendingCountsQueue'
  <2>1. /\ r \in Queued /\ Queued' = Queued \ {r}
        /\ pending' = pending - 1
    BY <1>4 DEF IInv, TypeOK, Queued, CommitDispatch, InsertAction, NextAction,
       CandidateCurrent, QueueHead, Unheld, NextAttempt
  <2> QED BY <2>1, PendingStep
<1>5. ASSUME NEW c \in Actions, MarkStarted(c)
      PROVE  PendingCountsQueue'
  <2>1. /\ actAtt[c] \in Attempts /\ attState[actAtt[c]] # "absent"
        /\ attReq[actAtt[c]] \in Requests
    BY <1>5, PerformedAttempt DEF MarkStarted, Idle
  <2>2. UNCHANGED <<Queued, pending>>
    BY <1>5, <2>1 DEF IInv, TypeOK, RowInv, RefInv, Queued, MarkStarted
  <2> QED BY <2>2, PendingStep
<1>6. ASSUME NEW c \in Actions, MarkUnknown(c)
      PROVE  PendingCountsQueue'
  <2>1. /\ actAtt[c] \in Attempts /\ attState[actAtt[c]] # "absent"
        /\ attReq[actAtt[c]] \in Requests
    BY <1>6, PerformedAttempt DEF MarkUnknown, Idle
  <2>2. UNCHANGED <<Queued, pending>>
    BY <1>6, <2>1 DEF IInv, TypeOK, RowInv, RefInv, Queued, MarkUnknown,
       SetAttemptUnknown, OwnsSlot
  <2> QED BY <2>2, PendingStep
<1>7. ASSUME NEW c \in Actions, RejectStart(c)
      PROVE  PendingCountsQueue'
  <2>1. /\ actAtt[c] \in Attempts /\ attState[actAtt[c]] # "absent"
        /\ attReq[actAtt[c]] \in Requests
    BY <1>7, PerformedAttempt DEF RejectStart, Idle
  <2>2. UNCHANGED <<Queued, pending>>
    BY <1>7, <2>1 DEF IInv, TypeOK, RowInv, RefInv, Queued, RejectStart,
       OwnsSlot
  <2> QED BY <2>2, PendingStep
<1>8. ASSUME NEW c \in Actions, FinishResponse(c)
      PROVE  PendingCountsQueue'
  <2>1. /\ actAtt[c] \in Attempts /\ attState[actAtt[c]] # "absent"
        /\ attReq[actAtt[c]] \in Requests
    BY <1>8, PerformedAttempt DEF FinishResponse, Outcomes, Idle
  <2>2. UNCHANGED <<Queued, pending>>
    BY <1>8, <2>1 DEF IInv, TypeOK, RowInv, RefInv, Queued,
       FinishResponse, SetAttemptUnknown, FinishStep, Outcomes
  <2> QED BY <2>2, PendingStep
<1>9. ASSUME NEW c \in Actions, NEW outcome \in TerminalStates,
             NEW effect \in EffectStates, NEW class,
             StreamTerminal(c, outcome, effect, class)
      PROVE  PendingCountsQueue'
  <2>1. /\ actAtt[c] \in Attempts /\ attState[actAtt[c]] # "absent"
        /\ attReq[actAtt[c]] \in Requests
    BY <1>9, PerformedAttempt DEF StreamTerminal, Observing, Idle
  <2>2. UNCHANGED <<Queued, pending>>
    BY <1>9, <2>1 DEF IInv, TypeOK, RowInv, RefInv, Queued,
       StreamTerminal, EndFrame, ProjectTerminal, SetAttemptUnknown,
       TerminalStates, Observing
  <2> QED BY <2>2, PendingStep
<1>10. ASSUME NEW c \in Actions, NEW effect \in EffectStates,
             StreamUnknown(c, effect)
      PROVE  PendingCountsQueue'
  <2>1. /\ actAtt[c] \in Attempts /\ attState[actAtt[c]] # "absent"
        /\ attReq[actAtt[c]] \in Requests
    BY <1>10, PerformedAttempt DEF StreamUnknown, Observing, Idle
  <2>2. UNCHANGED <<Queued, pending>>
    BY <1>10, <2>1 DEF IInv, TypeOK, RowInv, RefInv, Queued, StreamUnknown,
       EndFrame, SetAttemptUnknown, Observing
  <2> QED BY <2>2, PendingStep
<1>11. ASSUME NEW outcome \in TerminalStates, NEW effect \in EffectStates,
             NEW class, ReconcileApply(outcome, effect, class)
      PROVE  PendingCountsQueue'
  <2>1. /\ reconciling \in Attempts /\ attState[reconciling] # "absent"
        /\ attReq[reconciling] \in Requests
    BY <1>11 DEF IInv, TypeOK, RowInv, ReconcileApply
  <2>2. UNCHANGED <<Queued, pending>>
    BY <1>11, <2>1 DEF IInv, TypeOK, RowInv, RefInv, Queued,
       ReconcileApply, EndFrame, ProjectTerminal, SetAttemptUnknown,
       TerminalStates, CancelStream
  <2> QED BY <2>2, PendingStep
<1>12. CASE Restart
  <2>1. active # 0 => /\ active \in Attempts /\ attState[active] # "absent"
                      /\ attReq[active] \in Requests
    BY DEF IInv, TypeOK, RowInv, SlotInv, ActiveStates
  <2>2. UNCHANGED <<Queued, pending>>
    BY <1>12, <2>1 DEF IInv, TypeOK, RowInv, RefInv, Queued, Restart,
       RecoverActive, SetAttemptUnknown
  <2> QED BY <2>2, PendingStep
<1>13. ASSUME NEW c \in Actions, FinishSteer(c)
      PROVE  PendingCountsQueue'
  <2>1. /\ actAtt[c] \in Attempts /\ attState[actAtt[c]] # "absent"
        /\ attReq[actAtt[c]] \in Requests
    BY <1>13, PerformedAttempt DEF FinishSteer, Outcomes, Idle
  <2>2. CASE pc[c] \in {"applied", "uncertain"} /\ pending' # pending
    <3>1. PICK r \in Requests :
            /\ OriginalRequest(actObj[c], r) /\ SteerOutstanding(actObj[c])
            /\ pending' = pending - 1
            /\ \/ reqStatus' = [reqStatus EXCEPT ![r] = "completed"]
               \/ SetAttemptUnknown(actAtt[c], "unknown",
                                    [reqStatus EXCEPT ![r] = "unknown"])
      BY <1>13, <2>2 DEF FinishSteer
    <3>2. reqStatus[r] = "queued"
      BY <1>13, <3>1 DEF FinishSteer, QueuedInv, LiveSteer, SteerOutstanding,
         OriginalRequest
    <3>3. r \in Queued /\ Queued' = Queued \ {r}
      BY <2>1, <3>1, <3>2 DEF IInv, TypeOK, RefInv, Queued, SetAttemptUnknown
    <3> QED BY <3>1, <3>3, PendingStep
  <2>3. CASE ~(pc[c] \in {"applied", "uncertain"} /\ pending' # pending)
    <3>1. pending \in Int
      BY DEF IInv, TypeOK
    <3>2. UNCHANGED <<reqStatus, pending>>
      BY <1>13, <2>3, <3>1 DEF FinishSteer, Outcomes
    <3> QED BY <3>2, PendingStep DEF Queued
  <2> QED BY <2>2, <2>3
<1>14. CASE UNCHANGED <<reqStatus, pending>>
  BY <1>14 DEF PendingCountsQueue, Queued
<1>15. CASE CommandStep
  BY <1>15, <1>1, <1>2, <1>3, <1>14 DEF CommandStep, DialogCreate,
     QueueResume, AttemptStop, MessageSteer, Respond
<1>16. CASE LoopStep
  BY <1>16, <1>4, <1>14 DEF LoopStep, PeekDispatch, BlockPolicy, DropCandidate
<1>17. ASSUME NEW c \in Actions, ClaimAction(c) PROVE PendingCountsQueue'
  BY <1>17, <1>14 DEF ClaimAction
<1>18. ASSUME NEW c \in Actions, WorkerStep(c) PROVE PendingCountsQueue'
  BY <1>18, <1>5, <1>6, <1>7, <1>13, <1>8, <1>14 DEF WorkerStep,
     RequeueDispatch, EnterDispatch, IssueTurn, StartReturns, CancelReturns,
     SteerReturns, RespondReturns, TransactionLost, FinishAction,
     DurableUnchanged
<1>19. ASSUME NEW c \in Actions, StreamEnds(c) PROVE PendingCountsQueue'
  BY <1>19, <1>9, <1>10, <1>14 DEF StreamEnds, RegisterStream, StreamClosed,
     DurableUnchanged
<1>20. ASSUME NEW c \in Actions, StreamEvent(c) PROVE PendingCountsQueue'
  BY <1>20, <1>14 DEF StreamEvent, ToolStarted, ToolCompleted, OutputLimit,
     EnterWaiting, WaitRequested, EventFrame
<1>21. CASE ReconcileStep
  BY <1>21, StateValues, <1>11, <1>14 DEF ReconcileStep, ReconcileBegin,
     ReconcileNone, DurableUnchanged
<1>22. CASE ProviderStep
  BY <1>22, <1>14 DEF ProviderStep, ProviderStarts, ProviderEnds,
     DurableUnchanged
<1>23. CASE BarrierStep
  BY <1>23, <1>14 DEF BarrierStep, InstallHold, ReleaseHold,
     DeleteLogicalDialog, BeginSettings, SettingsSwap, SettingsRelease,
     SetSettingsReady, ProviderAuthStart, ProviderAuthCheck,
     ProviderAuthSettles, RowsUnchanged, SettingsFrame, AuthFrame
<1>24. CASE UNCHANGED vars
  BY <1>24, <1>14 DEF vars
<1> QED BY <1>15, <1>16, <1>17, <1>18, <1>19, <1>20, <1>21, <1>22, <1>23,
   <1>12, <1>24 DEF Next

-----------------------------------------------------------------------------
\* The rows together.

\* What holds of slot, queue and their rows, besides the invariants above.
RowsInv == SteerSlotInv /\ QueuedInv /\ StatusInv /\ PendingCountsQueue

\* Slot, queue and rows are consistent in every reachable state.
THEOREM RowsInvariance == Spec => []RowsInv
<1>1. InitStore => RowsInv
  BY SteerSlotInit, QueuedInit, StatusInit, PendingInit DEF RowsInv
<1>2. IInv /\ RefInv /\ ActInv /\ StageInv /\ RowsInv /\ [Next]_vars => RowsInv'
  BY SteerSlotNext, QueuedNext, StatusNext, PendingNext DEF RowsInv
<1> QED BY <1>1, <1>2, Invariance, RefInvariance, ActInvariance,
    StageInvariance, PTL DEF Spec

\* node_state and the rows agree after every transaction: the slot names the
\* active attempt and its request has the status that goes with it, and
\* pending_count, which five handlers adjust, is the number of queued requests
\* within the capacity.
THEOREM RowsInAgreement == Spec => []RowsAgree
<1>1. IInv /\ RowsInv => RowsAgree
  <2> SUFFICES ASSUME IInv, RowsInv PROVE SlotMatchesRows
    BY DEF RowsInv, RowsAgree
  <2>1. \A a \in Attempts : attState[a] \in ActiveStates <=> active = a
    BY DEF IInv, SlotInv
  <2>2. (occupancy = "idle") <=> (active = 0)
    BY DEF RowsInv, StatusInv
  <2>3. ASSUME active # 0
        PROVE  LET status == reqStatus[attReq[active]] IN
               CASE attState[active] = "dispatching" -> status = "dispatching"
                 [] attState[active] = "stopping"    ->
                      status \in {"dispatching", "active"}
                 [] attState[active] = "unknown"     ->
                      status = "unknown" /\ "execution_unknown" \in reasons
                 [] OTHER                            -> status = "active"
    <3>1. active \in Attempts /\ attState[active] \in ActiveStates
      BY <2>1, <2>3 DEF IInv, TypeOK
    <3> QED BY <3>1 DEF RowsInv, StatusInv, ActiveStates
  <2> QED BY <2>1, <2>2, <2>3 DEF SlotMatchesRows
<1> QED BY <1>1, Invariance, RowsInvariance, PTL

-----------------------------------------------------------------------------
\* An attempt that ended.

\* What a step may do to it: nothing, or reopen it for an uncertain response.
EndedKept ==
  \A a \in Attempts :
    attState[a] \in TerminalStates =>
      \/ attState'[a] = attState[a] /\ attEffect'[a] = attEffect[a]
      \/ /\ attState'[a] = "unknown"
         /\ \E c \in Actions : /\ actKind[c] = "respond" /\ actAtt[c] = a
                               /\ pc[c] = "uncertain"

\* Every step keeps what ended, or reopens it for a response.
LEMMA EndedIsKept ==
  ASSUME IInv, SteerSlotInv, [Next]_vars
  PROVE  EndedKept
<1>1. ASSUME NEW a \in Attempts, NEW c \in Actions, NEW low,
             AttemptStop(a, c, low)
      PROVE  EndedKept
  BY <1>1 DEF IInv, TypeOK, SlotInv, ActiveStates, TerminalStates, EndedKept,
     AttemptStop, ControlState, InsertAction, NextAction
<1>2. ASSUME NEW r \in Requests, NEW a \in Attempts, NEW c \in Actions,
             CommitDispatch(r, a, c)
      PROVE  EndedKept
  BY <1>2 DEF IInv, TypeOK, SlotInv, ActiveStates, TerminalStates, EndedKept,
     CommitDispatch, InsertAction, NextAction, CandidateCurrent, QueueHead,
     Unheld, Queued, NextAttempt
<1>3. ASSUME NEW c \in Actions, MarkStarted(c)
      PROVE  EndedKept
  <2>1. /\ actAtt[c] \in Attempts /\ attState[actAtt[c]] # "absent"
        /\ attReq[actAtt[c]] \in Requests
    BY <1>3, PerformedAttempt DEF MarkStarted, Idle
  <2> QED BY <1>3, <2>1, AttemptsPositive DEF IInv, TypeOK, SlotInv,
     ActiveStates, TerminalStates, EndedKept, MarkStarted
<1>4. ASSUME NEW c \in Actions, MarkUnknown(c)
      PROVE  EndedKept
  <2>1. /\ actAtt[c] \in Attempts /\ attState[actAtt[c]] # "absent"
        /\ attReq[actAtt[c]] \in Requests
    BY <1>4, PerformedAttempt DEF MarkUnknown, Idle
  <2> QED BY <1>4, <2>1, AttemptsPositive DEF IInv, TypeOK, SlotInv,
     ActiveStates, TerminalStates, EndedKept, MarkUnknown, SetAttemptUnknown,
     OwnsSlot
<1>5. ASSUME NEW c \in Actions, RejectStart(c)
      PROVE  EndedKept
  <2>1. /\ actAtt[c] \in Attempts /\ attState[actAtt[c]] # "absent"
        /\ attReq[actAtt[c]] \in Requests
    BY <1>5, PerformedAttempt DEF RejectStart, Idle
  <2> QED BY <1>5, <2>1, AttemptsPositive DEF IInv, TypeOK, SlotInv,
     ActiveStates, TerminalStates, EndedKept, RejectStart, OwnsSlot
<1>6. ASSUME NEW c \in Actions, FinishSteer(c)
      PROVE  EndedKept
  <2>1. /\ actAtt[c] \in Attempts /\ attState[actAtt[c]] # "absent"
        /\ attReq[actAtt[c]] \in Requests
    BY <1>6, PerformedAttempt DEF FinishSteer, Outcomes, Idle
  <2> QED BY <1>6, <2>1, AttemptsPositive DEF IInv, TypeOK, SlotInv,
     ActiveStates, TerminalStates, EndedKept, SteerSlotInv, LiveSteer,
     FinishSteer, SetAttemptUnknown, FinishStep, Outcomes, OriginalRequest,
     SteerOutstanding
<1>7. ASSUME NEW c \in Actions, FinishResponse(c)
      PROVE  EndedKept
  <2>1. /\ actAtt[c] \in Attempts /\ attState[actAtt[c]] # "absent"
        /\ attReq[actAtt[c]] \in Requests
    BY <1>7, PerformedAttempt DEF FinishResponse, Outcomes, Idle
  <2> QED BY <1>7, <2>1, AttemptsPositive DEF IInv, TypeOK, SlotInv,
     ActiveStates, TerminalStates, EndedKept, FinishResponse,
     SetAttemptUnknown, FinishStep, Outcomes
<1>8. ASSUME NEW c \in Actions, NEW outcome \in TerminalStates,
             NEW effect \in EffectStates, NEW class,
             StreamTerminal(c, outcome, effect, class)
      PROVE  EndedKept
  <2>1. /\ actAtt[c] \in Attempts /\ attState[actAtt[c]] # "absent"
        /\ attReq[actAtt[c]] \in Requests
    BY <1>8, PerformedAttempt DEF StreamTerminal, Observing, Idle
  <2> QED BY <1>8, <2>1, AttemptsPositive DEF IInv, TypeOK, SlotInv,
     ActiveStates, TerminalStates, EndedKept, StreamTerminal, EndFrame,
     ProjectTerminal, SetAttemptUnknown, Observing
<1>9. ASSUME NEW c \in Actions, NEW effect \in EffectStates,
             StreamUnknown(c, effect)
      PROVE  EndedKept
  <2>1. /\ actAtt[c] \in Attempts /\ attState[actAtt[c]] # "absent"
        /\ attReq[actAtt[c]] \in Requests
    BY <1>9, PerformedAttempt DEF StreamUnknown, Observing, Idle
  <2> QED BY <1>9, <2>1, AttemptsPositive DEF IInv, TypeOK, SlotInv,
     ActiveStates, TerminalStates, EndedKept, StreamUnknown, EndFrame,
     SetAttemptUnknown, Observing
<1>10. ASSUME NEW c \in Actions, NEW over, ToolStarted(c, over)
      PROVE  EndedKept
  <2>1. /\ actAtt[c] \in Attempts /\ attState[actAtt[c]] # "absent"
        /\ attReq[actAtt[c]] \in Requests
    BY <1>10, PerformedAttempt DEF ToolStarted, InBudget, Observing, Idle
  <2> QED BY <1>10, <2>1, AttemptsPositive DEF IInv, TypeOK, SlotInv,
     ActiveStates, TerminalStates, EndedKept, ToolStarted, EventFrame,
     ChargeOutput, InBudget, Observing, InsertAction, NextAction
<1>11. ASSUME NEW c \in Actions, NEW over, NEW end,
             ToolCompleted(c, over, end)
      PROVE  EndedKept
  <2>1. /\ actAtt[c] \in Attempts /\ attState[actAtt[c]] # "absent"
        /\ attReq[actAtt[c]] \in Requests
    BY <1>11, PerformedAttempt DEF ToolCompleted, InBudget, Observing, Idle
  <2> QED BY <1>11, <2>1, AttemptsPositive DEF IInv, TypeOK, SlotInv,
     ActiveStates, TerminalStates, EndedKept, ToolCompleted, EventFrame,
     ChargeOutput, InBudget, Observing, InsertAction, NextAction
<1>12. ASSUME NEW c \in Actions, OutputLimit(c)
      PROVE  EndedKept
  <2>1. /\ actAtt[c] \in Attempts /\ attState[actAtt[c]] # "absent"
        /\ attReq[actAtt[c]] \in Requests
    BY <1>12, PerformedAttempt DEF OutputLimit, InBudget, Observing, Idle
  <2> QED BY <1>12, <2>1, AttemptsPositive DEF IInv, TypeOK, SlotInv,
     ActiveStates, TerminalStates, EndedKept, OutputLimit, EventFrame,
     ChargeOutput, InBudget, Observing, InsertAction, NextAction
<1>13. ASSUME NEW c \in Actions, EnterWaiting(c)
      PROVE  EndedKept
  <2>1. /\ actAtt[c] \in Attempts /\ attState[actAtt[c]] # "absent"
        /\ attReq[actAtt[c]] \in Requests
    BY <1>13, PerformedAttempt DEF EnterWaiting, Observing, Idle
  <2> QED BY <1>13, <2>1, AttemptsPositive DEF IInv, TypeOK, SlotInv,
     ActiveStates, TerminalStates, EndedKept, EnterWaiting, EventFrame,
     Observing
<1>14. ASSUME NEW c \in Actions, NEW w \in Waits, NEW over,
             WaitRequested(c, w, over)
      PROVE  EndedKept
  <2>1. /\ actAtt[c] \in Attempts /\ attState[actAtt[c]] # "absent"
        /\ attReq[actAtt[c]] \in Requests
    BY <1>14, PerformedAttempt DEF WaitRequested, InBudget, Observing, Idle
  <2> QED BY <1>14, <2>1, AttemptsPositive DEF IInv, TypeOK, SlotInv,
     ActiveStates, TerminalStates, EndedKept, WaitRequested, EventFrame,
     ChargeOutput, InBudget, Observing, InsertAction, NextAction, NextWait
<1>15. ASSUME NEW outcome \in TerminalStates, NEW effect \in EffectStates,
             NEW class, ReconcileApply(outcome, effect, class)
      PROVE  EndedKept
  <2>1. /\ reconciling \in Attempts /\ attState[reconciling] # "absent"
        /\ attReq[reconciling] \in Requests
    BY <1>15 DEF IInv, TypeOK, RowInv, ReconcileApply
  <2> QED BY <1>15, <2>1, AttemptsPositive DEF IInv, TypeOK, SlotInv,
     ActiveStates, TerminalStates, EndedKept, ReconcileApply, EndFrame,
     ProjectTerminal, SetAttemptUnknown, CancelStream
<1>16. CASE Restart
  <2>1. active # 0 => /\ active \in Attempts /\ attState[active] # "absent"
                      /\ attReq[active] \in Requests
    BY DEF IInv, TypeOK, RowInv, SlotInv, ActiveStates
  <2> QED BY <1>16, <2>1, AttemptsPositive DEF IInv, TypeOK, SlotInv,
     ActiveStates, TerminalStates, EndedKept, Restart, RecoverActive,
     SetAttemptUnknown
<1>17. CASE UNCHANGED <<attState, attEffect>>
  BY <1>17 DEF EndedKept
<1>18. CASE CommandStep
  BY <1>18, <1>1, <1>17 DEF CommandStep, DialogCreate, MessageEnqueue,
     RequestCancel, QueueResume, AttemptRetry, MessageSteer, Respond
<1>19. CASE LoopStep
  BY <1>19, <1>2, <1>17 DEF LoopStep, PeekDispatch, BlockPolicy, DropCandidate
<1>20. ASSUME NEW c \in Actions, ClaimAction(c) PROVE EndedKept
  BY <1>20, <1>17 DEF ClaimAction
<1>21. ASSUME NEW c \in Actions, WorkerStep(c) PROVE EndedKept
  BY <1>21, <1>3, <1>4, <1>5, <1>6, <1>7, <1>17 DEF WorkerStep,
     RequeueDispatch, EnterDispatch, IssueTurn, StartReturns, CancelReturns,
     SteerReturns, RespondReturns, TransactionLost, FinishAction,
     DurableUnchanged
<1>22. ASSUME NEW c \in Actions, StreamEnds(c) PROVE EndedKept
  BY <1>22, <1>8, <1>9, <1>17 DEF StreamEnds, RegisterStream, StreamClosed,
     DurableUnchanged
<1>23. ASSUME NEW c \in Actions, StreamEvent(c) PROVE EndedKept
  BY <1>23, <1>10, <1>11, <1>12, <1>13, <1>14 DEF StreamEvent
<1>24. CASE ReconcileStep
  BY <1>24, StateValues, <1>15, <1>17 DEF ReconcileStep, ReconcileBegin,
     ReconcileNone, DurableUnchanged
<1>25. CASE ProviderStep
  BY <1>25, <1>17 DEF ProviderStep, ProviderStarts, ProviderEnds,
     DurableUnchanged
<1>26. CASE BarrierStep
  BY <1>26, <1>17 DEF BarrierStep, InstallHold, ReleaseHold,
     DeleteLogicalDialog, BeginSettings, SettingsSwap, SettingsRelease,
     SetSettingsReady, ProviderAuthStart, ProviderAuthCheck,
     ProviderAuthSettles, RowsUnchanged, SettingsFrame, AuthFrame
<1>27. CASE UNCHANGED vars
  BY <1>27, <1>17 DEF vars
<1> QED BY <1>18, <1>19, <1>20, <1>21, <1>22, <1>23, <1>24, <1>25, <1>26,
   <1>16, <1>27 DEF Next

\* An attempt that ended stays as it ended, whatever stops, late events,
\* reconciliations and restarts follow; only a response to one of its waits that
\* came back uncertain makes it unknown.
THEOREM EndedIsFinal == Spec => EndedStaysEnded
<1>1. IInv /\ RowsInv /\ [Next]_vars => [EndedKept]_vars
  BY EndedIsKept DEF RowsInv
<1>2. IInv /\ RowsInv /\ [Next]_vars
        => [\A a \in Attempts :
              attState[a] \in TerminalStates =>
                \/ attState'[a] = attState[a] /\ attEffect'[a] = attEffect[a]
                \/ /\ attState'[a] = "unknown"
                   /\ \E c \in Actions :
                        /\ actKind[c] = "respond" /\ actAtt[c] = a
                        /\ pc[c] = "uncertain"]_vars
  BY <1>1 DEF EndedKept
<1> QED BY <1>2, Invariance, RowsInvariance, PTL DEF Spec, EndedStaysEnded

-----------------------------------------------------------------------------
\* The output budget.

\* An attempt over its budget is stopping, unknown or over, and a stop was
\* recorded for every attempt that is stopping.
BudgetInv ==
  /\ \A a \in Attempts : attOver[a] =>
       attState[a] \notin {"absent", "dispatching", "running", "waiting_input"}
  /\ \A a \in Attempts : attState[a] = "stopping" =>
       \E c \in Actions : actKind[c] = "attempt.stop" /\ actAtt[c] = a

\* No attempt exists at first.
LEMMA BudgetInit == InitStore => BudgetInv
BY DEF InitStore, BudgetInv

\* The event that exceeds the budget stops the attempt it finds running.
LEMMA BudgetNext ==
  ASSUME IInv, ActInv, StageInv, BudgetInv, [Next]_vars
  PROVE  BudgetInv'
<1>1. ASSUME NEW a \in Attempts, NEW c \in Actions, NEW low,
             AttemptStop(a, c, low)
      PROVE  BudgetInv'
  BY <1>1 DEF IInv, TypeOK, RowInv, BudgetInv, ActInv, AttemptStop,
     ControlState, InsertAction, NextAction
<1>2. ASSUME NEW m \in Messages, NEW a \in Attempts, NEW c \in Actions,
             NEW low, MessageSteer(m, a, c, low)
      PROVE  BudgetInv'
  BY <1>2 DEF IInv, TypeOK, RowInv, BudgetInv, ActInv, MessageSteer,
     ControlState, InsertAction, NextAction
<1>3. ASSUME NEW w \in Waits, NEW c \in Actions, NEW low, Respond(w, c, low)
      PROVE  BudgetInv'
  BY <1>3 DEF IInv, TypeOK, RowInv, BudgetInv, ActInv, Respond, ControlState,
     InsertAction, NextAction
<1>4. ASSUME NEW r \in Requests, NEW a \in Attempts, NEW c \in Actions,
             CommitDispatch(r, a, c)
      PROVE  BudgetInv'
  BY <1>4 DEF IInv, TypeOK, RowInv, BudgetInv, ActInv, CommitDispatch,
     InsertAction, NextAction, CandidateCurrent, QueueHead, Unheld, Queued,
     NextAttempt
<1>5. ASSUME NEW c \in Actions, MarkStarted(c)
      PROVE  BudgetInv'
  <2>1. /\ actAtt[c] \in Attempts /\ attState[actAtt[c]] # "absent"
        /\ attReq[actAtt[c]] \in Requests
    BY <1>5, PerformedAttempt DEF MarkStarted, Idle
  <2> QED BY <1>5, <2>1 DEF IInv, TypeOK, RowInv, BudgetInv, ActInv, MarkStarted
<1>6. ASSUME NEW c \in Actions, MarkUnknown(c)
      PROVE  BudgetInv'
  <2>1. /\ actAtt[c] \in Attempts /\ attState[actAtt[c]] # "absent"
        /\ attReq[actAtt[c]] \in Requests
    BY <1>6, PerformedAttempt DEF MarkUnknown, Idle
  <2> QED BY <1>6, <2>1 DEF IInv, TypeOK, RowInv, BudgetInv, ActInv,
     MarkUnknown, SetAttemptUnknown, OwnsSlot
<1>7. ASSUME NEW c \in Actions, RejectStart(c)
      PROVE  BudgetInv'
  <2>1. /\ actAtt[c] \in Attempts /\ attState[actAtt[c]] # "absent"
        /\ attReq[actAtt[c]] \in Requests
    BY <1>7, PerformedAttempt DEF RejectStart, Idle
  <2> QED BY <1>7, <2>1 DEF IInv, TypeOK, RowInv, BudgetInv, ActInv,
     RejectStart, OwnsSlot
<1>8. ASSUME NEW c \in Actions, FinishSteer(c)
      PROVE  BudgetInv'
  <2>1. /\ actAtt[c] \in Attempts /\ attState[actAtt[c]] # "absent"
        /\ attReq[actAtt[c]] \in Requests
    BY <1>8, PerformedAttempt DEF FinishSteer, Outcomes, Idle
  <2> QED BY <1>8, <2>1 DEF IInv, TypeOK, RowInv, BudgetInv, ActInv,
     FinishSteer, SetAttemptUnknown, FinishStep, Outcomes, OriginalRequest,
     SteerOutstanding
<1>9. ASSUME NEW c \in Actions, FinishResponse(c)
      PROVE  BudgetInv'
  <2>1. /\ actAtt[c] \in Attempts /\ attState[actAtt[c]] # "absent"
        /\ attReq[actAtt[c]] \in Requests
    BY <1>9, PerformedAttempt DEF FinishResponse, Outcomes, Idle
  <2> QED BY <1>9, <2>1 DEF IInv, TypeOK, RowInv, BudgetInv, ActInv,
     FinishResponse, SetAttemptUnknown, FinishStep, Outcomes
<1>10. ASSUME NEW c \in Actions, NEW outcome \in TerminalStates,
             NEW effect \in EffectStates, NEW class,
             StreamTerminal(c, outcome, effect, class)
      PROVE  BudgetInv'
  <2>1. /\ actAtt[c] \in Attempts /\ attState[actAtt[c]] # "absent"
        /\ attReq[actAtt[c]] \in Requests
    BY <1>10, PerformedAttempt DEF StreamTerminal, Observing, Idle
  <2> QED BY <1>10, <2>1 DEF IInv, TypeOK, RowInv, BudgetInv, ActInv,
     StreamTerminal, EndFrame, ProjectTerminal, SetAttemptUnknown,
     TerminalStates, Observing
<1>11. ASSUME NEW c \in Actions, NEW effect \in EffectStates,
             StreamUnknown(c, effect)
      PROVE  BudgetInv'
  <2>1. /\ actAtt[c] \in Attempts /\ attState[actAtt[c]] # "absent"
        /\ attReq[actAtt[c]] \in Requests
    BY <1>11, PerformedAttempt DEF StreamUnknown, Observing, Idle
  <2> QED BY <1>11, <2>1 DEF IInv, TypeOK, RowInv, BudgetInv, ActInv,
     StreamUnknown, EndFrame, SetAttemptUnknown, Observing
<1>12. ASSUME NEW c \in Actions, NEW over, ToolStarted(c, over)
      PROVE  BudgetInv'
  <2>1. /\ actAtt[c] \in Attempts /\ attState[actAtt[c]] # "absent"
        /\ attReq[actAtt[c]] \in Requests
    BY <1>12, PerformedAttempt DEF ToolStarted, InBudget, Observing, Idle
  <2>2. attState[actAtt[c]] # "dispatching"
    BY <1>12 DEF ActInv, StageInv, ReadSteps, ToolStarted, InBudget, Observing
  <2>3. attOver' = attOver \/ attOver' = [attOver EXCEPT ![actAtt[c]] = TRUE]
    BY <1>12 DEF ToolStarted, ChargeOutput
  <2>4. CASE UNCHANGED <<attState, actionVars>>
    BY <1>12, <2>1, <2>2, <2>4 DEF IInv, TypeOK, BudgetInv, ToolStarted,
       ChargeOutput
  <2>5. ASSUME NEW s \in Actions,
               InsertAction(s, "attempt.stop", actAtt[c], 0),
               attState' = [attState EXCEPT ![actAtt[c]] = "stopping"]
        PROVE  BudgetInv'
    <3>1. actKind[s] = "absent"
      BY <2>5 DEF ActInv, InsertAction, NextAction
    <3> QED BY <2>1, <2>3, <2>5, <3>1 DEF IInv, TypeOK, BudgetInv, InsertAction
  <2> QED BY <1>12, <2>4, <2>5 DEF ToolStarted, ChargeOutput
<1>13. ASSUME NEW c \in Actions, NEW over, NEW end,
             ToolCompleted(c, over, end)
      PROVE  BudgetInv'
  <2>1. /\ actAtt[c] \in Attempts /\ attState[actAtt[c]] # "absent"
        /\ attReq[actAtt[c]] \in Requests
    BY <1>13, PerformedAttempt DEF ToolCompleted, InBudget, Observing, Idle
  <2>2. attState[actAtt[c]] # "dispatching"
    BY <1>13 DEF ActInv, StageInv, ReadSteps, ToolCompleted, InBudget, Observing
  <2>3. attOver' = attOver \/ attOver' = [attOver EXCEPT ![actAtt[c]] = TRUE]
    BY <1>13 DEF ToolCompleted, ChargeOutput
  <2>4. CASE UNCHANGED <<attState, actionVars>>
    BY <1>13, <2>1, <2>2, <2>4 DEF IInv, TypeOK, BudgetInv, ToolCompleted,
       ChargeOutput
  <2>5. ASSUME NEW s \in Actions,
               InsertAction(s, "attempt.stop", actAtt[c], 0),
               attState' = [attState EXCEPT ![actAtt[c]] = "stopping"]
        PROVE  BudgetInv'
    <3>1. actKind[s] = "absent"
      BY <2>5 DEF ActInv, InsertAction, NextAction
    <3> QED BY <2>1, <2>3, <2>5, <3>1 DEF IInv, TypeOK, BudgetInv, InsertAction
  <2> QED BY <1>13, <2>4, <2>5 DEF ToolCompleted, ChargeOutput
<1>14. ASSUME NEW c \in Actions, OutputLimit(c)
      PROVE  BudgetInv'
  <2>1. /\ actAtt[c] \in Attempts /\ attState[actAtt[c]] # "absent"
        /\ attReq[actAtt[c]] \in Requests
    BY <1>14, PerformedAttempt DEF OutputLimit, InBudget, Observing, Idle
  <2>2. attState[actAtt[c]] # "dispatching"
    BY <1>14 DEF ActInv, StageInv, ReadSteps, OutputLimit, InBudget, Observing
  <2>3. attOver' = attOver \/ attOver' = [attOver EXCEPT ![actAtt[c]] = TRUE]
    BY <1>14 DEF OutputLimit, ChargeOutput
  <2>4. CASE UNCHANGED <<attState, actionVars>>
    BY <1>14, <2>1, <2>2, <2>4 DEF IInv, TypeOK, BudgetInv, OutputLimit,
       ChargeOutput
  <2>5. ASSUME NEW s \in Actions,
               InsertAction(s, "attempt.stop", actAtt[c], 0),
               attState' = [attState EXCEPT ![actAtt[c]] = "stopping"]
        PROVE  BudgetInv'
    <3>1. actKind[s] = "absent"
      BY <2>5 DEF ActInv, InsertAction, NextAction
    <3> QED BY <2>1, <2>3, <2>5, <3>1 DEF IInv, TypeOK, BudgetInv, InsertAction
  <2> QED BY <1>14, <2>4, <2>5 DEF OutputLimit, ChargeOutput
<1>15. ASSUME NEW c \in Actions, EnterWaiting(c)
      PROVE  BudgetInv'
  <2>1. /\ actAtt[c] \in Attempts /\ attState[actAtt[c]] # "absent"
        /\ attReq[actAtt[c]] \in Requests
    BY <1>15, PerformedAttempt DEF EnterWaiting, Observing, Idle
  <2> QED BY <1>15, <2>1 DEF IInv, TypeOK, RowInv, BudgetInv, ActInv,
     EnterWaiting, EventFrame, Observing
<1>16. ASSUME NEW c \in Actions, NEW w \in Waits, NEW over,
             WaitRequested(c, w, over)
      PROVE  BudgetInv'
  <2>1. /\ actAtt[c] \in Attempts /\ attState[actAtt[c]] # "absent"
        /\ attReq[actAtt[c]] \in Requests
    BY <1>16, PerformedAttempt DEF WaitRequested, InBudget, Observing, Idle
  <2>2. attState[actAtt[c]] # "dispatching"
    BY <1>16 DEF ActInv, StageInv, ReadSteps, WaitRequested, InBudget, Observing
  <2>3. attOver' = attOver \/ attOver' = [attOver EXCEPT ![actAtt[c]] = TRUE]
    BY <1>16 DEF WaitRequested, ChargeOutput
  <2>4. CASE UNCHANGED <<attState, actionVars>>
    BY <1>16, <2>1, <2>2, <2>4 DEF IInv, TypeOK, BudgetInv, WaitRequested,
       ChargeOutput
  <2>5. ASSUME NEW s \in Actions,
               InsertAction(s, "attempt.stop", actAtt[c], 0),
               attState' = [attState EXCEPT ![actAtt[c]] = "stopping"]
        PROVE  BudgetInv'
    <3>1. actKind[s] = "absent"
      BY <2>5 DEF ActInv, InsertAction, NextAction
    <3> QED BY <2>1, <2>3, <2>5, <3>1 DEF IInv, TypeOK, BudgetInv, InsertAction
  <2>6. CASE /\ attState' = [attState EXCEPT ![actAtt[c]] = "waiting_input"]
             /\ UNCHANGED <<attOver, actionVars>>
    BY <1>16, <2>1, <2>6 DEF IInv, TypeOK, BudgetInv, WaitRequested, InBudget,
       Observing
  <2> QED BY <1>16, <2>4, <2>5, <2>6 DEF WaitRequested, ChargeOutput
<1>17. ASSUME NEW outcome \in TerminalStates, NEW effect \in EffectStates,
             NEW class, ReconcileApply(outcome, effect, class)
      PROVE  BudgetInv'
  <2>1. /\ reconciling \in Attempts /\ attState[reconciling] # "absent"
        /\ attReq[reconciling] \in Requests
    BY <1>17 DEF IInv, TypeOK, RowInv, ReconcileApply
  <2> QED BY <1>17, <2>1 DEF IInv, TypeOK, RowInv, BudgetInv, ActInv,
     ReconcileApply, EndFrame, ProjectTerminal, SetAttemptUnknown,
     TerminalStates, CancelStream
<1>18. CASE Restart
  <2>1. active # 0 => /\ active \in Attempts /\ attState[active] # "absent"
                      /\ attReq[active] \in Requests
    BY DEF IInv, TypeOK, RowInv, SlotInv, ActiveStates
  <2> QED BY <1>18, <2>1 DEF IInv, TypeOK, RowInv, BudgetInv, ActInv, Restart,
     RecoverActive, SetAttemptUnknown
<1>19. CASE UNCHANGED <<attState, attOver, actKind, actAtt>>
  BY <1>19 DEF BudgetInv
<1>20. CASE CommandStep
  BY <1>20, <1>1, <1>2, <1>3, <1>19 DEF CommandStep, DialogCreate,
     MessageEnqueue, RequestCancel, QueueResume, AttemptRetry
<1>21. CASE LoopStep
  BY <1>21, <1>4, <1>19 DEF LoopStep, PeekDispatch, BlockPolicy, DropCandidate
<1>22. ASSUME NEW c \in Actions, ClaimAction(c) PROVE BudgetInv'
  BY <1>22, <1>19 DEF ClaimAction
<1>23. ASSUME NEW c \in Actions, WorkerStep(c) PROVE BudgetInv'
  BY <1>23, <1>5, <1>6, <1>7, <1>8, <1>9, <1>19 DEF WorkerStep,
     RequeueDispatch, EnterDispatch, IssueTurn, StartReturns, CancelReturns,
     SteerReturns, RespondReturns, TransactionLost, FinishAction,
     DurableUnchanged
<1>24. ASSUME NEW c \in Actions, StreamEnds(c) PROVE BudgetInv'
  BY <1>24, <1>10, <1>11, <1>19 DEF StreamEnds, RegisterStream, StreamClosed,
     DurableUnchanged
<1>25. ASSUME NEW c \in Actions, StreamEvent(c) PROVE BudgetInv'
  BY <1>25, <1>12, <1>13, <1>14, <1>15, <1>16 DEF StreamEvent
<1>26. CASE ReconcileStep
  BY <1>26, StateValues, <1>17, <1>19 DEF ReconcileStep, ReconcileBegin,
     ReconcileNone, DurableUnchanged
<1>27. CASE ProviderStep
  BY <1>27, <1>19 DEF ProviderStep, ProviderStarts, ProviderEnds,
     DurableUnchanged
<1>28. CASE BarrierStep
  BY <1>28, <1>19 DEF BarrierStep, InstallHold, ReleaseHold,
     DeleteLogicalDialog, BeginSettings, SettingsSwap, SettingsRelease,
     SetSettingsReady, ProviderAuthStart, ProviderAuthCheck,
     ProviderAuthSettles, RowsUnchanged, SettingsFrame, AuthFrame
<1>29. CASE UNCHANGED vars
  BY <1>29, <1>19 DEF vars
<1> QED BY <1>20, <1>21, <1>22, <1>23, <1>24, <1>25, <1>26, <1>27, <1>28,
   <1>18, <1>29 DEF Next

\* chargeAttemptOutput: an attempt over its output budget never simply goes on;
\* unless it is unknown or over, it is stopping and its stop is recorded.
THEOREM OverBudgetStopped == Spec => []OverBudgetIsStopped
<1>1. IInv /\ ActInv /\ StageInv /\ BudgetInv /\ [Next]_vars => BudgetInv'
  BY BudgetNext
<1>2. IInv /\ BudgetInv => OverBudgetIsStopped
  BY DEF BudgetInv, OverBudgetIsStopped, ActiveStates
<1> QED BY <1>1, <1>2, BudgetInit, Invariance, ActInvariance, StageInvariance,
    PTL DEF Spec

-----------------------------------------------------------------------------
\* Which step adds which row.

\* The message and request rows are the same as before.
NoNewRequest ==
  /\ reqMsg' = reqMsg
  /\ \A m \in Messages : msgDisp[m] = "absent" => msgDisp'[m] = "absent"

\* A request is added by message.enqueue, with its message, and by
\* attempt.retry.
RequestAdded ==
  \/ NoNewRequest
  \/ \E d \in Dialogs, m \in Messages, r \in Requests : MessageEnqueue(d, m, r)
  \/ \E a \in Attempts, ack \in BOOLEAN, r \in Requests : AttemptRetry(a, ack, r)

\* No other handler inserts a message or a request.
LEMMA RequestIsAdded ==
  ASSUME IInv, RefInv, [Next]_vars
  PROVE  RequestAdded
<1>1. ASSUME NEW d \in Dialogs, NEW m \in Messages, NEW r \in Requests,
             MessageEnqueue(d, m, r)
      PROVE  RequestAdded
  BY <1>1 DEF RequestAdded
<1>2. ASSUME NEW r \in Requests, NEW low, RequestCancel(r, low)
      PROVE  RequestAdded
  <2>1. reqMsg[r] \in Messages /\ msgDisp[reqMsg[r]] # "absent"
    BY <1>2 DEF IInv, TypeOK, RefInv, RequestCancel
  <2> QED BY <1>2, <2>1 DEF IInv, TypeOK, RequestAdded, NoNewRequest, RequestCancel
<1>3. ASSUME NEW a \in Attempts, NEW ack \in BOOLEAN, NEW r \in Requests,
             AttemptRetry(a, ack, r)
      PROVE  RequestAdded
  BY <1>3 DEF RequestAdded
<1>4. ASSUME NEW m \in Messages, NEW a \in Attempts, NEW c \in Actions,
             NEW low, MessageSteer(m, a, c, low)
      PROVE  RequestAdded
  BY <1>4 DEF IInv, TypeOK, RequestAdded, NoNewRequest, MessageSteer,
     ControlState, InsertAction, NextAction
<1>5. ASSUME NEW r \in Requests, NEW a \in Attempts, NEW c \in Actions,
             CommitDispatch(r, a, c)
      PROVE  RequestAdded
  BY <1>5 DEF IInv, TypeOK, RequestAdded, NoNewRequest, CommitDispatch,
     InsertAction, NextAction, CandidateCurrent, QueueHead, Unheld, Queued,
     NextAttempt
<1>6. ASSUME NEW c \in Actions, FinishSteer(c)
      PROVE  RequestAdded
  BY <1>6 DEF IInv, TypeOK, RequestAdded, NoNewRequest, FinishSteer,
     SetAttemptUnknown, FinishStep, Outcomes, OriginalRequest,
     SteerOutstanding
<1>7. CASE UNCHANGED <<msgDisp, reqMsg>>
  BY <1>7 DEF RequestAdded, NoNewRequest
<1>8. CASE CommandStep
  BY <1>8, <1>1, <1>2, <1>3, <1>4, <1>7 DEF CommandStep, DialogCreate,
     QueueResume, AttemptStop, Respond
<1>9. CASE LoopStep
  BY <1>9, <1>5, <1>7 DEF LoopStep, PeekDispatch, BlockPolicy, DropCandidate
<1>10. ASSUME NEW c \in Actions, ClaimAction(c) PROVE RequestAdded
  BY <1>10, <1>7 DEF ClaimAction
<1>11. ASSUME NEW c \in Actions, WorkerStep(c) PROVE RequestAdded
  BY <1>11, <1>6, <1>7 DEF WorkerStep, RequeueDispatch, EnterDispatch,
     IssueTurn, StartReturns, MarkStarted, MarkUnknown, RejectStart,
     CancelReturns, SteerReturns, RespondReturns, FinishResponse,
     TransactionLost, FinishAction, DurableUnchanged
<1>12. ASSUME NEW c \in Actions, StreamEnds(c) PROVE RequestAdded
  BY <1>12, <1>7 DEF StreamEnds, RegisterStream, StreamClosed, StreamTerminal,
     StreamUnknown, DurableUnchanged, EndFrame
<1>13. ASSUME NEW c \in Actions, StreamEvent(c) PROVE RequestAdded
  BY <1>13, <1>7 DEF StreamEvent, ToolStarted, ToolCompleted, OutputLimit,
     EnterWaiting, WaitRequested, EventFrame
<1>14. CASE ReconcileStep
  BY <1>14, <1>7 DEF ReconcileStep, ReconcileBegin, ReconcileApply,
     ReconcileNone, DurableUnchanged, EndFrame
<1>15. CASE ProviderStep
  BY <1>15, <1>7 DEF ProviderStep, ProviderStarts, ProviderEnds,
     DurableUnchanged
<1>16. CASE BarrierStep
  BY <1>16, <1>7 DEF BarrierStep, InstallHold, ReleaseHold,
     DeleteLogicalDialog, BeginSettings, SettingsSwap, SettingsRelease,
     SetSettingsReady, ProviderAuthStart, ProviderAuthCheck,
     ProviderAuthSettles, RowsUnchanged, SettingsFrame, AuthFrame
<1>17. CASE Restart
  BY <1>17, <1>7 DEF Restart
<1>18. CASE UNCHANGED vars
  BY <1>18, <1>7 DEF vars
<1> QED BY <1>8, <1>9, <1>10, <1>11, <1>12, <1>13, <1>14, <1>15, <1>16, <1>17,
   <1>18 DEF Next

\* The attempt rows are the same as before.
NoNewAttempt ==
  /\ attReq' = attReq
  /\ \A a \in Attempts : attState[a] = "absent" => attState'[a] = "absent"

\* An attempt is added by DispatchNext.
AttemptAdded ==
  \/ NoNewAttempt
  \/ \E r \in Requests, a \in Attempts, c \in Actions : CommitDispatch(r, a, c)

\* No other step inserts an attempt.
LEMMA AttemptIsAdded ==
  ASSUME IInv, [Next]_vars
  PROVE  AttemptAdded
<1>1. ASSUME NEW a \in Attempts, NEW c \in Actions, NEW low,
             AttemptStop(a, c, low)
      PROVE  AttemptAdded
  BY <1>1 DEF IInv, TypeOK, AttemptAdded, NoNewAttempt, AttemptStop,
     ControlState, InsertAction, NextAction
<1>2. ASSUME NEW r \in Requests, NEW a \in Attempts, NEW c \in Actions,
             CommitDispatch(r, a, c)
      PROVE  AttemptAdded
  BY <1>2 DEF AttemptAdded
<1>3. ASSUME NEW c \in Actions, MarkStarted(c)
      PROVE  AttemptAdded
  <2>1. /\ actAtt[c] \in Attempts /\ attState[actAtt[c]] # "absent"
        /\ attReq[actAtt[c]] \in Requests
    BY <1>3, PerformedAttempt DEF MarkStarted, Idle
  <2> QED BY <1>3, <2>1 DEF IInv, TypeOK, AttemptAdded, NoNewAttempt,
     MarkStarted
<1>4. ASSUME NEW c \in Actions, MarkUnknown(c)
      PROVE  AttemptAdded
  <2>1. /\ actAtt[c] \in Attempts /\ attState[actAtt[c]] # "absent"
        /\ attReq[actAtt[c]] \in Requests
    BY <1>4, PerformedAttempt DEF MarkUnknown, Idle
  <2> QED BY <1>4, <2>1 DEF IInv, TypeOK, AttemptAdded, NoNewAttempt,
     MarkUnknown, SetAttemptUnknown, OwnsSlot
<1>5. ASSUME NEW c \in Actions, RejectStart(c)
      PROVE  AttemptAdded
  <2>1. /\ actAtt[c] \in Attempts /\ attState[actAtt[c]] # "absent"
        /\ attReq[actAtt[c]] \in Requests
    BY <1>5, PerformedAttempt DEF RejectStart, Idle
  <2> QED BY <1>5, <2>1 DEF IInv, TypeOK, AttemptAdded, NoNewAttempt,
     RejectStart, OwnsSlot
<1>6. ASSUME NEW c \in Actions, FinishSteer(c)
      PROVE  AttemptAdded
  <2>1. /\ actAtt[c] \in Attempts /\ attState[actAtt[c]] # "absent"
        /\ attReq[actAtt[c]] \in Requests
    BY <1>6, PerformedAttempt DEF FinishSteer, Outcomes, Idle
  <2> QED BY <1>6, <2>1 DEF IInv, TypeOK, AttemptAdded, NoNewAttempt,
     FinishSteer, SetAttemptUnknown, FinishStep, Outcomes, OriginalRequest,
     SteerOutstanding
<1>7. ASSUME NEW c \in Actions, FinishResponse(c)
      PROVE  AttemptAdded
  <2>1. /\ actAtt[c] \in Attempts /\ attState[actAtt[c]] # "absent"
        /\ attReq[actAtt[c]] \in Requests
    BY <1>7, PerformedAttempt DEF FinishResponse, Outcomes, Idle
  <2> QED BY <1>7, <2>1 DEF IInv, TypeOK, AttemptAdded, NoNewAttempt,
     FinishResponse, SetAttemptUnknown, FinishStep, Outcomes
<1>8. ASSUME NEW c \in Actions, NEW outcome \in TerminalStates,
             NEW effect \in EffectStates, NEW class,
             StreamTerminal(c, outcome, effect, class)
      PROVE  AttemptAdded
  <2>1. /\ actAtt[c] \in Attempts /\ attState[actAtt[c]] # "absent"
        /\ attReq[actAtt[c]] \in Requests
    BY <1>8, PerformedAttempt DEF StreamTerminal, Observing, Idle
  <2> QED BY <1>8, <2>1 DEF IInv, TypeOK, AttemptAdded, NoNewAttempt,
     StreamTerminal, EndFrame, ProjectTerminal, SetAttemptUnknown,
     TerminalStates, Observing
<1>9. ASSUME NEW c \in Actions, NEW effect \in EffectStates,
             StreamUnknown(c, effect)
      PROVE  AttemptAdded
  <2>1. /\ actAtt[c] \in Attempts /\ attState[actAtt[c]] # "absent"
        /\ attReq[actAtt[c]] \in Requests
    BY <1>9, PerformedAttempt DEF StreamUnknown, Observing, Idle
  <2> QED BY <1>9, <2>1 DEF IInv, TypeOK, AttemptAdded, NoNewAttempt,
     StreamUnknown, EndFrame, SetAttemptUnknown, Observing
<1>10. ASSUME NEW c \in Actions, NEW over, ToolStarted(c, over)
      PROVE  AttemptAdded
  <2>1. /\ actAtt[c] \in Attempts /\ attState[actAtt[c]] # "absent"
        /\ attReq[actAtt[c]] \in Requests
    BY <1>10, PerformedAttempt DEF ToolStarted, InBudget, Observing, Idle
  <2>2. CASE UNCHANGED <<attState, actionVars>>
    BY <1>10, <2>1, <2>2 DEF IInv, TypeOK, AttemptAdded, NoNewAttempt,
       ToolStarted, EventFrame, InBudget, Observing
  <2>3. ASSUME NEW s \in Actions,
               InsertAction(s, "attempt.stop", actAtt[c], 0),
               attState[actAtt[c]] \in {"running", "waiting_input"},
               attState' = [attState EXCEPT ![actAtt[c]] = "stopping"]
        PROVE  AttemptAdded
    BY <1>10, <2>1, <2>3 DEF IInv, TypeOK, AttemptAdded, NoNewAttempt,
       ToolStarted, EventFrame, InBudget, Observing, InsertAction, NextAction
  <2> QED BY <1>10, <2>2, <2>3 DEF ToolStarted, ChargeOutput
<1>11. ASSUME NEW c \in Actions, NEW over, NEW end,
             ToolCompleted(c, over, end)
      PROVE  AttemptAdded
  <2>1. /\ actAtt[c] \in Attempts /\ attState[actAtt[c]] # "absent"
        /\ attReq[actAtt[c]] \in Requests
    BY <1>11, PerformedAttempt DEF ToolCompleted, InBudget, Observing, Idle
  <2>2. CASE UNCHANGED <<attState, actionVars>>
    BY <1>11, <2>1, <2>2 DEF IInv, TypeOK, AttemptAdded, NoNewAttempt,
       ToolCompleted, EventFrame, InBudget, Observing
  <2>3. ASSUME NEW s \in Actions,
               InsertAction(s, "attempt.stop", actAtt[c], 0),
               attState[actAtt[c]] \in {"running", "waiting_input"},
               attState' = [attState EXCEPT ![actAtt[c]] = "stopping"]
        PROVE  AttemptAdded
    BY <1>11, <2>1, <2>3 DEF IInv, TypeOK, AttemptAdded, NoNewAttempt,
       ToolCompleted, EventFrame, InBudget, Observing, InsertAction,
       NextAction
  <2> QED BY <1>11, <2>2, <2>3 DEF ToolCompleted, ChargeOutput
<1>12. ASSUME NEW c \in Actions, OutputLimit(c)
      PROVE  AttemptAdded
  <2>1. /\ actAtt[c] \in Attempts /\ attState[actAtt[c]] # "absent"
        /\ attReq[actAtt[c]] \in Requests
    BY <1>12, PerformedAttempt DEF OutputLimit, InBudget, Observing, Idle
  <2>2. CASE UNCHANGED <<attState, actionVars>>
    BY <1>12, <2>1, <2>2 DEF IInv, TypeOK, AttemptAdded, NoNewAttempt,
       OutputLimit, EventFrame, InBudget, Observing
  <2>3. ASSUME NEW s \in Actions,
               InsertAction(s, "attempt.stop", actAtt[c], 0),
               attState[actAtt[c]] \in {"running", "waiting_input"},
               attState' = [attState EXCEPT ![actAtt[c]] = "stopping"]
        PROVE  AttemptAdded
    BY <1>12, <2>1, <2>3 DEF IInv, TypeOK, AttemptAdded, NoNewAttempt,
       OutputLimit, EventFrame, InBudget, Observing, InsertAction, NextAction
  <2> QED BY <1>12, <2>2, <2>3 DEF OutputLimit, ChargeOutput
<1>13. ASSUME NEW c \in Actions, EnterWaiting(c)
      PROVE  AttemptAdded
  <2>1. /\ actAtt[c] \in Attempts /\ attState[actAtt[c]] # "absent"
        /\ attReq[actAtt[c]] \in Requests
    BY <1>13, PerformedAttempt DEF EnterWaiting, Observing, Idle
  <2> QED BY <1>13, <2>1 DEF IInv, TypeOK, AttemptAdded, NoNewAttempt,
     EnterWaiting, EventFrame, Observing
<1>14. ASSUME NEW c \in Actions, NEW w \in Waits, NEW over,
             WaitRequested(c, w, over)
      PROVE  AttemptAdded
  <2>1. /\ actAtt[c] \in Attempts /\ attState[actAtt[c]] # "absent"
        /\ attReq[actAtt[c]] \in Requests
    BY <1>14, PerformedAttempt DEF WaitRequested, InBudget, Observing, Idle
  <2>2. CASE UNCHANGED <<attState, actionVars>>
    BY <1>14, <2>1, <2>2 DEF IInv, TypeOK, AttemptAdded, NoNewAttempt,
       WaitRequested, EventFrame, InBudget, Observing, NextWait
  <2>3. ASSUME NEW s \in Actions,
               InsertAction(s, "attempt.stop", actAtt[c], 0),
               attState[actAtt[c]] \in {"running", "waiting_input"},
               attState' = [attState EXCEPT ![actAtt[c]] = "stopping"]
        PROVE  AttemptAdded
    BY <1>14, <2>1, <2>3 DEF IInv, TypeOK, AttemptAdded, NoNewAttempt,
       WaitRequested, EventFrame, InBudget, Observing, InsertAction,
       NextAction, NextWait
  <2>4. CASE /\ attState' = [attState EXCEPT ![actAtt[c]] = "waiting_input"]
             /\ UNCHANGED <<attOver, actionVars>>
    BY <1>14, <2>1, <2>4 DEF IInv, TypeOK, AttemptAdded, NoNewAttempt,
       WaitRequested, EventFrame, InBudget, Observing, NextWait
  <2> QED BY <1>14, <2>2, <2>3, <2>4 DEF WaitRequested, ChargeOutput
<1>15. ASSUME NEW outcome \in TerminalStates, NEW effect \in EffectStates,
             NEW class, ReconcileApply(outcome, effect, class)
      PROVE  AttemptAdded
  <2>1. /\ reconciling \in Attempts /\ attState[reconciling] # "absent"
        /\ attReq[reconciling] \in Requests
    BY <1>15 DEF IInv, TypeOK, RowInv, ReconcileApply
  <2> QED BY <1>15, <2>1 DEF IInv, TypeOK, AttemptAdded, NoNewAttempt,
     ReconcileApply, EndFrame, ProjectTerminal, SetAttemptUnknown,
     TerminalStates, CancelStream
<1>16. CASE Restart
  <2>1. active # 0 => /\ active \in Attempts /\ attState[active] # "absent"
                      /\ attReq[active] \in Requests
    BY DEF IInv, TypeOK, RowInv, SlotInv, ActiveStates
  <2> QED BY <1>16, <2>1 DEF IInv, TypeOK, AttemptAdded, NoNewAttempt, Restart,
     RecoverActive, SetAttemptUnknown
<1>17. CASE UNCHANGED <<attState, attReq>>
  BY <1>17 DEF AttemptAdded, NoNewAttempt
<1>18. CASE CommandStep
  BY <1>18, <1>1, <1>17 DEF CommandStep, DialogCreate, MessageEnqueue,
     RequestCancel, QueueResume, AttemptRetry, MessageSteer, Respond
<1>19. CASE LoopStep
  BY <1>19, <1>2, <1>17 DEF LoopStep, PeekDispatch, BlockPolicy, DropCandidate
<1>20. ASSUME NEW c \in Actions, ClaimAction(c) PROVE AttemptAdded
  BY <1>20, <1>17 DEF ClaimAction
<1>21. ASSUME NEW c \in Actions, WorkerStep(c) PROVE AttemptAdded
  BY <1>21, <1>3, <1>4, <1>5, <1>6, <1>7, <1>17 DEF WorkerStep,
     RequeueDispatch, EnterDispatch, IssueTurn, StartReturns, CancelReturns,
     SteerReturns, RespondReturns, TransactionLost, FinishAction,
     DurableUnchanged
<1>22. ASSUME NEW c \in Actions, StreamEnds(c) PROVE AttemptAdded
  BY <1>22, <1>8, <1>9, <1>17 DEF StreamEnds, RegisterStream, StreamClosed,
     DurableUnchanged
<1>23. ASSUME NEW c \in Actions, StreamEvent(c) PROVE AttemptAdded
  BY <1>23, <1>10, <1>11, <1>12, <1>13, <1>14 DEF StreamEvent
<1>24. CASE ReconcileStep
  BY <1>24, StateValues, <1>15, <1>17 DEF ReconcileStep, ReconcileBegin,
     ReconcileNone, DurableUnchanged
<1>25. CASE ProviderStep
  BY <1>25, <1>17 DEF ProviderStep, ProviderStarts, ProviderEnds,
     DurableUnchanged
<1>26. CASE BarrierStep
  BY <1>26, <1>17 DEF BarrierStep, InstallHold, ReleaseHold,
     DeleteLogicalDialog, BeginSettings, SettingsSwap, SettingsRelease,
     SetSettingsReady, ProviderAuthStart, ProviderAuthCheck,
     ProviderAuthSettles, RowsUnchanged, SettingsFrame, AuthFrame
<1>27. CASE UNCHANGED vars
  BY <1>27, <1>17 DEF vars
<1> QED BY <1>18, <1>19, <1>20, <1>21, <1>22, <1>23, <1>24, <1>25, <1>26,
   <1>16, <1>27 DEF Next

-----------------------------------------------------------------------------
\* The swap of settings.

\* No turn is alive during the swap, and no login is pending from the moment
\* BeginSettingsChange closes admission.
SwapInv ==
  /\ barrier = "swapping" => \A a \in Attempts : turn[a] \notin LiveTurn
  /\ barrier # "open" => auth # "pending"

\* A node that starts swaps nothing.
LEMMA SwapInit == InitStore => SwapInv
BY DEF InitStore, SwapInv

\* A worker can ask for a turn only with startGate, which the swap holds.
LEMMA SwapWorker ==
  ASSUME IInv, SwapInv, NEW c \in Actions, WorkerStep(c)
  PROVE  SwapInv'
<1>1. CASE IssueTurn(c)
  <2>1. barrier # "swapping"
    BY <1>1, ActionsPositive DEF IInv, GateInv, IssueTurn, GateSteps
  <2> QED BY <1>1, <2>1 DEF SwapInv, IssueTurn, DurableUnchanged
<1>2. CASE StartReturns(c)
  <2>1. barrier # "swapping"
    BY <1>2, ActionsPositive DEF IInv, GateInv, StartReturns, GateSteps
  <2> QED BY <1>2, <2>1 DEF SwapInv, StartReturns, DurableUnchanged
<1>3. CASE ~IssueTurn(c) /\ ~StartReturns(c)
  <2>1. UNCHANGED <<barrier, auth, turn>>
    BY <1>3 DEF WorkerStep, RequeueDispatch, EnterDispatch, MarkStarted,
       MarkUnknown, RejectStart, CancelReturns, SteerReturns, RespondReturns,
       FinishSteer, FinishResponse, TransactionLost, FinishAction,
       DurableUnchanged
  <2> QED BY <2>1 DEF SwapInv
<1> QED BY <1>1, <1>2, <1>3

\* The barriers: the swap begins with a free slot, hence without a live turn.
LEMMA SwapBarrier ==
  ASSUME IInv, SwapInv, BarrierStep
  PROVE  SwapInv'
<1>1. CASE SettingsSwap
  <2>1. \A a \in Attempts : turn[a] \notin LiveTurn
    BY <1>1, AttemptsPositive DEF IInv, LiveTurnOwnsSlot, SettingsSwap, NodeIdle
  <2> QED BY <1>1, <2>1 DEF SwapInv, SettingsSwap, SettingsFrame, RowsUnchanged
<1>2. CASE ~SettingsSwap
  BY <1>2 DEF BarrierStep, SwapInv, InstallHold, ReleaseHold,
     DeleteLogicalDialog, BeginSettings, SettingsRelease, SetSettingsReady,
     ProviderAuthStart, ProviderAuthCheck, ProviderAuthSettles, SettingsFrame,
     AuthFrame, RowsUnchanged
<1> QED BY <1>1, <1>2

\* Every step of the node keeps the swap exclusive.
LEMMA SwapNext == IInv /\ SwapInv /\ [Next]_vars => SwapInv'
<1> SUFFICES ASSUME IInv, SwapInv, [Next]_vars PROVE SwapInv'
  OBVIOUS
<1>1. CASE CommandStep \/ LoopStep
  <2>1. UNCHANGED <<barrier, auth, turn>>
    BY <1>1 DEF CommandStep, LoopStep, DialogCreate, MessageEnqueue,
       RequestCancel, QueueResume, AttemptStop, AttemptRetry, MessageSteer,
       Respond, PeekDispatch, BlockPolicy, CommitDispatch, DropCandidate
  <2> QED BY <2>1 DEF SwapInv
<1>2. ASSUME NEW c \in Actions, ClaimAction(c) \/ StreamEnds(c) \/ StreamEvent(c)
      PROVE  SwapInv'
  <2>1. UNCHANGED <<barrier, auth, turn>>
    BY <1>2 DEF ClaimAction, StreamEnds, StreamEvent, RegisterStream,
       StreamClosed, StreamTerminal, StreamUnknown, ToolStarted, ToolCompleted,
       OutputLimit, EnterWaiting, WaitRequested, DurableUnchanged, EndFrame,
       EventFrame
  <2> QED BY <2>1 DEF SwapInv
<1>3. CASE ReconcileStep
  <2>1. UNCHANGED <<barrier, auth, turn>>
    BY <1>3 DEF ReconcileStep, ReconcileBegin, ReconcileApply, ReconcileNone,
       DurableUnchanged, EndFrame
  <2> QED BY <2>1 DEF SwapInv
<1>4. CASE ProviderStep
  BY <1>4 DEF ProviderStep, ProviderStarts, ProviderEnds, SwapInv, IInv,
     TypeOK, LiveTurn, DurableUnchanged
<1>5. CASE Restart
  BY <1>5 DEF Restart, SwapInv
<1>6. CASE UNCHANGED vars
  BY <1>6 DEF vars, SwapInv
<1> QED BY <1>1, <1>2, <1>3, <1>4, <1>5, <1>6, SwapWorker, SwapBarrier DEF Next

\* BeginSettingsChange: while the provider is swapped no turn is alive, no
\* dispatch is inside its adapter call and no login is pending, for every
\* number of rows and every interleaving with stops, crashes and late answers.
THEOREM SwapExclusion == Spec => []SwapIsExclusive
<1>1. IInv /\ SwapInv => SwapIsExclusive
  BY ActionsPositive DEF IInv, SwapInv, GateInv, GateSteps, SwapIsExclusive
<1>2. Spec => []SwapInv
  BY SwapInit, SwapNext, Invariance, PTL DEF Spec
<1> QED BY <1>1, <1>2, Invariance, PTL

-----------------------------------------------------------------------------
\* The fences a start passes.

\* A dispatch inside its adapter call found the login proved.
LoginInv == \A c \in Actions : pc[c] = "calling" => AuthReady

\* No dispatch is performed at first.
LEMMA LoginInit == InitStore => LoginInv
BY DEF InitStore, LoginInv, Idle

\* Login changes only with startGate free, or while it is pending.
LEMMA LoginNext ==
  ASSUME IInv, LoginInv, [Next]_vars
  PROVE  LoginInv'
<1>1. ASSUME NEW c \in Actions, ClaimAction(c)
      PROVE  LoginInv'
  BY <1>1 DEF IInv, TypeOK, LoginInv, ClaimAction, Claimable, LaneActions,
     AuthReady, Idle
<1>2. ASSUME NEW c \in Actions, RequeueDispatch(c)
      PROVE  LoginInv'
  BY <1>2 DEF IInv, TypeOK, LoginInv, RequeueDispatch, AuthReady, Idle
<1>3. ASSUME NEW c \in Actions, EnterDispatch(c)
      PROVE  LoginInv'
  BY <1>3 DEF IInv, TypeOK, LoginInv, EnterDispatch, DurableUnchanged,
     AuthReady, Idle
<1>4. ASSUME NEW c \in Actions, StartReturns(c)
      PROVE  LoginInv'
  BY <1>4 DEF IInv, TypeOK, LoginInv, StartReturns, DurableUnchanged,
     AuthReady, Idle
<1>5. ASSUME NEW c \in Actions, MarkStarted(c)
      PROVE  LoginInv'
  BY <1>5 DEF IInv, TypeOK, LoginInv, MarkStarted, AuthReady, Idle
<1>6. ASSUME NEW c \in Actions, MarkUnknown(c)
      PROVE  LoginInv'
  BY <1>6 DEF IInv, TypeOK, LoginInv, MarkUnknown, SetAttemptUnknown,
     OwnsSlot, AuthReady, Idle
<1>7. ASSUME NEW c \in Actions, RejectStart(c)
      PROVE  LoginInv'
  BY <1>7 DEF IInv, TypeOK, LoginInv, RejectStart, OwnsSlot, AuthReady, Idle
<1>8. ASSUME NEW c \in Actions, CancelReturns(c)
      PROVE  LoginInv'
  BY <1>8 DEF IInv, TypeOK, LoginInv, CancelReturns, DurableUnchanged,
     AuthReady, Idle
<1>9. ASSUME NEW c \in Actions, SteerReturns(c)
      PROVE  LoginInv'
  BY <1>9 DEF IInv, TypeOK, LoginInv, SteerReturns, DurableUnchanged,
     AuthReady, Idle
<1>10. ASSUME NEW c \in Actions, RespondReturns(c)
      PROVE  LoginInv'
  BY <1>10 DEF IInv, TypeOK, LoginInv, RespondReturns, DurableUnchanged,
     AuthReady, Idle
<1>11. ASSUME NEW c \in Actions, FinishSteer(c)
      PROVE  LoginInv'
  BY <1>11 DEF IInv, TypeOK, LoginInv, FinishSteer, SetAttemptUnknown,
     FinishStep, Outcomes, OriginalRequest, SteerOutstanding, AuthReady, Idle
<1>12. ASSUME NEW c \in Actions, FinishResponse(c)
      PROVE  LoginInv'
  BY <1>12 DEF IInv, TypeOK, LoginInv, FinishResponse, SetAttemptUnknown,
     FinishStep, Outcomes, AuthReady, Idle
<1>13. ASSUME NEW c \in Actions, TransactionLost(c)
      PROVE  LoginInv'
  BY <1>13 DEF IInv, TypeOK, LoginInv, TransactionLost, DurableUnchanged,
     FinishStep, Outcomes, AuthReady, Idle
<1>14. ASSUME NEW c \in Actions, FinishAction(c)
      PROVE  LoginInv'
  BY <1>14 DEF IInv, TypeOK, LoginInv, FinishAction, AuthReady, Idle
<1>15. ASSUME NEW c \in Actions, RegisterStream(c)
      PROVE  LoginInv'
  BY <1>15 DEF IInv, TypeOK, LoginInv, RegisterStream, DurableUnchanged,
     AuthReady, Idle
<1>16. ASSUME NEW c \in Actions, StreamClosed(c)
      PROVE  LoginInv'
  BY <1>16 DEF IInv, TypeOK, LoginInv, StreamClosed, DurableUnchanged,
     AuthReady, Idle
<1>17. ASSUME NEW c \in Actions, NEW outcome \in TerminalStates,
             NEW effect \in EffectStates, NEW class,
             StreamTerminal(c, outcome, effect, class)
      PROVE  LoginInv'
  BY <1>17 DEF IInv, TypeOK, LoginInv, StreamTerminal, EndFrame,
     ProjectTerminal, SetAttemptUnknown, TerminalStates, Observing, AuthReady,
     Idle
<1>18. ASSUME NEW c \in Actions, NEW effect \in EffectStates,
             StreamUnknown(c, effect)
      PROVE  LoginInv'
  BY <1>18 DEF IInv, TypeOK, LoginInv, StreamUnknown, EndFrame,
     SetAttemptUnknown, Observing, AuthReady, Idle
<1>19. ASSUME NEW outcome \in TerminalStates, NEW effect \in EffectStates,
             NEW class, ReconcileApply(outcome, effect, class)
      PROVE  LoginInv'
  BY <1>19 DEF IInv, TypeOK, LoginInv, ReconcileApply, EndFrame,
     ProjectTerminal, SetAttemptUnknown, TerminalStates, CancelStream,
     AuthReady, Idle
<1>20. CASE Restart
  BY <1>20 DEF IInv, TypeOK, LoginInv, Restart, RecoverActive,
     SetAttemptUnknown, AuthReady, Idle
<1>21. ASSUME NEW to, ProviderAuthStart(to)
      PROVE  LoginInv'
  BY <1>21, ActionsPositive DEF IInv, TypeOK, LoginInv, ProviderAuthStart,
     AuthFrame, RowsUnchanged, AuthReady, GateInv, GateSteps
<1>22. ASSUME NEW to, ProviderAuthCheck(to)
      PROVE  LoginInv'
  BY <1>22, ActionsPositive DEF IInv, TypeOK, LoginInv, ProviderAuthCheck,
     AuthFrame, RowsUnchanged, AuthReady, GateInv, GateSteps
<1>23. ASSUME NEW to, ProviderAuthSettles(to)
      PROVE  LoginInv'
  BY <1>23 DEF IInv, TypeOK, LoginInv, ProviderAuthSettles, AuthFrame,
     RowsUnchanged, AuthReady
<1>24. CASE UNCHANGED <<pc, auth>>
  BY <1>24 DEF LoginInv, AuthReady
<1>25. CASE CommandStep
  BY <1>25, <1>24 DEF CommandStep, DialogCreate, MessageEnqueue,
     RequestCancel, QueueResume, AttemptStop, AttemptRetry, MessageSteer,
     Respond
<1>26. CASE LoopStep
  BY <1>26, <1>24 DEF LoopStep, PeekDispatch, BlockPolicy, CommitDispatch,
     DropCandidate
<1>27. ASSUME NEW c \in Actions, WorkerStep(c) PROVE LoginInv'
  BY <1>27, <1>2, <1>3, <1>4, <1>5, <1>6, <1>7, <1>8, <1>9, <1>10, <1>11,
     <1>12, <1>13, <1>14, <1>24 DEF WorkerStep, IssueTurn, DurableUnchanged
<1>28. ASSUME NEW c \in Actions, StreamEnds(c) PROVE LoginInv'
  BY <1>28, <1>15, <1>16, <1>17, <1>18 DEF StreamEnds
<1>29. ASSUME NEW c \in Actions, StreamEvent(c) PROVE LoginInv'
  BY <1>29, <1>24 DEF StreamEvent, ToolStarted, ToolCompleted, OutputLimit,
     EnterWaiting, WaitRequested, EventFrame
<1>30. CASE ReconcileStep
  BY <1>30, StateValues, <1>19, <1>24 DEF ReconcileStep, ReconcileBegin,
     ReconcileNone, DurableUnchanged
<1>31. CASE ProviderStep
  BY <1>31, <1>24 DEF ProviderStep, ProviderStarts, ProviderEnds,
     DurableUnchanged
<1>32. CASE BarrierStep
  BY <1>32, <1>21, <1>22, <1>23, <1>24 DEF BarrierStep, InstallHold,
     ReleaseHold, DeleteLogicalDialog, BeginSettings, SettingsSwap,
     SettingsRelease, SetSettingsReady, RowsUnchanged, SettingsFrame
<1>33. CASE UNCHANGED vars
  BY <1>33, <1>24 DEF vars
<1> QED BY <1>25, <1>26, <1>1, <1>27, <1>28, <1>29, <1>30, <1>31, <1>32,
   <1>20, <1>33 DEF Next

\* attempt.stop, which pauses the queue, leaves no attempt dispatching.
PauseInv == \A a \in Attempts : attState[a] = "dispatching" => ~paused

\* No attempt exists at first.
LEMMA PauseInit == InitStore => PauseInv
BY DEF InitStore, PauseInv

\* A new attempt starts unpaused, and a pause moves the attempt on.
LEMMA PauseNext ==
  ASSUME IInv, PauseInv, [Next]_vars
  PROVE  PauseInv'
<1>1. ASSUME NEW low, QueueResume(low)
      PROVE  PauseInv'
  BY <1>1 DEF IInv, TypeOK, PauseInv, QueueResume, ControlState
<1>2. ASSUME NEW a \in Attempts, NEW c \in Actions, NEW low,
             AttemptStop(a, c, low)
      PROVE  PauseInv'
  BY <1>2 DEF IInv, TypeOK, PauseInv, AttemptStop, ControlState, InsertAction,
     NextAction, SlotInv, ActiveStates
<1>3. ASSUME NEW r \in Requests, NEW a \in Attempts, NEW c \in Actions,
             CommitDispatch(r, a, c)
      PROVE  PauseInv'
  BY <1>3 DEF IInv, TypeOK, PauseInv, CommitDispatch, InsertAction,
     NextAction, CandidateCurrent, QueueHead, Unheld, Queued, NextAttempt,
     SlotOpen, ActiveAttempts, ActiveStates
<1>4. ASSUME NEW c \in Actions, MarkStarted(c)
      PROVE  PauseInv'
  <2>1. /\ actAtt[c] \in Attempts /\ attState[actAtt[c]] # "absent"
        /\ attReq[actAtt[c]] \in Requests
    BY <1>4, PerformedAttempt DEF MarkStarted, Idle
  <2> QED BY <1>4, <2>1 DEF IInv, TypeOK, PauseInv, MarkStarted
<1>5. ASSUME NEW c \in Actions, MarkUnknown(c)
      PROVE  PauseInv'
  <2>1. /\ actAtt[c] \in Attempts /\ attState[actAtt[c]] # "absent"
        /\ attReq[actAtt[c]] \in Requests
    BY <1>5, PerformedAttempt DEF MarkUnknown, Idle
  <2> QED BY <1>5, <2>1 DEF IInv, TypeOK, PauseInv, MarkUnknown,
     SetAttemptUnknown, OwnsSlot
<1>6. ASSUME NEW c \in Actions, RejectStart(c)
      PROVE  PauseInv'
  <2>1. /\ actAtt[c] \in Attempts /\ attState[actAtt[c]] # "absent"
        /\ attReq[actAtt[c]] \in Requests
    BY <1>6, PerformedAttempt DEF RejectStart, Idle
  <2> QED BY <1>6, <2>1 DEF IInv, TypeOK, PauseInv, RejectStart, OwnsSlot
<1>7. ASSUME NEW c \in Actions, FinishSteer(c)
      PROVE  PauseInv'
  <2>1. /\ actAtt[c] \in Attempts /\ attState[actAtt[c]] # "absent"
        /\ attReq[actAtt[c]] \in Requests
    BY <1>7, PerformedAttempt DEF FinishSteer, Outcomes, Idle
  <2> QED BY <1>7, <2>1 DEF IInv, TypeOK, PauseInv, FinishSteer,
     SetAttemptUnknown, FinishStep, Outcomes, OriginalRequest,
     SteerOutstanding
<1>8. ASSUME NEW c \in Actions, FinishResponse(c)
      PROVE  PauseInv'
  <2>1. /\ actAtt[c] \in Attempts /\ attState[actAtt[c]] # "absent"
        /\ attReq[actAtt[c]] \in Requests
    BY <1>8, PerformedAttempt DEF FinishResponse, Outcomes, Idle
  <2> QED BY <1>8, <2>1 DEF IInv, TypeOK, PauseInv, FinishResponse,
     SetAttemptUnknown, FinishStep, Outcomes
<1>9. ASSUME NEW c \in Actions, NEW outcome \in TerminalStates,
             NEW effect \in EffectStates, NEW class,
             StreamTerminal(c, outcome, effect, class)
      PROVE  PauseInv'
  <2>1. /\ actAtt[c] \in Attempts /\ attState[actAtt[c]] # "absent"
        /\ attReq[actAtt[c]] \in Requests
    BY <1>9, PerformedAttempt DEF StreamTerminal, Observing, Idle
  <2> QED BY <1>9, <2>1 DEF IInv, TypeOK, PauseInv, StreamTerminal, EndFrame,
     ProjectTerminal, SetAttemptUnknown, TerminalStates, Observing
<1>10. ASSUME NEW c \in Actions, NEW effect \in EffectStates,
             StreamUnknown(c, effect)
      PROVE  PauseInv'
  <2>1. /\ actAtt[c] \in Attempts /\ attState[actAtt[c]] # "absent"
        /\ attReq[actAtt[c]] \in Requests
    BY <1>10, PerformedAttempt DEF StreamUnknown, Observing, Idle
  <2> QED BY <1>10, <2>1 DEF IInv, TypeOK, PauseInv, StreamUnknown, EndFrame,
     SetAttemptUnknown, Observing
<1>11. ASSUME NEW c \in Actions, NEW over, ToolStarted(c, over)
      PROVE  PauseInv'
  <2>1. /\ actAtt[c] \in Attempts /\ attState[actAtt[c]] # "absent"
        /\ attReq[actAtt[c]] \in Requests
    BY <1>11, PerformedAttempt DEF ToolStarted, InBudget, Observing, Idle
  <2>2. CASE UNCHANGED <<attState, actionVars>>
    BY <1>11, <2>1, <2>2 DEF IInv, TypeOK, PauseInv, ToolStarted, EventFrame,
       InBudget, Observing
  <2>3. ASSUME NEW s \in Actions,
               InsertAction(s, "attempt.stop", actAtt[c], 0),
               attState[actAtt[c]] \in {"running", "waiting_input"},
               attState' = [attState EXCEPT ![actAtt[c]] = "stopping"]
        PROVE  PauseInv'
    BY <1>11, <2>1, <2>3 DEF IInv, TypeOK, PauseInv, ToolStarted, EventFrame,
       InBudget, Observing, InsertAction, NextAction
  <2> QED BY <1>11, <2>2, <2>3 DEF ToolStarted, ChargeOutput
<1>12. ASSUME NEW c \in Actions, NEW over, NEW end,
             ToolCompleted(c, over, end)
      PROVE  PauseInv'
  <2>1. /\ actAtt[c] \in Attempts /\ attState[actAtt[c]] # "absent"
        /\ attReq[actAtt[c]] \in Requests
    BY <1>12, PerformedAttempt DEF ToolCompleted, InBudget, Observing, Idle
  <2>2. CASE UNCHANGED <<attState, actionVars>>
    BY <1>12, <2>1, <2>2 DEF IInv, TypeOK, PauseInv, ToolCompleted, EventFrame,
       InBudget, Observing
  <2>3. ASSUME NEW s \in Actions,
               InsertAction(s, "attempt.stop", actAtt[c], 0),
               attState[actAtt[c]] \in {"running", "waiting_input"},
               attState' = [attState EXCEPT ![actAtt[c]] = "stopping"]
        PROVE  PauseInv'
    BY <1>12, <2>1, <2>3 DEF IInv, TypeOK, PauseInv, ToolCompleted, EventFrame,
       InBudget, Observing, InsertAction, NextAction
  <2> QED BY <1>12, <2>2, <2>3 DEF ToolCompleted, ChargeOutput
<1>13. ASSUME NEW c \in Actions, OutputLimit(c)
      PROVE  PauseInv'
  <2>1. /\ actAtt[c] \in Attempts /\ attState[actAtt[c]] # "absent"
        /\ attReq[actAtt[c]] \in Requests
    BY <1>13, PerformedAttempt DEF OutputLimit, InBudget, Observing, Idle
  <2>2. CASE UNCHANGED <<attState, actionVars>>
    BY <1>13, <2>1, <2>2 DEF IInv, TypeOK, PauseInv, OutputLimit, EventFrame,
       InBudget, Observing
  <2>3. ASSUME NEW s \in Actions,
               InsertAction(s, "attempt.stop", actAtt[c], 0),
               attState[actAtt[c]] \in {"running", "waiting_input"},
               attState' = [attState EXCEPT ![actAtt[c]] = "stopping"]
        PROVE  PauseInv'
    BY <1>13, <2>1, <2>3 DEF IInv, TypeOK, PauseInv, OutputLimit, EventFrame,
       InBudget, Observing, InsertAction, NextAction
  <2> QED BY <1>13, <2>2, <2>3 DEF OutputLimit, ChargeOutput
<1>14. ASSUME NEW c \in Actions, EnterWaiting(c)
      PROVE  PauseInv'
  <2>1. /\ actAtt[c] \in Attempts /\ attState[actAtt[c]] # "absent"
        /\ attReq[actAtt[c]] \in Requests
    BY <1>14, PerformedAttempt DEF EnterWaiting, Observing, Idle
  <2> QED BY <1>14, <2>1 DEF IInv, TypeOK, PauseInv, EnterWaiting, EventFrame,
     Observing
<1>15. ASSUME NEW c \in Actions, NEW w \in Waits, NEW over,
             WaitRequested(c, w, over)
      PROVE  PauseInv'
  <2>1. /\ actAtt[c] \in Attempts /\ attState[actAtt[c]] # "absent"
        /\ attReq[actAtt[c]] \in Requests
    BY <1>15, PerformedAttempt DEF WaitRequested, InBudget, Observing, Idle
  <2>2. CASE UNCHANGED <<attState, actionVars>>
    BY <1>15, <2>1, <2>2 DEF IInv, TypeOK, PauseInv, WaitRequested, EventFrame,
       InBudget, Observing, NextWait
  <2>3. ASSUME NEW s \in Actions,
               InsertAction(s, "attempt.stop", actAtt[c], 0),
               attState[actAtt[c]] \in {"running", "waiting_input"},
               attState' = [attState EXCEPT ![actAtt[c]] = "stopping"]
        PROVE  PauseInv'
    BY <1>15, <2>1, <2>3 DEF IInv, TypeOK, PauseInv, WaitRequested, EventFrame,
       InBudget, Observing, InsertAction, NextAction, NextWait
  <2>4. CASE /\ attState' = [attState EXCEPT ![actAtt[c]] = "waiting_input"]
             /\ UNCHANGED <<attOver, actionVars>>
    BY <1>15, <2>1, <2>4 DEF IInv, TypeOK, PauseInv, WaitRequested, EventFrame,
       InBudget, Observing, NextWait
  <2> QED BY <1>15, <2>2, <2>3, <2>4 DEF WaitRequested, ChargeOutput
<1>16. ASSUME NEW outcome \in TerminalStates, NEW effect \in EffectStates,
             NEW class, ReconcileApply(outcome, effect, class)
      PROVE  PauseInv'
  <2>1. /\ reconciling \in Attempts /\ attState[reconciling] # "absent"
        /\ attReq[reconciling] \in Requests
    BY <1>16 DEF IInv, TypeOK, RowInv, ReconcileApply
  <2> QED BY <1>16, <2>1 DEF IInv, TypeOK, PauseInv, ReconcileApply, EndFrame,
     ProjectTerminal, SetAttemptUnknown, TerminalStates, CancelStream
<1>17. CASE Restart
  <2>1. active # 0 => /\ active \in Attempts /\ attState[active] # "absent"
                      /\ attReq[active] \in Requests
    BY DEF IInv, TypeOK, RowInv, SlotInv, ActiveStates
  <2> QED BY <1>17, <2>1 DEF IInv, TypeOK, PauseInv, Restart, RecoverActive,
     SetAttemptUnknown
<1>18. CASE UNCHANGED <<attState, paused>>
  BY <1>18 DEF PauseInv
<1>19. CASE CommandStep
  BY <1>19, <1>1, <1>2, <1>18 DEF CommandStep, DialogCreate, MessageEnqueue,
     RequestCancel, AttemptRetry, MessageSteer, Respond
<1>20. CASE LoopStep
  BY <1>20, <1>3, <1>18 DEF LoopStep, PeekDispatch, BlockPolicy, DropCandidate
<1>21. ASSUME NEW c \in Actions, ClaimAction(c) PROVE PauseInv'
  BY <1>21, <1>18 DEF ClaimAction
<1>22. ASSUME NEW c \in Actions, WorkerStep(c) PROVE PauseInv'
  BY <1>22, <1>4, <1>5, <1>6, <1>7, <1>8, <1>18 DEF WorkerStep,
     RequeueDispatch, EnterDispatch, IssueTurn, StartReturns, CancelReturns,
     SteerReturns, RespondReturns, TransactionLost, FinishAction,
     DurableUnchanged
<1>23. ASSUME NEW c \in Actions, StreamEnds(c) PROVE PauseInv'
  BY <1>23, <1>9, <1>10, <1>18 DEF StreamEnds, RegisterStream, StreamClosed,
     DurableUnchanged
<1>24. ASSUME NEW c \in Actions, StreamEvent(c) PROVE PauseInv'
  BY <1>24, <1>11, <1>12, <1>13, <1>14, <1>15 DEF StreamEvent
<1>25. CASE ReconcileStep
  BY <1>25, StateValues, <1>16, <1>18 DEF ReconcileStep, ReconcileBegin,
     ReconcileNone, DurableUnchanged
<1>26. CASE ProviderStep
  BY <1>26, <1>18 DEF ProviderStep, ProviderStarts, ProviderEnds,
     DurableUnchanged
<1>27. CASE BarrierStep
  BY <1>27, <1>18 DEF BarrierStep, InstallHold, ReleaseHold,
     DeleteLogicalDialog, BeginSettings, SettingsSwap, SettingsRelease,
     SetSettingsReady, ProviderAuthStart, ProviderAuthCheck,
     ProviderAuthSettles, RowsUnchanged, SettingsFrame, AuthFrame
<1>28. CASE UNCHANGED vars
  BY <1>28, <1>18 DEF vars
<1> QED BY <1>19, <1>20, <1>21, <1>22, <1>23, <1>24, <1>25, <1>26, <1>27,
   <1>17, <1>28 DEF Next

\* A request that waits in the queue is of a dialog without a tombstone.
TombInv == \A r \in Queued : DialogOf(r) \notin deleted

\* The queue is empty at first.
LEMMA TombInit == InitStore => TombInv
BY DEF InitStore, TombInv, Queued

\* The dialog of a row never changes.
LEMMA DialogsFixed ==
  ASSUME IInv, RefInv, RowsKept
  PROVE  /\ \A r \in Requests : reqStatus[r] # "absent"
              => DialogOf(r)' = DialogOf(r)
         /\ \A a \in Attempts : attState[a] # "absent"
              => DialogOfAttempt(a)' = DialogOfAttempt(a)
<1>1. \A r \in Requests : reqStatus[r] # "absent" => DialogOf(r)' = DialogOf(r)
  BY MessagesPositive DEF IInv, TypeOK, RefInv, RowsKept, DialogOf
<1>2. \A a \in Attempts : attState[a] # "absent" =>
        /\ attReq[a] \in Requests /\ attReq'[a] = attReq[a]
        /\ reqStatus[attReq[a]] # "absent"
  BY DEF IInv, RowInv, RefInv, RowsKept
<1> QED BY <1>1, <1>2 DEF DialogOfAttempt

\* Only an admitted command queues a request, and deletion finds none.
LEMMA TombNext ==
  ASSUME IInv, RefInv, RowsKept, TombInv, [Next]_vars
  PROVE  TombInv'
<1>1. ASSUME NEW d \in Dialogs, NEW m \in Messages, NEW r \in Requests,
             MessageEnqueue(d, m, r)
      PROVE  TombInv'
  <2>1. /\ DialogOf(r)' = d /\ d \notin deleted
        /\ deleted' = deleted
        /\ \A q \in Requests : reqStatus'[q] = "queued" => q = r \/ q \in Queued
    BY <1>1 DEF MessageEnqueue, IInv, TypeOK, Queued, DialogOf
  <2> QED BY <2>1, DialogsFixed DEF TombInv, Queued
<1>2. ASSUME NEW r \in Requests, NEW low, RequestCancel(r, low)
      PROVE  TombInv'
  BY <1>2, DialogsFixed DEF IInv, TypeOK, RowInv, TombInv, Queued,
     RequestCancel, ControlState
<1>3. ASSUME NEW a \in Attempts, NEW ack, NEW r \in Requests,
             AttemptRetry(a, ack, r)
      PROVE  TombInv'
  <2>1. /\ DialogOf(r)' \notin deleted
        /\ deleted' = deleted
        /\ \A q \in Requests : reqStatus'[q] = "queued" => q = r \/ q \in Queued
    BY <1>3, DialogsFixed DEF AttemptRetry, IInv, TypeOK, Queued, DialogOf,
       DialogOfAttempt, MessageOfAttempt
  <2> QED BY <2>1, DialogsFixed DEF TombInv, Queued
<1>4. ASSUME NEW r \in Requests, NEW a \in Attempts, NEW c \in Actions,
             CommitDispatch(r, a, c)
      PROVE  TombInv'
  BY <1>4, DialogsFixed DEF IInv, TypeOK, RowInv, TombInv, Queued,
     CommitDispatch, InsertAction, NextAction, CandidateCurrent, QueueHead,
     Unheld, NextAttempt
<1>5. ASSUME NEW c \in Actions, MarkStarted(c)
      PROVE  TombInv'
  <2>1. /\ actAtt[c] \in Attempts /\ attState[actAtt[c]] # "absent"
        /\ attReq[actAtt[c]] \in Requests
    BY <1>5, PerformedAttempt DEF MarkStarted, Idle
  <2> QED BY <1>5, <2>1, DialogsFixed DEF IInv, TypeOK, RowInv, TombInv, Queued,
     MarkStarted
<1>6. ASSUME NEW c \in Actions, MarkUnknown(c)
      PROVE  TombInv'
  <2>1. /\ actAtt[c] \in Attempts /\ attState[actAtt[c]] # "absent"
        /\ attReq[actAtt[c]] \in Requests
    BY <1>6, PerformedAttempt DEF MarkUnknown, Idle
  <2> QED BY <1>6, <2>1, DialogsFixed DEF IInv, TypeOK, RowInv, TombInv, Queued,
     MarkUnknown, SetAttemptUnknown, OwnsSlot
<1>7. ASSUME NEW c \in Actions, RejectStart(c)
      PROVE  TombInv'
  <2>1. /\ actAtt[c] \in Attempts /\ attState[actAtt[c]] # "absent"
        /\ attReq[actAtt[c]] \in Requests
    BY <1>7, PerformedAttempt DEF RejectStart, Idle
  <2> QED BY <1>7, <2>1, DialogsFixed DEF IInv, TypeOK, RowInv, TombInv, Queued,
     RejectStart, OwnsSlot
<1>8. ASSUME NEW c \in Actions, FinishSteer(c)
      PROVE  TombInv'
  <2>1. /\ actAtt[c] \in Attempts /\ attState[actAtt[c]] # "absent"
        /\ attReq[actAtt[c]] \in Requests
    BY <1>8, PerformedAttempt DEF FinishSteer, Outcomes, Idle
  <2> QED BY <1>8, <2>1, DialogsFixed DEF IInv, TypeOK, RowInv, TombInv, Queued,
     FinishSteer, SetAttemptUnknown, FinishStep, Outcomes, OriginalRequest,
     SteerOutstanding
<1>9. ASSUME NEW c \in Actions, FinishResponse(c)
      PROVE  TombInv'
  <2>1. /\ actAtt[c] \in Attempts /\ attState[actAtt[c]] # "absent"
        /\ attReq[actAtt[c]] \in Requests
    BY <1>9, PerformedAttempt DEF FinishResponse, Outcomes, Idle
  <2> QED BY <1>9, <2>1, DialogsFixed DEF IInv, TypeOK, RowInv, TombInv, Queued,
     FinishResponse, SetAttemptUnknown, FinishStep, Outcomes
<1>10. ASSUME NEW c \in Actions, NEW outcome \in TerminalStates,
             NEW effect \in EffectStates, NEW class,
             StreamTerminal(c, outcome, effect, class)
      PROVE  TombInv'
  <2>1. /\ actAtt[c] \in Attempts /\ attState[actAtt[c]] # "absent"
        /\ attReq[actAtt[c]] \in Requests
    BY <1>10, PerformedAttempt DEF StreamTerminal, Observing, Idle
  <2> QED BY <1>10, <2>1, DialogsFixed DEF IInv, TypeOK, RowInv, TombInv, Queued,
     StreamTerminal, EndFrame, ProjectTerminal, SetAttemptUnknown,
     TerminalStates, Observing
<1>11. ASSUME NEW c \in Actions, NEW effect \in EffectStates,
             StreamUnknown(c, effect)
      PROVE  TombInv'
  <2>1. /\ actAtt[c] \in Attempts /\ attState[actAtt[c]] # "absent"
        /\ attReq[actAtt[c]] \in Requests
    BY <1>11, PerformedAttempt DEF StreamUnknown, Observing, Idle
  <2> QED BY <1>11, <2>1, DialogsFixed DEF IInv, TypeOK, RowInv, TombInv, Queued,
     StreamUnknown, EndFrame, SetAttemptUnknown, Observing
<1>12. ASSUME NEW d \in Dialogs, DeleteLogicalDialog(d)
      PROVE  TombInv'
  BY <1>12, DialogsFixed DEF IInv, TypeOK, RowInv, TombInv, Queued,
     DeleteLogicalDialog, RowsUnchanged, Deletable, TerminalStates
<1>13. ASSUME NEW outcome \in TerminalStates, NEW effect \in EffectStates,
             NEW class, ReconcileApply(outcome, effect, class)
      PROVE  TombInv'
  <2>1. /\ reconciling \in Attempts /\ attState[reconciling] # "absent"
        /\ attReq[reconciling] \in Requests
    BY <1>13 DEF IInv, TypeOK, RowInv, ReconcileApply
  <2> QED BY <1>13, <2>1, DialogsFixed DEF IInv, TypeOK, RowInv, TombInv, Queued,
     ReconcileApply, EndFrame, ProjectTerminal, SetAttemptUnknown,
     TerminalStates, CancelStream
<1>14. CASE Restart
  <2>1. active # 0 => /\ active \in Attempts /\ attState[active] # "absent"
                      /\ attReq[active] \in Requests
    BY DEF IInv, TypeOK, RowInv, SlotInv, ActiveStates
  <2> QED BY <1>14, <2>1, DialogsFixed DEF IInv, TypeOK, RowInv, TombInv, Queued,
     Restart, RecoverActive, SetAttemptUnknown
<1>15. CASE UNCHANGED <<reqStatus, reqMsg, msgDialog, deleted>>
  BY <1>15 DEF TombInv, Queued, DialogOf
<1>16. CASE CommandStep
  BY <1>16, <1>1, <1>2, <1>3, <1>15 DEF CommandStep, DialogCreate,
     QueueResume, AttemptStop, MessageSteer, Respond
<1>17. CASE LoopStep
  BY <1>17, <1>4, <1>15 DEF LoopStep, PeekDispatch, BlockPolicy, DropCandidate
<1>18. ASSUME NEW c \in Actions, ClaimAction(c) PROVE TombInv'
  BY <1>18, <1>15 DEF ClaimAction
<1>19. ASSUME NEW c \in Actions, WorkerStep(c) PROVE TombInv'
  BY <1>19, <1>5, <1>6, <1>7, <1>8, <1>9, <1>15 DEF WorkerStep,
     RequeueDispatch, EnterDispatch, IssueTurn, StartReturns, CancelReturns,
     SteerReturns, RespondReturns, TransactionLost, FinishAction,
     DurableUnchanged
<1>20. ASSUME NEW c \in Actions, StreamEnds(c) PROVE TombInv'
  BY <1>20, <1>10, <1>11, <1>15 DEF StreamEnds, RegisterStream, StreamClosed,
     DurableUnchanged
<1>21. ASSUME NEW c \in Actions, StreamEvent(c) PROVE TombInv'
  BY <1>21, <1>15 DEF StreamEvent, ToolStarted, ToolCompleted, OutputLimit,
     EnterWaiting, WaitRequested, EventFrame
<1>22. CASE ReconcileStep
  BY <1>22, StateValues, <1>13, <1>15 DEF ReconcileStep, ReconcileBegin,
     ReconcileNone, DurableUnchanged
<1>23. CASE ProviderStep
  BY <1>23, <1>15 DEF ProviderStep, ProviderStarts, ProviderEnds,
     DurableUnchanged
<1>24. CASE BarrierStep
  BY <1>24, <1>12, <1>15 DEF BarrierStep, InstallHold, ReleaseHold,
     BeginSettings, SettingsSwap, SettingsRelease, SetSettingsReady,
     ProviderAuthStart, ProviderAuthCheck, ProviderAuthSettles, RowsUnchanged,
     SettingsFrame, AuthFrame
<1>25. CASE UNCHANGED vars
  BY <1>25, <1>15 DEF vars
<1> QED BY <1>16, <1>17, <1>18, <1>19, <1>20, <1>21, <1>22, <1>23, <1>24,
   <1>14, <1>25 DEF Next

\* No hold covers the attempt's dialog, and it has no tombstone.
Admitted(a) ==
  ~Held(DialogOfAttempt(a)) /\ DialogOfAttempt(a) \notin deleted

\* A dispatch that may still be started, and one inside its adapter call, is of
\* an attempt no hold or tombstone covers.
HoldInv ==
  /\ \A c \in Actions : /\ actKind[c] = "dispatch.start"
                        /\ actStatus[c] \in {"pending", "inflight"}
                        /\ attState[actAtt[c]] = "dispatching"
                        => Admitted(actAtt[c])
  /\ \A c \in Actions : pc[c] = "calling" => Admitted(actAtt[c])

\* No dispatch exists at first.
LEMMA HoldInit == InitStore => HoldInv
BY DEF InitStore, HoldInv, Idle

\* What is admitted stays so while holds and tombstones stay.
LEMMA AdmittedFixed ==
  ASSUME IInv, RefInv, RowsKept, UNCHANGED <<holds, deleted>>
  PROVE  \A a \in Attempts : attState[a] # "absent" => Admitted(a)' = Admitted(a)
BY DialogsFixed DEF Admitted, Held

\* A hold or a deletion is refused while a start of its scope is in progress.
LEMMA HoldNext ==
  ASSUME IInv, RefInv, RowsKept, ActInv, TombInv, HoldInv, [Next]_vars
  PROVE  HoldInv'
<1>1. ASSUME NEW a \in Attempts, NEW c \in Actions, NEW low,
             AttemptStop(a, c, low)
      PROVE  HoldInv'
  BY <1>1, AdmittedFixed DEF IInv, TypeOK, RowInv, ActInv, HoldInv,
     AttemptStop, ControlState, InsertAction, NextAction, Idle
<1>2. ASSUME NEW m \in Messages, NEW a \in Attempts, NEW c \in Actions,
             NEW low, MessageSteer(m, a, c, low)
      PROVE  HoldInv'
  BY <1>2, AdmittedFixed DEF IInv, TypeOK, RowInv, ActInv, HoldInv,
     MessageSteer, ControlState, InsertAction, NextAction, Idle
<1>3. ASSUME NEW w \in Waits, NEW c \in Actions, NEW low, Respond(w, c, low)
      PROVE  HoldInv'
  BY <1>3, AdmittedFixed DEF IInv, TypeOK, RowInv, ActInv, HoldInv, Respond,
     ControlState, InsertAction, NextAction, Idle
<1>4. ASSUME NEW r \in Requests, NEW a \in Attempts, NEW c \in Actions,
             CommitDispatch(r, a, c)
      PROVE  HoldInv'
  <2>1. Admitted(a)'
    <3>1. /\ r \in Queued /\ ~Held(DialogOf(r)) /\ DialogOf(r) \notin deleted
          /\ reqStatus[r] # "absent"
      BY <1>4 DEF CommitDispatch, CandidateCurrent, QueueHead, Unheld, TombInv,
         Queued
    <3>2. DialogOfAttempt(a)' = DialogOf(r) /\ UNCHANGED <<holds, deleted>>
      BY <1>4 DEF CommitDispatch, IInv, TypeOK, DialogOfAttempt, DialogOf
    <3> QED BY <3>1, <3>2 DEF Admitted, Held
  <2>2. /\ \A b \in Attempts : attState'[b] = "dispatching"
             => b = a \/ attState[b] = "dispatching"
        /\ \A d \in Actions : actStatus'[d] \in {"pending", "inflight"}
             => d = c \/ UNCHANGED <<actKind[d], actAtt[d], actStatus[d]>>
        /\ actAtt'[c] = a /\ pc' = pc /\ actStatus[c] = "absent"
        /\ UNCHANGED <<holds, deleted>>
        /\ \A d \in Actions : actStatus[d] # "absent" => actAtt'[d] = actAtt[d]
    BY <1>4 DEF CommitDispatch, InsertAction, NextAction, IInv, TypeOK
  <2>3. attState[a] = "absent"
    BY <1>4 DEF CommitDispatch, NextAttempt
  <2> QED BY <2>1, <2>2, <2>3, AdmittedFixed
      DEF HoldInv, IInv, RowInv, TypeOK, Idle
<1>5. ASSUME NEW c \in Actions, ClaimAction(c)
      PROVE  HoldInv'
  BY <1>5, AdmittedFixed DEF IInv, TypeOK, RowInv, ActInv, HoldInv,
     ClaimAction, Claimable, LaneActions, Idle
<1>6. ASSUME NEW c \in Actions, RequeueDispatch(c)
      PROVE  HoldInv'
  BY <1>6, AdmittedFixed DEF IInv, TypeOK, RowInv, ActInv, HoldInv,
     RequeueDispatch, Idle, ReadSteps
<1>7. ASSUME NEW c \in Actions, EnterDispatch(c)
      PROVE  HoldInv'
  BY <1>7, AdmittedFixed DEF IInv, TypeOK, RowInv, ActInv, HoldInv,
     EnterDispatch, DurableUnchanged, Idle, ReadSteps
<1>8. ASSUME NEW c \in Actions, StartReturns(c)
      PROVE  HoldInv'
  BY <1>8, AdmittedFixed DEF IInv, TypeOK, RowInv, ActInv, HoldInv,
     StartReturns, DurableUnchanged, Idle
<1>9. ASSUME NEW c \in Actions, MarkStarted(c)
      PROVE  HoldInv'
  <2>1. /\ actAtt[c] \in Attempts /\ attState[actAtt[c]] # "absent"
        /\ attReq[actAtt[c]] \in Requests
    BY <1>9, PerformedAttempt DEF MarkStarted, Idle
  <2> QED BY <1>9, <2>1, AdmittedFixed DEF IInv, TypeOK, RowInv, ActInv,
     HoldInv, MarkStarted, Idle
<1>10. ASSUME NEW c \in Actions, MarkUnknown(c)
      PROVE  HoldInv'
  <2>1. /\ actAtt[c] \in Attempts /\ attState[actAtt[c]] # "absent"
        /\ attReq[actAtt[c]] \in Requests
    BY <1>10, PerformedAttempt DEF MarkUnknown, Idle
  <2> QED BY <1>10, <2>1, AdmittedFixed DEF IInv, TypeOK, RowInv, ActInv,
     HoldInv, MarkUnknown, SetAttemptUnknown, OwnsSlot, Idle
<1>11. ASSUME NEW c \in Actions, RejectStart(c)
      PROVE  HoldInv'
  <2>1. /\ actAtt[c] \in Attempts /\ attState[actAtt[c]] # "absent"
        /\ attReq[actAtt[c]] \in Requests
    BY <1>11, PerformedAttempt DEF RejectStart, Idle
  <2> QED BY <1>11, <2>1, AdmittedFixed DEF IInv, TypeOK, RowInv, ActInv,
     HoldInv, RejectStart, OwnsSlot, Idle
<1>12. ASSUME NEW c \in Actions, CancelReturns(c)
      PROVE  HoldInv'
  BY <1>12, AdmittedFixed DEF IInv, TypeOK, RowInv, ActInv, HoldInv,
     CancelReturns, DurableUnchanged, Idle
<1>13. ASSUME NEW c \in Actions, SteerReturns(c)
      PROVE  HoldInv'
  BY <1>13, AdmittedFixed DEF IInv, TypeOK, RowInv, ActInv, HoldInv,
     SteerReturns, DurableUnchanged, Idle
<1>14. ASSUME NEW c \in Actions, RespondReturns(c)
      PROVE  HoldInv'
  BY <1>14, AdmittedFixed DEF IInv, TypeOK, RowInv, ActInv, HoldInv,
     RespondReturns, DurableUnchanged, Idle
<1>15. ASSUME NEW c \in Actions, FinishSteer(c)
      PROVE  HoldInv'
  <2>1. /\ actAtt[c] \in Attempts /\ attState[actAtt[c]] # "absent"
        /\ attReq[actAtt[c]] \in Requests
    BY <1>15, PerformedAttempt DEF FinishSteer, Outcomes, Idle
  <2> QED BY <1>15, <2>1, AdmittedFixed DEF IInv, TypeOK, RowInv, ActInv,
     HoldInv, FinishSteer, SetAttemptUnknown, FinishStep, Outcomes,
     OriginalRequest, SteerOutstanding, Idle
<1>16. ASSUME NEW c \in Actions, FinishResponse(c)
      PROVE  HoldInv'
  <2>1. /\ actAtt[c] \in Attempts /\ attState[actAtt[c]] # "absent"
        /\ attReq[actAtt[c]] \in Requests
    BY <1>16, PerformedAttempt DEF FinishResponse, Outcomes, Idle
  <2> QED BY <1>16, <2>1, AdmittedFixed DEF IInv, TypeOK, RowInv, ActInv,
     HoldInv, FinishResponse, SetAttemptUnknown, FinishStep, Outcomes, Idle
<1>17. ASSUME NEW c \in Actions, TransactionLost(c)
      PROVE  HoldInv'
  BY <1>17, AdmittedFixed DEF IInv, TypeOK, RowInv, ActInv, HoldInv,
     TransactionLost, DurableUnchanged, FinishStep, Outcomes, Idle
<1>18. ASSUME NEW c \in Actions, FinishAction(c)
      PROVE  HoldInv'
  BY <1>18, AdmittedFixed DEF IInv, TypeOK, RowInv, ActInv, HoldInv,
     FinishAction, Idle
<1>19. ASSUME NEW c \in Actions, RegisterStream(c)
      PROVE  HoldInv'
  BY <1>19, AdmittedFixed DEF IInv, TypeOK, RowInv, ActInv, HoldInv,
     RegisterStream, DurableUnchanged, Idle
<1>20. ASSUME NEW c \in Actions, StreamClosed(c)
      PROVE  HoldInv'
  BY <1>20, AdmittedFixed DEF IInv, TypeOK, RowInv, ActInv, HoldInv,
     StreamClosed, DurableUnchanged, Idle
<1>21. ASSUME NEW c \in Actions, NEW outcome \in TerminalStates,
             NEW effect \in EffectStates, NEW class,
             StreamTerminal(c, outcome, effect, class)
      PROVE  HoldInv'
  <2>1. /\ actAtt[c] \in Attempts /\ attState[actAtt[c]] # "absent"
        /\ attReq[actAtt[c]] \in Requests
    BY <1>21, PerformedAttempt DEF StreamTerminal, Observing, Idle
  <2> QED BY <1>21, <2>1, AdmittedFixed DEF IInv, TypeOK, RowInv, ActInv,
     HoldInv, StreamTerminal, EndFrame, ProjectTerminal, SetAttemptUnknown,
     TerminalStates, Observing, Idle
<1>22. ASSUME NEW c \in Actions, NEW effect \in EffectStates,
             StreamUnknown(c, effect)
      PROVE  HoldInv'
  <2>1. /\ actAtt[c] \in Attempts /\ attState[actAtt[c]] # "absent"
        /\ attReq[actAtt[c]] \in Requests
    BY <1>22, PerformedAttempt DEF StreamUnknown, Observing, Idle
  <2> QED BY <1>22, <2>1, AdmittedFixed DEF IInv, TypeOK, RowInv, ActInv,
     HoldInv, StreamUnknown, EndFrame, SetAttemptUnknown, Observing, Idle
<1>23. ASSUME NEW c \in Actions, NEW over, ToolStarted(c, over)
      PROVE  HoldInv'
  <2>1. /\ actAtt[c] \in Attempts /\ attState[actAtt[c]] # "absent"
        /\ attReq[actAtt[c]] \in Requests
    BY <1>23, PerformedAttempt DEF ToolStarted, InBudget, Observing, Idle
  <2>2. CASE UNCHANGED <<attState, actionVars>>
    BY <1>23, <2>1, <2>2, AdmittedFixed DEF IInv, TypeOK, RowInv, ActInv,
       HoldInv, ToolStarted, EventFrame, InBudget, Observing, Idle
  <2>3. ASSUME NEW s \in Actions,
               InsertAction(s, "attempt.stop", actAtt[c], 0),
               attState[actAtt[c]] \in {"running", "waiting_input"},
               attState' = [attState EXCEPT ![actAtt[c]] = "stopping"]
        PROVE  HoldInv'
    BY <1>23, <2>1, <2>3, AdmittedFixed DEF IInv, TypeOK, RowInv, ActInv,
       HoldInv, ToolStarted, EventFrame, InBudget, Observing, InsertAction,
       NextAction, Idle
  <2> QED BY <1>23, <2>2, <2>3 DEF ToolStarted, ChargeOutput
<1>24. ASSUME NEW c \in Actions, NEW over, NEW end,
             ToolCompleted(c, over, end)
      PROVE  HoldInv'
  <2>1. /\ actAtt[c] \in Attempts /\ attState[actAtt[c]] # "absent"
        /\ attReq[actAtt[c]] \in Requests
    BY <1>24, PerformedAttempt DEF ToolCompleted, InBudget, Observing, Idle
  <2>2. CASE UNCHANGED <<attState, actionVars>>
    BY <1>24, <2>1, <2>2, AdmittedFixed DEF IInv, TypeOK, RowInv, ActInv,
       HoldInv, ToolCompleted, EventFrame, InBudget, Observing, Idle
  <2>3. ASSUME NEW s \in Actions,
               InsertAction(s, "attempt.stop", actAtt[c], 0),
               attState[actAtt[c]] \in {"running", "waiting_input"},
               attState' = [attState EXCEPT ![actAtt[c]] = "stopping"]
        PROVE  HoldInv'
    BY <1>24, <2>1, <2>3, AdmittedFixed DEF IInv, TypeOK, RowInv, ActInv,
       HoldInv, ToolCompleted, EventFrame, InBudget, Observing, InsertAction,
       NextAction, Idle
  <2> QED BY <1>24, <2>2, <2>3 DEF ToolCompleted, ChargeOutput
<1>25. ASSUME NEW c \in Actions, OutputLimit(c)
      PROVE  HoldInv'
  <2>1. /\ actAtt[c] \in Attempts /\ attState[actAtt[c]] # "absent"
        /\ attReq[actAtt[c]] \in Requests
    BY <1>25, PerformedAttempt DEF OutputLimit, InBudget, Observing, Idle
  <2>2. CASE UNCHANGED <<attState, actionVars>>
    BY <1>25, <2>1, <2>2, AdmittedFixed DEF IInv, TypeOK, RowInv, ActInv,
       HoldInv, OutputLimit, EventFrame, InBudget, Observing, Idle
  <2>3. ASSUME NEW s \in Actions,
               InsertAction(s, "attempt.stop", actAtt[c], 0),
               attState[actAtt[c]] \in {"running", "waiting_input"},
               attState' = [attState EXCEPT ![actAtt[c]] = "stopping"]
        PROVE  HoldInv'
    BY <1>25, <2>1, <2>3, AdmittedFixed DEF IInv, TypeOK, RowInv, ActInv,
       HoldInv, OutputLimit, EventFrame, InBudget, Observing, InsertAction,
       NextAction, Idle
  <2> QED BY <1>25, <2>2, <2>3 DEF OutputLimit, ChargeOutput
<1>26. ASSUME NEW c \in Actions, EnterWaiting(c)
      PROVE  HoldInv'
  <2>1. /\ actAtt[c] \in Attempts /\ attState[actAtt[c]] # "absent"
        /\ attReq[actAtt[c]] \in Requests
    BY <1>26, PerformedAttempt DEF EnterWaiting, Observing, Idle
  <2> QED BY <1>26, <2>1, AdmittedFixed DEF IInv, TypeOK, RowInv, ActInv,
     HoldInv, EnterWaiting, EventFrame, Observing, Idle
<1>27. ASSUME NEW c \in Actions, NEW w \in Waits, NEW over,
             WaitRequested(c, w, over)
      PROVE  HoldInv'
  <2>1. /\ actAtt[c] \in Attempts /\ attState[actAtt[c]] # "absent"
        /\ attReq[actAtt[c]] \in Requests
    BY <1>27, PerformedAttempt DEF WaitRequested, InBudget, Observing, Idle
  <2>2. CASE UNCHANGED <<attState, actionVars>>
    BY <1>27, <2>1, <2>2, AdmittedFixed DEF IInv, TypeOK, RowInv, ActInv,
       HoldInv, WaitRequested, EventFrame, InBudget, Observing, NextWait, Idle
  <2>3. ASSUME NEW s \in Actions,
               InsertAction(s, "attempt.stop", actAtt[c], 0),
               attState[actAtt[c]] \in {"running", "waiting_input"},
               attState' = [attState EXCEPT ![actAtt[c]] = "stopping"]
        PROVE  HoldInv'
    BY <1>27, <2>1, <2>3, AdmittedFixed DEF IInv, TypeOK, RowInv, ActInv,
       HoldInv, WaitRequested, EventFrame, InBudget, Observing, InsertAction,
       NextAction, NextWait, Idle
  <2>4. CASE /\ attState' = [attState EXCEPT ![actAtt[c]] = "waiting_input"]
             /\ UNCHANGED <<attOver, actionVars>>
    BY <1>27, <2>1, <2>4, AdmittedFixed DEF IInv, TypeOK, RowInv, ActInv,
       HoldInv, WaitRequested, EventFrame, InBudget, Observing, NextWait, Idle
  <2> QED BY <1>27, <2>2, <2>3, <2>4 DEF WaitRequested, ChargeOutput
<1>28. ASSUME NEW outcome \in TerminalStates, NEW effect \in EffectStates,
             NEW class, ReconcileApply(outcome, effect, class)
      PROVE  HoldInv'
  <2>1. /\ reconciling \in Attempts /\ attState[reconciling] # "absent"
        /\ attReq[reconciling] \in Requests
    BY <1>28 DEF IInv, TypeOK, RowInv, ReconcileApply
  <2> QED BY <1>28, <2>1, AdmittedFixed DEF IInv, TypeOK, RowInv, ActInv,
     HoldInv, ReconcileApply, EndFrame, ProjectTerminal, SetAttemptUnknown,
     TerminalStates, CancelStream, Idle
<1>29. ASSUME NEW scope \in Dialogs \cup {NodeScope}, InstallHold(scope)
      PROVE  HoldInv'
  <2>1. gate = Free /\ \A d \in Actions : pc[d] # "calling"
    BY <1>29, ActionsPositive DEF InstallHold, IInv, GateInv, GateSteps
  <2>2. ASSUME NEW d \in Actions, actKind[d] = "dispatch.start",
               actStatus[d] \in {"pending", "inflight"},
               attState[actAtt[d]] = "dispatching"
        PROVE  Admitted(actAtt[d])'
    <3>1. /\ actAtt[d] \in Attempts /\ Admitted(actAtt[d])
          /\ DialogOfAttempt(actAtt[d])' = DialogOfAttempt(actAtt[d])
      BY <1>29, <2>2, DialogsFixed DEF InstallHold, RowsUnchanged, HoldInv, IInv,
         RowInv
    <3>2. scope # NodeScope /\ scope # DialogOfAttempt(actAtt[d])
      BY <1>29, <2>2, <3>1 DEF InstallHold, StartInProgress, InScope
    <3> QED BY <1>29, <3>1, <3>2 DEF InstallHold, Admitted, Held
  <2> QED BY <1>29, <2>1, <2>2 DEF InstallHold, RowsUnchanged, HoldInv
<1>30. ASSUME NEW scope \in Dialogs \cup {NodeScope}, ReleaseHold(scope)
      PROVE  HoldInv'
  <2>1. \A a \in Attempts : attState[a] # "absent" /\ Admitted(a)
                            => Admitted(a)'
    BY <1>30, DialogsFixed DEF ReleaseHold, Admitted, Held
  <2>2. UNCHANGED <<actionVars, attState, pc>>
    BY <1>30 DEF ReleaseHold, RowsUnchanged
  <2> QED BY <2>1, <2>2 DEF HoldInv, IInv, RowInv, Idle
<1>31. ASSUME NEW d \in Dialogs, DeleteLogicalDialog(d)
      PROVE  HoldInv'
  <2>1. gate = Free /\ \A e \in Actions : pc[e] # "calling"
    BY <1>31, ActionsPositive DEF DeleteLogicalDialog, IInv, GateInv, GateSteps
  <2>2. ASSUME NEW e \in Actions, actKind[e] = "dispatch.start",
               actStatus[e] \in {"pending", "inflight"},
               attState[actAtt[e]] = "dispatching"
        PROVE  Admitted(actAtt[e])'
    <3>1. /\ actAtt[e] \in Attempts /\ Admitted(actAtt[e])
          /\ DialogOfAttempt(actAtt[e])' = DialogOfAttempt(actAtt[e])
      BY <1>31, <2>2, DialogsFixed DEF DeleteLogicalDialog, RowsUnchanged,
         HoldInv, IInv, RowInv
    <3>2. d # DialogOfAttempt(actAtt[e])
      BY <1>31, <2>2, <3>1 DEF DeleteLogicalDialog, Deletable, ActiveIn,
         ActiveAttempts, ActiveStates
    <3> QED BY <1>31, <3>1, <3>2 DEF DeleteLogicalDialog, Admitted, Held
  <2> QED BY <1>31, <2>1, <2>2 DEF DeleteLogicalDialog, RowsUnchanged, HoldInv
<1>32. CASE Restart
  <2>1. active # 0 => /\ active \in Attempts /\ attState[active] # "absent"
                      /\ attReq[active] \in Requests
    BY DEF IInv, TypeOK, RowInv, SlotInv, ActiveStates
  <2> QED BY <1>32, <2>1, AdmittedFixed DEF IInv, TypeOK, RowInv, ActInv,
     HoldInv, Restart, RecoverActive, SetAttemptUnknown, Idle
<1>33. CASE UNCHANGED <<actionVars, pc, attState, holds,
                       deleted>>
  BY <1>33, AdmittedFixed DEF HoldInv, IInv, RowInv, Idle
<1>34. CASE CommandStep
  BY <1>34, <1>1, <1>2, <1>3, <1>33 DEF CommandStep, DialogCreate,
     MessageEnqueue, RequestCancel, QueueResume, AttemptRetry
<1>35. CASE LoopStep
  BY <1>35, <1>4, <1>33 DEF LoopStep, PeekDispatch, BlockPolicy, DropCandidate
<1>36. ASSUME NEW c \in Actions, WorkerStep(c) PROVE HoldInv'
  BY <1>36, <1>6, <1>7, <1>8, <1>9, <1>10, <1>11, <1>12, <1>13, <1>14, <1>15,
     <1>16, <1>17, <1>18, <1>33 DEF WorkerStep, IssueTurn, DurableUnchanged
<1>37. ASSUME NEW c \in Actions, StreamEnds(c) PROVE HoldInv'
  BY <1>37, <1>19, <1>20, <1>21, <1>22 DEF StreamEnds
<1>38. ASSUME NEW c \in Actions, StreamEvent(c) PROVE HoldInv'
  BY <1>38, <1>23, <1>24, <1>25, <1>26, <1>27 DEF StreamEvent
<1>39. CASE ReconcileStep
  BY <1>39, StateValues, <1>28, <1>33 DEF ReconcileStep, ReconcileBegin,
     ReconcileNone, DurableUnchanged
<1>40. CASE ProviderStep
  BY <1>40, <1>33 DEF ProviderStep, ProviderStarts, ProviderEnds,
     DurableUnchanged
<1>41. CASE BarrierStep
  BY <1>41, <1>29, <1>30, <1>31, <1>33 DEF BarrierStep, BeginSettings,
     SettingsSwap, SettingsRelease, SetSettingsReady, ProviderAuthStart,
     ProviderAuthCheck, ProviderAuthSettles, SettingsFrame, RowsUnchanged,
     AuthFrame
<1>42. CASE UNCHANGED vars
  BY <1>42, <1>33 DEF vars
<1> QED BY <1>34, <1>35, <1>5, <1>36, <1>37, <1>38, <1>39, <1>40, <1>41,
   <1>32, <1>42 DEF Next

-----------------------------------------------------------------------------
\* The fences together.

\* What holds around a start, besides the invariants it rests on.
FenceInv == LoginInv /\ PauseInv /\ TombInv /\ HoldInv

\* The fences are closed in every reachable state.
THEOREM FenceInvariance == Spec => []FenceInv
<1>1. InitStore => FenceInv
  BY LoginInit, PauseInit, TombInit, HoldInit DEF FenceInv
<1>2. IInv /\ RefInv /\ ActInv /\ FenceInv /\ [Next]_vars => FenceInv'
  BY LoginNext, PauseNext, TombNext, HoldNext, RowsAreKept DEF FenceInv
<1> QED BY <1>1, <1>2, Invariance, RefInvariance, ActInvariance, PTL DEF Spec

\* The attempt of a turn that is being asked for: its dispatch is inside the
\* adapter call and owns the slot and startGate.
LEMMA IssuedBy ==
  ASSUME IInv, StageInv, [Next]_vars, NEW a \in Attempts, Issues(a)
  PROVE  \E c \in Actions :
           /\ IssueTurn(c) /\ actAtt[c] = a
           /\ pc[c] = "calling" /\ gate = c /\ active = a
           /\ attState[a] \in ActiveStates \ {"running", "waiting_input"}
<1>1. ASSUME NEW c \in Actions, IssueTurn(c)
      PROVE  /\ actAtt[c] = a /\ pc[c] = "calling" /\ gate = c /\ active = a
             /\ attState[a] \in ActiveStates \ {"running", "waiting_input"}
  <2>1. actAtt[c] = a /\ pc[c] = "calling" /\ turn[actAtt[c]] = "none"
    BY <1>1 DEF IssueTurn, Issues, IInv, TypeOK
  <2>2. gate = c /\ active = a /\ attState[a] \in ActiveStates
    BY <2>1 DEF IInv, GateInv, GateSteps, TurnInv, SlotInv
  <2>3. attState[a] \notin {"running", "waiting_input"}
    BY <2>1 DEF IInv, GateInv, StageInv, Early
  <2> QED BY <2>1, <2>2, <2>3
<1>2. ~(UNCHANGED turn)
  BY DEF Issues
<1>3. \E c \in Actions : IssueTurn(c)
  <2>1. CASE CommandStep \/ LoopStep
    BY <1>2, <2>1 DEF CommandStep, LoopStep, DialogCreate, MessageEnqueue,
       RequestCancel, QueueResume, AttemptStop, AttemptRetry, MessageSteer,
       Respond, PeekDispatch, BlockPolicy, CommitDispatch, DropCandidate
  <2>2. ASSUME NEW c \in Actions, ClaimAction(c) \/ StreamEnds(c) \/ StreamEvent(c)
        PROVE  FALSE
    BY <1>2, <2>2 DEF ClaimAction, StreamEnds, StreamEvent, RegisterStream,
       StreamClosed, StreamTerminal, StreamUnknown, ToolStarted, ToolCompleted,
       OutputLimit, EnterWaiting, WaitRequested, DurableUnchanged, EndFrame,
       EventFrame
  <2>3. ASSUME NEW c \in Actions, WorkerStep(c) PROVE IssueTurn(c)
    <3>1. ASSUME StartReturns(c) PROVE FALSE
      BY <3>1 DEF StartReturns, Issues, IInv, TypeOK
    <3> QED BY <1>2, <2>3, <3>1 DEF WorkerStep, RequeueDispatch, EnterDispatch,
        MarkStarted, MarkUnknown, RejectStart, CancelReturns, SteerReturns,
        RespondReturns, FinishSteer, FinishResponse, TransactionLost,
        FinishAction, DurableUnchanged
  <2>4. CASE ReconcileStep
    BY <1>2, <2>4 DEF ReconcileStep, ReconcileBegin, ReconcileApply,
       ReconcileNone, DurableUnchanged, EndFrame
  <2>5. CASE ProviderStep
    BY <2>5 DEF ProviderStep, ProviderStarts, ProviderEnds, Issues, IInv, TypeOK
  <2>6. CASE BarrierStep
    BY <1>2, <2>6 DEF BarrierStep, InstallHold, ReleaseHold,
       DeleteLogicalDialog, BeginSettings, SettingsSwap, SettingsRelease,
       SetSettingsReady, ProviderAuthStart, ProviderAuthCheck,
       ProviderAuthSettles, SettingsFrame, AuthFrame, RowsUnchanged
  <2>7. CASE Restart \/ UNCHANGED vars
    BY <1>2, <2>7 DEF Restart, vars
  <2> QED BY <2>1, <2>2, <2>3, <2>4, <2>5, <2>6, <2>7 DEF Next
<1> QED BY <1>1, <1>3

\* performDispatch asks for a turn only with every fence open, although holds,
\* deletion, login, settings and the pause were checked in earlier transactions.
THEOREM StartFenced == Spec => StartIsFenced
<1> DEFINE Fenced(a) ==
      /\ ~Held(DialogOfAttempt(a)) /\ DialogOfAttempt(a) \notin deleted
      /\ AuthReady
      /\ barrier # "swapping"
      /\ paused => attState[a] \in {"stopping", "unknown"}
<1>1. ASSUME IInv, StageInv, FenceInv, [Next]_vars, NEW a \in Attempts, Issues(a)
      PROVE  Fenced(a)
  <2>1. PICK c \in Actions :
          /\ actAtt[c] = a /\ pc[c] = "calling" /\ gate = c /\ active = a
          /\ attState[a] \in ActiveStates \ {"running", "waiting_input"}
    BY <1>1, IssuedBy
  <2>2. Admitted(a) /\ AuthReady
    BY <1>1, <2>1 DEF FenceInv, HoldInv, LoginInv
  <2>3. barrier # "swapping"
    BY <1>1, <2>1, ActionsPositive DEF IInv, GateInv
  <2>4. paused => attState[a] \in {"stopping", "unknown"}
    BY <1>1, <2>1 DEF FenceInv, PauseInv, ActiveStates
  <2> QED BY <2>2, <2>3, <2>4 DEF Admitted
<1>2. IInv /\ StageInv /\ FenceInv /\ [Next]_vars
        => [\A a \in Attempts : Issues(a) => Fenced(a)]_vars
  BY <1>1
<1> QED BY <1>2, Invariance, StageInvariance, FenceInvariance, PTL
    DEF Spec, StartIsFenced

-----------------------------------------------------------------------------
\* What a control action refers to.

\* A steer is of a message of its attempt's dialog, a response of a wait of its
\* attempt.
ObjectOk(c) ==
  /\ actKind[c] = "message.steer" =>
       /\ msgDisp[actObj[c]] # "absent"
       /\ msgDialog[actObj[c]] = DialogOfAttempt(actAtt[c])
  /\ actKind[c] = "respond" => waitAtt[actObj[c]] = actAtt[c]

ObjectInv == \A c \in Actions : ObjectOk(c)

\* No action exists at first.
LEMMA ObjectInit == InitStore => ObjectInv
BY DEF InitStore, ObjectInv, ObjectOk

\* A wait keeps its attempt.
WaitsKept ==
  \A w \in Waits : waitStatus[w] # "absent" =>
    waitStatus'[w] # "absent" /\ waitAtt'[w] = waitAtt[w]

\* Only a request of the stream adds a wait.
LEMMA WaitsAreKept ==
  ASSUME IInv, [Next]_vars
  PROVE  WaitsKept
<1>1. ASSUME NEW w \in Waits, NEW c \in Actions, NEW low, Respond(w, c, low)
      PROVE  WaitsKept
  BY <1>1 DEF IInv, TypeOK, WaitsKept, Respond
<1>2. ASSUME NEW c \in Actions, FinishResponse(c)
      PROVE  WaitsKept
  BY <1>2 DEF IInv, TypeOK, WaitsKept, RowInv, FinishResponse, ResponseStatus
<1>3. ASSUME NEW c \in Actions, NEW w \in Waits, NEW over,
             WaitRequested(c, w, over)
      PROVE  WaitsKept
  BY <1>3 DEF IInv, TypeOK, WaitsKept, WaitRequested, NextWait
<1>4. CASE UNCHANGED <<waitStatus, waitAtt>>
  BY <1>4 DEF WaitsKept
<1>5. CASE CommandStep
  BY <1>5, <1>1, <1>4 DEF CommandStep, DialogCreate, MessageEnqueue,
     RequestCancel, QueueResume, AttemptStop, AttemptRetry, MessageSteer
<1>6. CASE LoopStep
  BY <1>6, <1>4 DEF LoopStep, PeekDispatch, BlockPolicy, CommitDispatch,
     DropCandidate
<1>7. ASSUME NEW c \in Actions, ClaimAction(c) PROVE WaitsKept
  BY <1>7, <1>4 DEF ClaimAction
<1>8. ASSUME NEW c \in Actions, WorkerStep(c) PROVE WaitsKept
  BY <1>8, <1>2, <1>4 DEF WorkerStep, RequeueDispatch, EnterDispatch,
     IssueTurn, StartReturns, MarkStarted, MarkUnknown, RejectStart,
     CancelReturns, SteerReturns, RespondReturns, FinishSteer,
     TransactionLost, FinishAction, DurableUnchanged
<1>9. ASSUME NEW c \in Actions, StreamEnds(c) PROVE WaitsKept
  BY <1>9, <1>4 DEF StreamEnds, RegisterStream, StreamClosed, StreamTerminal,
     StreamUnknown, DurableUnchanged, EndFrame
<1>10. ASSUME NEW c \in Actions, StreamEvent(c) PROVE WaitsKept
  BY <1>10, <1>3, <1>4 DEF StreamEvent, ToolStarted, ToolCompleted,
     OutputLimit, EnterWaiting, EventFrame
<1>11. CASE ReconcileStep
  BY <1>11, <1>4 DEF ReconcileStep, ReconcileBegin, ReconcileApply,
     ReconcileNone, DurableUnchanged, EndFrame
<1>12. CASE ProviderStep
  BY <1>12, <1>4 DEF ProviderStep, ProviderStarts, ProviderEnds,
     DurableUnchanged
<1>13. CASE BarrierStep
  BY <1>13, <1>4 DEF BarrierStep, InstallHold, ReleaseHold,
     DeleteLogicalDialog, BeginSettings, SettingsSwap, SettingsRelease,
     SetSettingsReady, ProviderAuthStart, ProviderAuthCheck,
     ProviderAuthSettles, RowsUnchanged, SettingsFrame, AuthFrame
<1>14. CASE Restart
  BY <1>14, <1>4 DEF Restart
<1>15. CASE UNCHANGED vars
  BY <1>15, <1>4 DEF vars
<1> QED BY <1>5, <1>6, <1>7, <1>8, <1>9, <1>10, <1>11, <1>12, <1>13, <1>14,
   <1>15 DEF Next

\* An action that exists keeps its object.
LEMMA OldObject ==
  ASSUME IInv, RefInv, RowsKept, WaitsKept, ObjectInv,
         NEW c \in Actions, actStatus[c] # "absent"
  PROVE  ObjectOk(c)'
<1>1. /\ actKind'[c] = actKind[c] /\ actAtt'[c] = actAtt[c]
      /\ actObj'[c] = actObj[c] /\ ObjectOk(c)
      /\ actAtt[c] \in Attempts /\ attState[actAtt[c]] # "absent"
  BY DEF RowsKept, ObjectInv, IInv, RowInv
<1>2. DialogOfAttempt(actAtt[c])' = DialogOfAttempt(actAtt[c])
  BY <1>1, DialogsFixed
<1>3. ASSUME actKind[c] = "message.steer"
      PROVE  /\ msgDisp'[actObj[c]] # "absent"
             /\ msgDialog'[actObj[c]] = msgDialog[actObj[c]]
  BY <1>1, <1>3 DEF RowsKept, ObjectOk, IInv, RowInv
<1>4. ASSUME actKind[c] = "respond"
      PROVE  waitAtt'[actObj[c]] = waitAtt[actObj[c]]
  BY <1>1, <1>4 DEF WaitsKept, IInv, RowInv
<1> QED BY <1>1, <1>2, <1>3, <1>4 DEF ObjectOk

\* An action that is inserted is a stop or a start, or has its object.
LEMMA NewObject ==
  ASSUME IInv, RefInv, ActInv, RowsKept, WaitsKept, ObjectInv,
         NEW s \in Actions, NEW kind, NEW a, NEW obj,
         InsertAction(s, kind, a, obj), ObjectOk(s)'
  PROVE  ObjectInv'
<1> SUFFICES ASSUME NEW c \in Actions, c # s, actStatus[c] = "absent"
             PROVE  ObjectOk(c)'
  BY OldObject DEF ObjectInv
<1>1. actKind'[c] = "absent"
  BY DEF ActInv, InsertAction, IInv, TypeOK
<1> QED BY <1>1 DEF ObjectOk

\* Without a new action, every object is kept.
LEMMA SameObjects ==
  ASSUME IInv, RefInv, ActInv, RowsKept, WaitsKept, ObjectInv,
         UNCHANGED <<actKind, actAtt, actObj>>
  PROVE  ObjectInv'
<1> SUFFICES ASSUME NEW c \in Actions, actStatus[c] = "absent"
             PROVE  ObjectOk(c)'
  BY OldObject DEF ObjectInv
<1> QED BY DEF ActInv, ObjectOk

\* message.steer and the responses name an object of the attempt.
LEMMA ObjectNext ==
  ASSUME IInv, RefInv, ActInv, RowsKept, WaitsKept, ObjectInv, [Next]_vars
  PROVE  ObjectInv'
<1>1. ASSUME NEW a \in Attempts, NEW c \in Actions, NEW low,
             AttemptStop(a, c, low)
      PROVE  ObjectInv'
  <2>1. actKind'[c] = "attempt.stop"
    BY <1>1 DEF AttemptStop, InsertAction, IInv, TypeOK
  <2> QED BY <1>1, <2>1, NewObject DEF AttemptStop, ObjectOk
<1>2. ASSUME NEW r \in Requests, NEW a \in Attempts, NEW c \in Actions,
             CommitDispatch(r, a, c)
      PROVE  ObjectInv'
  <2>1. actKind'[c] = "dispatch.start"
    BY <1>2 DEF CommitDispatch, InsertAction, IInv, TypeOK
  <2> QED BY <1>2, <2>1, NewObject DEF CommitDispatch, ObjectOk
<1>3. ASSUME NEW m \in Messages, NEW a \in Attempts, NEW c \in Actions,
             NEW low, MessageSteer(m, a, c, low)
      PROVE  ObjectInv'
  <2>1. /\ actKind'[c] = "message.steer" /\ actAtt'[c] = a /\ actObj'[c] = m
        /\ msgDisp'[m] = "steer_pending" /\ msgDialog' = msgDialog
        /\ attState[a] # "absent" /\ DialogOfAttempt(a) = msgDialog[m]
    BY <1>3 DEF MessageSteer, InsertAction, IInv, TypeOK
  <2>2. DialogOfAttempt(a)' = DialogOfAttempt(a)
    BY <2>1, DialogsFixed
  <2>3. ObjectOk(c)'
    BY <2>1, <2>2 DEF ObjectOk
  <2> QED BY <1>3, <2>3, NewObject DEF MessageSteer
<1>4. ASSUME NEW w \in Waits, NEW c \in Actions, NEW low, Respond(w, c, low)
      PROVE  ObjectInv'
  <2>1. ObjectOk(c)'
    BY <1>4 DEF Respond, InsertAction, IInv, TypeOK, ObjectOk
  <2> QED BY <1>4, <2>1, NewObject DEF Respond
<1>5. ASSUME NEW c \in Actions, NEW over, ToolStarted(c, over)
      PROVE  ObjectInv'
  <2>1. ASSUME NEW s \in Actions,
               InsertAction(s, "attempt.stop", actAtt[c], 0)
        PROVE  ObjectInv'
    <3>1. actKind'[s] = "attempt.stop"
      BY <2>1 DEF InsertAction, IInv, TypeOK
    <3> QED BY <2>1, <3>1, NewObject DEF ObjectOk
  <2>2. CASE UNCHANGED actionVars
    BY <2>2, SameObjects
  <2> QED BY <1>5, <2>1, <2>2 DEF ToolStarted, ChargeOutput
<1>6. ASSUME NEW c \in Actions, NEW over, NEW end, ToolCompleted(c, over, end)
      PROVE  ObjectInv'
  <2>1. ASSUME NEW s \in Actions,
               InsertAction(s, "attempt.stop", actAtt[c], 0)
        PROVE  ObjectInv'
    <3>1. actKind'[s] = "attempt.stop"
      BY <2>1 DEF InsertAction, IInv, TypeOK
    <3> QED BY <2>1, <3>1, NewObject DEF ObjectOk
  <2>2. CASE UNCHANGED actionVars
    BY <2>2, SameObjects
  <2> QED BY <1>6, <2>1, <2>2 DEF ToolCompleted, ChargeOutput
<1>7. ASSUME NEW c \in Actions, OutputLimit(c)
      PROVE  ObjectInv'
  <2>1. ASSUME NEW s \in Actions,
               InsertAction(s, "attempt.stop", actAtt[c], 0)
        PROVE  ObjectInv'
    <3>1. actKind'[s] = "attempt.stop"
      BY <2>1 DEF InsertAction, IInv, TypeOK
    <3> QED BY <2>1, <3>1, NewObject DEF ObjectOk
  <2>2. CASE UNCHANGED actionVars
    BY <2>2, SameObjects
  <2> QED BY <1>7, <2>1, <2>2 DEF OutputLimit, ChargeOutput
<1>8. ASSUME NEW c \in Actions, NEW w \in Waits, NEW over,
             WaitRequested(c, w, over)
      PROVE  ObjectInv'
  <2>1. ASSUME NEW s \in Actions,
               InsertAction(s, "attempt.stop", actAtt[c], 0)
        PROVE  ObjectInv'
    <3>1. actKind'[s] = "attempt.stop"
      BY <2>1 DEF InsertAction, IInv, TypeOK
    <3> QED BY <2>1, <3>1, NewObject DEF ObjectOk
  <2>2. CASE UNCHANGED actionVars
    BY <2>2, SameObjects
  <2> QED BY <1>8, <2>1, <2>2 DEF WaitRequested, ChargeOutput
<1>9. CASE UNCHANGED <<actKind, actAtt, actObj>>
  BY <1>9, SameObjects
<1>10. CASE CommandStep
  BY <1>10, <1>1, <1>3, <1>4, <1>9 DEF CommandStep, DialogCreate,
     MessageEnqueue, RequestCancel, QueueResume, AttemptRetry
<1>11. CASE LoopStep
  BY <1>11, <1>2, <1>9 DEF LoopStep, PeekDispatch, BlockPolicy, DropCandidate
<1>12. ASSUME NEW c \in Actions, ClaimAction(c) PROVE ObjectInv'
  BY <1>12, <1>9 DEF ClaimAction
<1>13. ASSUME NEW c \in Actions, WorkerStep(c) PROVE ObjectInv'
  BY <1>13, <1>9 DEF WorkerStep, RequeueDispatch, EnterDispatch, IssueTurn,
     StartReturns, MarkStarted, MarkUnknown, RejectStart, CancelReturns,
     SteerReturns, RespondReturns, FinishSteer, FinishResponse,
     TransactionLost, FinishAction, DurableUnchanged
<1>14. ASSUME NEW c \in Actions, StreamEnds(c) PROVE ObjectInv'
  BY <1>14, <1>9 DEF StreamEnds, RegisterStream, StreamClosed, StreamTerminal,
     StreamUnknown, DurableUnchanged, EndFrame
<1>15. ASSUME NEW c \in Actions, StreamEvent(c) PROVE ObjectInv'
  BY <1>15, <1>5, <1>6, <1>7, <1>8, <1>9 DEF StreamEvent, EnterWaiting,
     EventFrame
<1>16. CASE ReconcileStep
  BY <1>16, <1>9 DEF ReconcileStep, ReconcileBegin, ReconcileApply,
     ReconcileNone, DurableUnchanged, EndFrame
<1>17. CASE ProviderStep
  BY <1>17, <1>9 DEF ProviderStep, ProviderStarts, ProviderEnds,
     DurableUnchanged
<1>18. CASE BarrierStep
  BY <1>18, <1>9 DEF BarrierStep, InstallHold, ReleaseHold,
     DeleteLogicalDialog, BeginSettings, SettingsSwap, SettingsRelease,
     SetSettingsReady, ProviderAuthStart, ProviderAuthCheck,
     ProviderAuthSettles, RowsUnchanged, SettingsFrame, AuthFrame
<1>19. CASE Restart
  BY <1>19, <1>9 DEF Restart
<1>20. CASE UNCHANGED vars
  BY <1>20, <1>9 DEF vars
<1> QED BY <1>10, <1>11, <1>12, <1>13, <1>14, <1>15, <1>16, <1>17, <1>18,
   <1>19, <1>20 DEF Next

-----------------------------------------------------------------------------
\* An attempt at rest.

\* The attempt ended with settled effects, tools, controls and waits.
AtRest(a) ==
  /\ attState[a] \in TerminalStates /\ attEffect[a] # "unknown"
  /\ attTool[a] \notin {"running", "uncertain"}
  /\ \A c \in Actions : actAtt[c] = a =>
       actStatus[c] \in {"acknowledged", "rejected"}
  /\ \A w \in Waits : waitAtt[w] = a => waitStatus[w] = "resolved"

RestKept == \A a \in Attempts : AtRest(a) => AtRest(a)'

\* Nothing reopens an attempt at rest: a response needs an open wait.
LEMMA RestIsKept ==
  ASSUME IInv, ActInv, ObjectInv, [Next]_vars
  PROVE  RestKept
<1>1. ASSUME NEW a \in Attempts, NEW c \in Actions, NEW low,
             AttemptStop(a, c, low)
      PROVE  RestKept
  BY <1>1 DEF IInv, TypeOK, RestKept, AtRest, AttemptStop, ControlState,
     InsertAction, NextAction, SlotInv, ActiveStates, TerminalStates
<1>2. ASSUME NEW m \in Messages, NEW a \in Attempts, NEW c \in Actions,
             NEW low, MessageSteer(m, a, c, low)
      PROVE  RestKept
  BY <1>2 DEF IInv, TypeOK, RestKept, AtRest, MessageSteer, ControlState,
     InsertAction, NextAction, SlotInv, ActiveStates, TerminalStates
<1>3. ASSUME NEW w \in Waits, NEW c \in Actions, NEW low, Respond(w, c, low)
      PROVE  RestKept
  BY <1>3 DEF IInv, TypeOK, RestKept, AtRest, Respond, ControlState,
     InsertAction, NextAction
<1>4. ASSUME NEW r \in Requests, NEW a \in Attempts, NEW c \in Actions,
             CommitDispatch(r, a, c)
      PROVE  RestKept
  BY <1>4 DEF IInv, TypeOK, RestKept, AtRest, CommitDispatch, InsertAction,
     NextAction, CandidateCurrent, QueueHead, Unheld, Queued, NextAttempt,
     TerminalStates
<1>5. ASSUME NEW c \in Actions, ClaimAction(c)
      PROVE  RestKept
  BY <1>5 DEF IInv, TypeOK, RestKept, AtRest, ClaimAction, Claimable,
     LaneActions
<1>6. ASSUME NEW c \in Actions, RequeueDispatch(c)
      PROVE  RestKept
  BY <1>6 DEF IInv, TypeOK, RestKept, AtRest, RequeueDispatch, ActInv,
     ReadSteps, Idle
<1>7. ASSUME NEW c \in Actions, MarkStarted(c)
      PROVE  RestKept
  <2>1. /\ actAtt[c] \in Attempts /\ attState[actAtt[c]] # "absent"
        /\ attReq[actAtt[c]] \in Requests
    BY <1>7, PerformedAttempt DEF MarkStarted, Idle
  <2>2. ~AtRest(actAtt[c])
    BY <1>7, <2>1 DEF AtRest, ActInv, ReadSteps, Idle, MarkStarted
  <2> QED BY <1>7, <2>1, <2>2 DEF IInv, TypeOK, RestKept, AtRest, MarkStarted
<1>8. ASSUME NEW c \in Actions, MarkUnknown(c)
      PROVE  RestKept
  <2>1. /\ actAtt[c] \in Attempts /\ attState[actAtt[c]] # "absent"
        /\ attReq[actAtt[c]] \in Requests
    BY <1>8, PerformedAttempt DEF MarkUnknown, Idle
  <2>2. ~AtRest(actAtt[c])
    BY <1>8, <2>1 DEF AtRest, ActInv, ReadSteps, Idle, MarkUnknown
  <2> QED BY <1>8, <2>1, <2>2 DEF IInv, TypeOK, RestKept, AtRest, MarkUnknown,
     SetAttemptUnknown, OwnsSlot
<1>9. ASSUME NEW c \in Actions, RejectStart(c)
      PROVE  RestKept
  <2>1. /\ actAtt[c] \in Attempts /\ attState[actAtt[c]] # "absent"
        /\ attReq[actAtt[c]] \in Requests
    BY <1>9, PerformedAttempt DEF RejectStart, Idle
  <2>2. ~AtRest(actAtt[c])
    BY <1>9, <2>1 DEF AtRest, ActInv, ReadSteps, Idle, RejectStart
  <2> QED BY <1>9, <2>1, <2>2 DEF IInv, TypeOK, RestKept, AtRest, RejectStart,
     OwnsSlot
<1>10. ASSUME NEW c \in Actions, FinishSteer(c)
      PROVE  RestKept
  <2>1. /\ actAtt[c] \in Attempts /\ attState[actAtt[c]] # "absent"
        /\ attReq[actAtt[c]] \in Requests
    BY <1>10, PerformedAttempt DEF FinishSteer, Outcomes, Idle
  <2>2. ~AtRest(actAtt[c])
    BY <1>10, <2>1 DEF AtRest, ActInv, ReadSteps, Idle, FinishSteer, Outcomes
  <2> QED BY <1>10, <2>1, <2>2 DEF IInv, TypeOK, RestKept, AtRest, FinishSteer,
     SetAttemptUnknown, FinishStep, Outcomes, OriginalRequest,
     SteerOutstanding
<1>11. ASSUME NEW c \in Actions, FinishResponse(c)
      PROVE  RestKept
  <2>1. /\ actAtt[c] \in Attempts /\ attState[actAtt[c]] # "absent"
        /\ attReq[actAtt[c]] \in Requests
    BY <1>11, PerformedAttempt DEF FinishResponse, Outcomes, Idle
  <2>2. ~AtRest(actAtt[c])
    BY <1>11, <2>1 DEF AtRest, ActInv, ReadSteps, Idle, FinishResponse, Outcomes
  <2> QED BY <1>11, <2>1, <2>2 DEF IInv, TypeOK, RestKept, AtRest, ObjectInv,
     ObjectOk, FinishResponse, SetAttemptUnknown, FinishStep, Outcomes
<1>12. ASSUME NEW c \in Actions, FinishAction(c)
      PROVE  RestKept
  BY <1>12 DEF IInv, TypeOK, RestKept, AtRest, FinishAction, ActInv,
     ReadSteps, Idle
<1>13. ASSUME NEW c \in Actions, NEW outcome \in TerminalStates,
             NEW effect \in EffectStates, NEW class,
             StreamTerminal(c, outcome, effect, class)
      PROVE  RestKept
  <2>1. /\ actAtt[c] \in Attempts /\ attState[actAtt[c]] # "absent"
        /\ attReq[actAtt[c]] \in Requests
    BY <1>13, PerformedAttempt DEF StreamTerminal, Observing, Idle
  <2>2. ~AtRest(actAtt[c])
    BY <1>13, <2>1 DEF AtRest, IInv, SlotInv, ActiveStates, TerminalStates,
       StreamTerminal, Observing
  <2> QED BY <1>13, <2>1, <2>2 DEF IInv, TypeOK, RestKept, AtRest,
     StreamTerminal, EndFrame, ProjectTerminal, SetAttemptUnknown,
     TerminalStates, Observing
<1>14. ASSUME NEW c \in Actions, NEW effect \in EffectStates,
             StreamUnknown(c, effect)
      PROVE  RestKept
  <2>1. /\ actAtt[c] \in Attempts /\ attState[actAtt[c]] # "absent"
        /\ attReq[actAtt[c]] \in Requests
    BY <1>14, PerformedAttempt DEF StreamUnknown, Observing, Idle
  <2>2. ~AtRest(actAtt[c])
    BY <1>14, <2>1 DEF AtRest, IInv, SlotInv, ActiveStates, TerminalStates,
       StreamUnknown, Observing
  <2> QED BY <1>14, <2>1, <2>2 DEF IInv, TypeOK, RestKept, AtRest, StreamUnknown,
     EndFrame, SetAttemptUnknown, Observing
<1>15. ASSUME NEW c \in Actions, NEW over, ToolStarted(c, over)
      PROVE  RestKept
  <2>1. /\ actAtt[c] \in Attempts /\ attState[actAtt[c]] # "absent"
        /\ attReq[actAtt[c]] \in Requests
    BY <1>15, PerformedAttempt DEF ToolStarted, InBudget, Observing, Idle
  <2>2. ~AtRest(actAtt[c])
    BY <1>15, <2>1 DEF AtRest, IInv, SlotInv, ActiveStates, TerminalStates,
       ToolStarted, InBudget, Observing
  <2>3. /\ \A b \in Attempts : b # actAtt[c] =>
             /\ attState'[b] = attState[b] /\ attEffect'[b] = attEffect[b]
             /\ attTool'[b] = attTool[b]
        /\ UNCHANGED waitVars
    BY <1>15, <2>1 DEF IInv, TypeOK, ToolStarted, ChargeOutput, EventFrame
  <2>4. \A e \in Actions : \/ actAtt'[e] = actAtt[c]
                           \/ /\ actAtt'[e] = actAtt[e]
                              /\ actStatus'[e] = actStatus[e]
    BY <1>15 DEF IInv, TypeOK, ToolStarted, ChargeOutput, InsertAction
  <2> QED BY <2>2, <2>3, <2>4 DEF RestKept, AtRest
<1>16. ASSUME NEW c \in Actions, NEW over, NEW end,
             ToolCompleted(c, over, end)
      PROVE  RestKept
  <2>1. /\ actAtt[c] \in Attempts /\ attState[actAtt[c]] # "absent"
        /\ attReq[actAtt[c]] \in Requests
    BY <1>16, PerformedAttempt DEF ToolCompleted, InBudget, Observing, Idle
  <2>2. ~AtRest(actAtt[c])
    BY <1>16, <2>1 DEF AtRest, IInv, SlotInv, ActiveStates, TerminalStates,
       ToolCompleted, InBudget, Observing
  <2>3. /\ \A b \in Attempts : b # actAtt[c] =>
             /\ attState'[b] = attState[b] /\ attEffect'[b] = attEffect[b]
             /\ attTool'[b] = attTool[b]
        /\ UNCHANGED waitVars
    BY <1>16, <2>1 DEF IInv, TypeOK, ToolCompleted, ChargeOutput, EventFrame
  <2>4. \A e \in Actions : \/ actAtt'[e] = actAtt[c]
                           \/ /\ actAtt'[e] = actAtt[e]
                              /\ actStatus'[e] = actStatus[e]
    BY <1>16 DEF IInv, TypeOK, ToolCompleted, ChargeOutput, InsertAction
  <2> QED BY <2>2, <2>3, <2>4 DEF RestKept, AtRest
<1>17. ASSUME NEW c \in Actions, OutputLimit(c)
      PROVE  RestKept
  <2>1. /\ actAtt[c] \in Attempts /\ attState[actAtt[c]] # "absent"
        /\ attReq[actAtt[c]] \in Requests
    BY <1>17, PerformedAttempt DEF OutputLimit, InBudget, Observing, Idle
  <2>2. ~AtRest(actAtt[c])
    BY <1>17, <2>1 DEF AtRest, IInv, SlotInv, ActiveStates, TerminalStates,
       OutputLimit, InBudget, Observing
  <2>3. /\ \A b \in Attempts : b # actAtt[c] =>
             /\ attState'[b] = attState[b] /\ attEffect'[b] = attEffect[b]
             /\ attTool'[b] = attTool[b]
        /\ UNCHANGED waitVars
    BY <1>17, <2>1 DEF IInv, TypeOK, OutputLimit, ChargeOutput, EventFrame
  <2>4. \A e \in Actions : \/ actAtt'[e] = actAtt[c]
                           \/ /\ actAtt'[e] = actAtt[e]
                              /\ actStatus'[e] = actStatus[e]
    BY <1>17 DEF IInv, TypeOK, OutputLimit, ChargeOutput, InsertAction
  <2> QED BY <2>2, <2>3, <2>4 DEF RestKept, AtRest
<1>18. ASSUME NEW c \in Actions, EnterWaiting(c)
      PROVE  RestKept
  <2>1. /\ actAtt[c] \in Attempts /\ attState[actAtt[c]] # "absent"
        /\ attReq[actAtt[c]] \in Requests
    BY <1>18, PerformedAttempt DEF EnterWaiting, Observing, Idle
  <2>2. ~AtRest(actAtt[c])
    BY <1>18, <2>1 DEF AtRest, IInv, SlotInv, ActiveStates, TerminalStates,
       EnterWaiting, Observing
  <2> QED BY <1>18, <2>1, <2>2 DEF IInv, TypeOK, RestKept, AtRest, EnterWaiting,
     EventFrame, Observing
<1>19. ASSUME NEW c \in Actions, NEW w \in Waits, NEW over,
             WaitRequested(c, w, over)
      PROVE  RestKept
  <2>1. /\ actAtt[c] \in Attempts /\ attState[actAtt[c]] # "absent"
        /\ attReq[actAtt[c]] \in Requests
    BY <1>19, PerformedAttempt DEF WaitRequested, InBudget, Observing, Idle
  <2>2. ~AtRest(actAtt[c])
    BY <1>19, <2>1 DEF AtRest, IInv, SlotInv, ActiveStates, TerminalStates,
       WaitRequested, InBudget, Observing
  <2>3. /\ \A b \in Attempts : b # actAtt[c] =>
             /\ attState'[b] = attState[b] /\ attEffect'[b] = attEffect[b]
             /\ attTool'[b] = attTool[b]
        /\ \A v \in Waits : \/ waitAtt'[v] = actAtt[c]
                            \/ /\ waitAtt'[v] = waitAtt[v]
                               /\ waitStatus'[v] = waitStatus[v]
    BY <1>19, <2>1 DEF IInv, TypeOK, WaitRequested, ChargeOutput, EventFrame
  <2>4. \A e \in Actions : \/ actAtt'[e] = actAtt[c]
                           \/ /\ actAtt'[e] = actAtt[e]
                              /\ actStatus'[e] = actStatus[e]
    BY <1>19 DEF IInv, TypeOK, WaitRequested, ChargeOutput, InsertAction
  <2> QED BY <2>2, <2>3, <2>4 DEF RestKept, AtRest
<1>20. ASSUME NEW outcome \in TerminalStates, NEW effect \in EffectStates,
             NEW class, ReconcileApply(outcome, effect, class)
      PROVE  RestKept
  <2>1. /\ reconciling \in Attempts /\ attState[reconciling] # "absent"
        /\ attReq[reconciling] \in Requests
    BY <1>20 DEF IInv, TypeOK, RowInv, ReconcileApply
  <2> QED BY <1>20, <2>1 DEF IInv, TypeOK, RestKept, AtRest, SlotInv,
     ActiveStates, TerminalStates, ReconcileApply, EndFrame, ProjectTerminal,
     SetAttemptUnknown, CancelStream
<1>21. CASE Restart
  <2>1. active # 0 => /\ active \in Attempts /\ attState[active] # "absent"
                      /\ attReq[active] \in Requests
    BY DEF IInv, TypeOK, RowInv, SlotInv, ActiveStates
  <2> QED BY <1>21, <2>1 DEF IInv, TypeOK, RestKept, AtRest, SlotInv,
     ActiveStates, TerminalStates, Restart, RecoverActive, SetAttemptUnknown
<1>22. CASE UNCHANGED <<attState, attEffect, attTool, actAtt,
                       actStatus, waitVars>>
  BY <1>22 DEF RestKept, AtRest
<1>23. CASE CommandStep
  BY <1>23, <1>1, <1>2, <1>3, <1>22 DEF CommandStep, DialogCreate,
     MessageEnqueue, RequestCancel, QueueResume, AttemptRetry
<1>24. CASE LoopStep
  BY <1>24, <1>4, <1>22 DEF LoopStep, PeekDispatch, BlockPolicy, DropCandidate
<1>25. ASSUME NEW c \in Actions, WorkerStep(c) PROVE RestKept
  BY <1>25, <1>6, <1>7, <1>8, <1>9, <1>10, <1>11, <1>12, <1>22 DEF WorkerStep,
     EnterDispatch, IssueTurn, StartReturns, CancelReturns, SteerReturns,
     RespondReturns, TransactionLost, DurableUnchanged
<1>26. ASSUME NEW c \in Actions, StreamEnds(c) PROVE RestKept
  BY <1>26, <1>13, <1>14, <1>22 DEF StreamEnds, RegisterStream, StreamClosed,
     DurableUnchanged
<1>27. ASSUME NEW c \in Actions, StreamEvent(c) PROVE RestKept
  BY <1>27, <1>15, <1>16, <1>17, <1>18, <1>19 DEF StreamEvent
<1>28. CASE ReconcileStep
  BY <1>28, StateValues, <1>20, <1>22 DEF ReconcileStep, ReconcileBegin,
     ReconcileNone, DurableUnchanged
<1>29. CASE ProviderStep
  BY <1>29, <1>22 DEF ProviderStep, ProviderStarts, ProviderEnds,
     DurableUnchanged
<1>30. CASE BarrierStep
  BY <1>30, <1>22 DEF BarrierStep, InstallHold, ReleaseHold,
     DeleteLogicalDialog, BeginSettings, SettingsSwap, SettingsRelease,
     SetSettingsReady, ProviderAuthStart, ProviderAuthCheck,
     ProviderAuthSettles, RowsUnchanged, SettingsFrame, AuthFrame
<1>31. CASE UNCHANGED vars
  BY <1>31, <1>22 DEF vars
<1> QED BY <1>23, <1>24, <1>5, <1>25, <1>26, <1>27, <1>28, <1>29, <1>30,
   <1>21, <1>31 DEF Next

-----------------------------------------------------------------------------
\* A scope that came to rest.

\* The request is neither queued nor over.
OpenRequest == {"dispatching", "active", "unknown"}

\* A request is opened for its attempt, or by an uncertain steer of its message.
RequestOpened ==
  \A r \in Requests : reqStatus'[r] \in OpenRequest =>
    \/ reqStatus[r] \in OpenRequest
    \/ \E a \in Attempts : attState'[a] \in ActiveStates /\ attReq'[a] = r
    \/ \E c \in Actions : LiveSteer(c) /\ reqMsg[r] = actObj[c]

\* The other steps queue a request or end it.
LEMMA RequestIsOpened ==
  ASSUME IInv, [Next]_vars
  PROVE  RequestOpened
<1>1. ASSUME NEW d \in Dialogs, NEW m \in Messages, NEW r \in Requests,
             MessageEnqueue(d, m, r)
      PROVE  RequestOpened
  BY <1>1 DEF IInv, TypeOK, RequestOpened, OpenRequest, ActiveStates,
     MessageEnqueue, NextMessage, NextRequest
<1>2. ASSUME NEW r \in Requests, NEW low, RequestCancel(r, low)
      PROVE  RequestOpened
  BY <1>2 DEF IInv, TypeOK, RequestOpened, OpenRequest, ActiveStates,
     RequestCancel, ControlState
<1>3. ASSUME NEW a \in Attempts, NEW ack \in BOOLEAN, NEW r \in Requests,
             AttemptRetry(a, ack, r)
      PROVE  RequestOpened
  BY <1>3 DEF IInv, TypeOK, RequestOpened, OpenRequest, ActiveStates,
     AttemptRetry, NextRequest, Retryable, MessageOfAttempt
<1>4. ASSUME NEW r \in Requests, NEW a \in Attempts, NEW c \in Actions,
             CommitDispatch(r, a, c)
      PROVE  RequestOpened
  <2>1. attState'[a] = "dispatching" /\ attReq'[a] = r
    BY <1>4 DEF IInv, TypeOK, CommitDispatch
  <2> QED BY <1>4, <2>1 DEF IInv, TypeOK, RequestOpened, OpenRequest,
      ActiveStates, CommitDispatch
<1>5. ASSUME NEW c \in Actions, MarkStarted(c)
      PROVE  RequestOpened
  <2>1. /\ actAtt[c] \in Attempts /\ attState[actAtt[c]] # "absent"
        /\ attReq[actAtt[c]] \in Requests
    BY <1>5, PerformedAttempt DEF MarkStarted, Idle
  <2> QED BY <1>5, <2>1 DEF IInv, TypeOK, RequestOpened, OpenRequest,
     ActiveStates, MarkStarted
<1>6. ASSUME NEW c \in Actions, MarkUnknown(c)
      PROVE  RequestOpened
  <2>1. /\ actAtt[c] \in Attempts /\ attState[actAtt[c]] # "absent"
        /\ attReq[actAtt[c]] \in Requests
    BY <1>6, PerformedAttempt DEF MarkUnknown, Idle
  <2> QED BY <1>6, <2>1 DEF IInv, TypeOK, RequestOpened, OpenRequest,
     ActiveStates, MarkUnknown, SetAttemptUnknown, OwnsSlot
<1>7. ASSUME NEW c \in Actions, RejectStart(c)
      PROVE  RequestOpened
  <2>1. /\ actAtt[c] \in Attempts /\ attState[actAtt[c]] # "absent"
        /\ attReq[actAtt[c]] \in Requests
    BY <1>7, PerformedAttempt DEF RejectStart, Idle
  <2> QED BY <1>7, <2>1 DEF IInv, TypeOK, RequestOpened, OpenRequest,
     ActiveStates, RejectStart, OwnsSlot
<1>8. ASSUME NEW c \in Actions, FinishSteer(c)
      PROVE  RequestOpened
  <2>1. /\ actAtt[c] \in Attempts /\ attState[actAtt[c]] # "absent"
        /\ attReq[actAtt[c]] \in Requests /\ LiveSteer(c)
    BY <1>8, PerformedAttempt DEF FinishSteer, Outcomes, Idle, LiveSteer
  <2>2. \A r \in Requests :
          \/ reqStatus'[r] = reqStatus[r]
          \/ reqStatus'[r] = "completed"
          \/ reqMsg[r] = actObj[c]
          \/ r = attReq[actAtt[c]] /\ attState'[actAtt[c]] = "unknown"
    BY <1>8, <2>1 DEF IInv, TypeOK, FinishSteer, SetAttemptUnknown,
       OriginalRequest
  <2>3. attReq' = attReq
    BY <1>8 DEF FinishSteer
  <2> QED BY <2>1, <2>2, <2>3 DEF RequestOpened, OpenRequest, ActiveStates
<1>9. ASSUME NEW c \in Actions, FinishResponse(c)
      PROVE  RequestOpened
  <2>1. /\ actAtt[c] \in Attempts /\ attState[actAtt[c]] # "absent"
        /\ attReq[actAtt[c]] \in Requests
    BY <1>9, PerformedAttempt DEF FinishResponse, Outcomes, Idle
  <2> QED BY <1>9, <2>1 DEF IInv, TypeOK, RequestOpened, OpenRequest,
     ActiveStates, FinishResponse, SetAttemptUnknown, FinishStep, Outcomes
<1>10. ASSUME NEW c \in Actions, NEW outcome \in TerminalStates,
             NEW effect \in EffectStates, NEW class,
             StreamTerminal(c, outcome, effect, class)
      PROVE  RequestOpened
  <2>1. /\ actAtt[c] \in Attempts /\ attState[actAtt[c]] # "absent"
        /\ attReq[actAtt[c]] \in Requests
    BY <1>10, PerformedAttempt DEF StreamTerminal, Observing, Idle
  <2> QED BY <1>10, <2>1 DEF IInv, TypeOK, RequestOpened, OpenRequest,
     ActiveStates, StreamTerminal, EndFrame, ProjectTerminal,
     SetAttemptUnknown, TerminalStates, Observing
<1>11. ASSUME NEW c \in Actions, NEW effect \in EffectStates,
             StreamUnknown(c, effect)
      PROVE  RequestOpened
  <2>1. /\ actAtt[c] \in Attempts /\ attState[actAtt[c]] # "absent"
        /\ attReq[actAtt[c]] \in Requests
    BY <1>11, PerformedAttempt DEF StreamUnknown, Observing, Idle
  <2> QED BY <1>11, <2>1 DEF IInv, TypeOK, RequestOpened, OpenRequest,
     ActiveStates, StreamUnknown, EndFrame, SetAttemptUnknown, Observing
<1>12. ASSUME NEW outcome \in TerminalStates, NEW effect \in EffectStates,
             NEW class, ReconcileApply(outcome, effect, class)
      PROVE  RequestOpened
  <2>1. /\ reconciling \in Attempts /\ attState[reconciling] # "absent"
        /\ attReq[reconciling] \in Requests
    BY <1>12 DEF IInv, TypeOK, RowInv, ReconcileApply
  <2> QED BY <1>12, <2>1 DEF IInv, TypeOK, RequestOpened, OpenRequest,
     ActiveStates, ReconcileApply, EndFrame, ProjectTerminal,
     SetAttemptUnknown, TerminalStates, CancelStream
<1>13. CASE Restart
  <2>1. active # 0 => /\ active \in Attempts /\ attState[active] # "absent"
                      /\ attReq[active] \in Requests
    BY DEF IInv, TypeOK, RowInv, SlotInv, ActiveStates
  <2> QED BY <1>13, <2>1 DEF IInv, TypeOK, RequestOpened, OpenRequest,
     ActiveStates, Restart, RecoverActive, SetAttemptUnknown
<1>14. CASE UNCHANGED reqStatus
  BY <1>14 DEF RequestOpened
<1>15. CASE CommandStep
  BY <1>15, <1>1, <1>2, <1>3, <1>14 DEF CommandStep, DialogCreate,
     QueueResume, AttemptStop, MessageSteer, Respond
<1>16. CASE LoopStep
  BY <1>16, <1>4, <1>14 DEF LoopStep, PeekDispatch, BlockPolicy, DropCandidate
<1>17. ASSUME NEW c \in Actions, ClaimAction(c) PROVE RequestOpened
  BY <1>17, <1>14 DEF ClaimAction
<1>18. ASSUME NEW c \in Actions, WorkerStep(c) PROVE RequestOpened
  BY <1>18, <1>5, <1>6, <1>7, <1>8, <1>9, <1>14 DEF WorkerStep,
     RequeueDispatch, EnterDispatch, IssueTurn, StartReturns, CancelReturns,
     SteerReturns, RespondReturns, TransactionLost, FinishAction,
     DurableUnchanged
<1>19. ASSUME NEW c \in Actions, StreamEnds(c) PROVE RequestOpened
  BY <1>19, <1>10, <1>11, <1>14 DEF StreamEnds, RegisterStream, StreamClosed,
     DurableUnchanged
<1>20. ASSUME NEW c \in Actions, StreamEvent(c) PROVE RequestOpened
  BY <1>20, <1>14 DEF StreamEvent, ToolStarted, ToolCompleted, OutputLimit,
     EnterWaiting, WaitRequested, EventFrame
<1>21. CASE ReconcileStep
  BY <1>21, StateValues, <1>12, <1>14 DEF ReconcileStep, ReconcileBegin,
     ReconcileNone, DurableUnchanged
<1>22. CASE ProviderStep
  BY <1>22, <1>14 DEF ProviderStep, ProviderStarts, ProviderEnds,
     DurableUnchanged
<1>23. CASE BarrierStep
  BY <1>23, <1>14 DEF BarrierStep, InstallHold, ReleaseHold,
     DeleteLogicalDialog, BeginSettings, SettingsSwap, SettingsRelease,
     SetSettingsReady, ProviderAuthStart, ProviderAuthCheck,
     ProviderAuthSettles, RowsUnchanged, SettingsFrame, AuthFrame
<1>24. CASE UNCHANGED vars
  BY <1>24, <1>14 DEF vars
<1> QED BY <1>15, <1>16, <1>17, <1>18, <1>19, <1>20, <1>21, <1>22, <1>23,
   <1>13, <1>24 DEF Next

\* What QuiescenceProof found, attempt by attempt.
Resting(scope) ==
  /\ \A a \in Attempts : InScope(scope, a) => AtRest(a)
  /\ \A r \in Requests : reqStatus[r] \in OpenRequest
                         => scope # NodeScope /\ DialogOf(r) # scope

\* The two say the same.
LEMMA QuiescentRests ==
  ASSUME TypeOK, NEW scope
  PROVE  Quiescent(scope) <=> Resting(scope)
<1>1. ASSUME Quiescent(scope), NEW a \in Attempts, InScope(scope, a)
      PROVE  AtRest(a)
  <2>1. attState[a] \in TerminalStates
    BY <1>1 DEF Quiescent, ActiveIn, ActiveAttempts, InScope, TypeOK,
       AttemptStates
  <2>2. /\ attEffect[a] # "unknown"
        /\ attTool[a] \notin {"running", "uncertain"}
    BY <1>1 DEF Quiescent, Settled
  <2>3. \A c \in Actions : actAtt[c] = a =>
          actStatus[c] \in {"acknowledged", "rejected"}
    BY <1>1, AttemptsPositive DEF Quiescent, Settled
  <2>4. \A w \in Waits : waitAtt[w] = a => waitStatus[w] = "resolved"
    BY <1>1, AttemptsPositive DEF Quiescent, Settled
  <2> QED BY <2>1, <2>2, <2>3, <2>4 DEF AtRest
<1>2. ASSUME Resting(scope) PROVE Quiescent(scope)
  <2>1. ActiveIn(scope) = {}
    BY <1>2 DEF Resting, ActiveIn, ActiveAttempts, InScope, AtRest,
       ActiveStates, TerminalStates
  <2>2. Settled(scope)
    <3>1. ASSUME NEW c \in Actions, actAtt[c] # 0, InScope(scope, actAtt[c])
          PROVE  actStatus[c] \in {"acknowledged", "rejected"}
      BY <1>2, <3>1 DEF Resting, AtRest, TypeOK
    <3>2. ASSUME NEW a \in Attempts, InScope(scope, a)
          PROVE  /\ attEffect[a] # "unknown"
                 /\ attTool[a] \notin {"running", "uncertain"}
      BY <1>2, <3>2 DEF Resting, AtRest
    <3>3. ASSUME NEW w \in Waits, waitAtt[w] # 0, InScope(scope, waitAtt[w])
          PROVE  waitStatus[w] = "resolved"
      BY <1>2, <3>3 DEF Resting, AtRest, TypeOK
    <3> QED BY <3>1, <3>2, <3>3 DEF Settled
  <2> QED BY <1>2, <2>1, <2>2 DEF Quiescent, Resting, OpenRequest
<1> QED BY <1>1, <1>2 DEF Resting, Quiescent, OpenRequest

\* The same of the next state.
LEMMA QuiescentRestsNext ==
  ASSUME TypeOK', NEW scope
  PROVE  Quiescent(scope)' <=> Resting(scope)'
<1>1. ASSUME Quiescent(scope)', NEW a \in Attempts, InScope(scope, a)'
      PROVE  AtRest(a)'
  <2>1. attState'[a] \in TerminalStates
    BY <1>1 DEF Quiescent, ActiveIn, ActiveAttempts, InScope, TypeOK,
       AttemptStates
  <2>2. /\ attEffect'[a] # "unknown"
        /\ attTool'[a] \notin {"running", "uncertain"}
    BY <1>1 DEF Quiescent, Settled
  <2>3. \A c \in Actions : actAtt'[c] = a =>
          actStatus'[c] \in {"acknowledged", "rejected"}
    BY <1>1, AttemptsPositive DEF Quiescent, Settled
  <2>4. \A w \in Waits : waitAtt'[w] = a => waitStatus'[w] = "resolved"
    BY <1>1, AttemptsPositive DEF Quiescent, Settled
  <2> QED BY <2>1, <2>2, <2>3, <2>4 DEF AtRest
<1>2. ASSUME Resting(scope)' PROVE Quiescent(scope)'
  <2>1. ActiveIn(scope)' = {}
    BY <1>2 DEF Resting, ActiveIn, ActiveAttempts, InScope, AtRest,
       ActiveStates, TerminalStates
  <2>2. Settled(scope)'
    <3>1. ASSUME NEW c \in Actions, actAtt'[c] # 0, InScope(scope, actAtt[c])'
          PROVE  actStatus'[c] \in {"acknowledged", "rejected"}
      BY <1>2, <3>1 DEF Resting, AtRest, TypeOK
    <3>2. ASSUME NEW a \in Attempts, InScope(scope, a)'
          PROVE  /\ attEffect'[a] # "unknown"
                 /\ attTool'[a] \notin {"running", "uncertain"}
      BY <1>2, <3>2 DEF Resting, AtRest
    <3>3. ASSUME NEW w \in Waits, waitAtt'[w] # 0, InScope(scope, waitAtt[w])'
          PROVE  waitStatus'[w] = "resolved"
      BY <1>2, <3>3 DEF Resting, AtRest, TypeOK
    <3> QED BY <3>1, <3>2, <3>3 DEF Settled
  <2> QED BY <1>2, <2>1, <2>2 DEF Quiescent, Resting, OpenRequest
<1> QED BY <1>1, <1>2 DEF Resting, Quiescent, OpenRequest

\* Nothing that waits in the queue for the scope can be dispatched.
Shut(scope) ==
  \A r \in Requests : /\ reqStatus[r] = "queued"
                      /\ scope = NodeScope \/ DialogOf(r) = scope
                      => Held(DialogOf(r))

\* A scope at rest that is shut stays at rest.
LEMMA RestingNext ==
  ASSUME IInv, IInv', RefInv, ActInv, RowsKept, ObjectInv, SteerSlotInv,
         [Next]_vars, NEW scope, Resting(scope), Shut(scope)
  PROVE  Resting(scope)'
<1>1. ASSUME NEW a \in Attempts, InScope(scope, a)'
      PROVE  InScope(scope, a)
  <2>1. CASE attState[a] # "absent"
    BY <1>1, <2>1, DialogsFixed DEF InScope
  <2>2. CASE attState[a] = "absent"
    <3>1. PICK r \in Requests, b \in Attempts, c \in Actions :
            CommitDispatch(r, b, c)
      BY <1>1, <2>2, AttemptIsAdded DEF AttemptAdded, NoNewAttempt, InScope
    <3>2. a = b
      BY <1>1, <2>2, <3>1 DEF CommitDispatch, IInv, TypeOK, InScope
    <3>3. /\ attReq'[a] = r /\ reqStatus[r] = "queued"
          /\ ~Held(DialogOf(r))
      BY <3>1, <3>2 DEF CommitDispatch, CandidateCurrent, QueueHead, Unheld,
         Queued, IInv, TypeOK
    <3>4. DialogOfAttempt(a)' = DialogOf(r)
      BY <3>3, DialogsFixed DEF DialogOfAttempt
    <3> QED BY <1>1, <3>3, <3>4 DEF Shut, InScope
  <2> QED BY <2>1, <2>2
<1>2. ASSUME NEW a \in Attempts, InScope(scope, a)'
      PROVE  AtRest(a)'
  BY <1>1, <1>2, RestIsKept DEF RestKept, Resting
<1>3. ASSUME NEW r \in Requests, reqStatus'[r] \in OpenRequest
      PROVE  scope # NodeScope /\ DialogOf(r)' # scope
  <2>1. CASE reqStatus[r] \in OpenRequest
    BY <2>1, DialogsFixed DEF Resting, OpenRequest
  <2>2. ASSUME NEW a \in Attempts, attState'[a] \in ActiveStates, attReq'[a] = r
        PROVE  scope # NodeScope /\ DialogOf(r)' # scope
    <3>1. ~AtRest(a)' /\ attState'[a] # "absent"
      BY <2>2 DEF AtRest, ActiveStates, TerminalStates
    <3>2. DialogOfAttempt(a)' = DialogOf(r)'
      BY <2>2 DEF DialogOfAttempt
    <3> QED BY <1>2, <3>1, <3>2 DEF InScope
  <2>3. ASSUME NEW c \in Actions, LiveSteer(c), reqMsg[r] = actObj[c]
        PROVE  scope # NodeScope /\ DialogOf(r)' # scope
    <3>1. actStatus[c] # "absent"
      BY <2>3 DEF LiveSteer, ActInv
    <3>2. actAtt[c] \in Attempts /\ active = actAtt[c]
      BY <2>3, <3>1 DEF SteerSlotInv, IInv, RowInv
    <3>3. attState[actAtt[c]] \in ActiveStates
      BY <3>2 DEF IInv, SlotInv
    <3>4. ~AtRest(actAtt[c]) /\ attState[actAtt[c]] # "absent"
      BY <3>3 DEF AtRest, ActiveStates, TerminalStates
    <3>5. scope # NodeScope /\ DialogOfAttempt(actAtt[c]) # scope
      BY <3>2, <3>4 DEF Resting, InScope
    <3>6. DialogOf(r) = DialogOfAttempt(actAtt[c])
      BY <2>3 DEF ObjectInv, ObjectOk, LiveSteer, DialogOf
    <3>7. reqStatus[r] # "absent"
      BY <2>3, MessagesPositive DEF RefInv, LiveSteer, IInv, RowInv
    <3> QED BY <3>5, <3>6, <3>7, DialogsFixed
  <2> QED BY <1>3, <2>1, <2>2, <2>3, RequestIsOpened DEF RequestOpened
<1> QED BY <1>2, <1>3 DEF Resting

\* A scope that is quiescent and shut stays quiescent.
LEMMA QuiescentKept ==
  ASSUME IInv, RefInv, ActInv, ObjectInv, RowsInv, [Next]_vars,
         NEW scope, Quiescent(scope), Shut(scope)
  PROVE  Quiescent(scope)'
<1>1. IInv' /\ RowsKept
  BY NextInv, RowsAreKept
<1>2. Resting(scope)
  BY QuiescentRests DEF IInv
<1>3. Resting(scope)'
  BY <1>1, <1>2, RestingNext DEF RowsInv
<1> QED BY <1>1, <1>3, QuiescentRestsNext DEF IInv

\* Every action refers to an object of its attempt.
THEOREM ObjectInvariance == Spec => []ObjectInv
<1>1. IInv /\ RefInv /\ ActInv /\ ObjectInv /\ [Next]_vars => ObjectInv'
  BY RowsAreKept, WaitsAreKept, ObjectNext
<1> QED BY <1>1, ObjectInit, Invariance, RefInvariance, ActInvariance, PTL
    DEF Spec

\* A scope for which QuiescenceProof was given stays quiescent for as long as
\* InstallHold's row is kept: no command, candidate, late outcome of the adapter
\* or restart reopens it.
THEOREM QuiescenceStable == Spec => QuiescenceIsStable
<1>1. ASSUME IInv, RefInv, ActInv, ObjectInv, RowsInv, [Next]_vars,
             NEW scope \in holds, Quiescent(scope)
      PROVE  Quiescent(scope)'
  <2>1. Shut(scope)
    BY DEF Shut, Held
  <2> QED BY <1>1, <2>1, QuiescentKept
<1>2. IInv /\ RefInv /\ ActInv /\ ObjectInv /\ RowsInv /\ [Next]_vars
        => [\A scope \in holds : scope \in holds' /\ Quiescent(scope)
                                 => Quiescent(scope)']_vars
  BY <1>1
<1> QED BY <1>2, Invariance, RefInvariance, ActInvariance, ObjectInvariance,
    RowsInvariance, PTL DEF Spec, QuiescenceIsStable

-----------------------------------------------------------------------------
\* The goroutine that reads the events of an attempt.

\* The action has an outcome nobody knows, or is on its way to one: finishAction
\* can only record it as unknown, or fail to.
Stuck(d) ==
  \/ actStatus[d] = "unknown"
  \/ actStatus[d] = "inflight" /\ pc[d] \in {Idle, "uncertain", "finish_unk"}

StuckKept == \A d \in Actions : Stuck(d) => Stuck(d)'

\* An outcome nobody knows stays unknown.
LEMMA StuckIsKept ==
  ASSUME IInv, ActInv, [Next]_vars
  PROVE  StuckKept
<1>1. ASSUME NEW a \in Attempts, NEW c \in Actions, NEW low,
             AttemptStop(a, c, low)
      PROVE  StuckKept
  BY <1>1 DEF IInv, TypeOK, StuckKept, Stuck, Idle, AttemptStop, InsertAction,
     NextAction
<1>2. ASSUME NEW m \in Messages, NEW a \in Attempts, NEW c \in Actions,
             NEW low, MessageSteer(m, a, c, low)
      PROVE  StuckKept
  BY <1>2 DEF IInv, TypeOK, StuckKept, Stuck, Idle, MessageSteer, InsertAction,
     NextAction
<1>3. ASSUME NEW w \in Waits, NEW c \in Actions, NEW low, Respond(w, c, low)
      PROVE  StuckKept
  BY <1>3 DEF IInv, TypeOK, StuckKept, Stuck, Idle, Respond, InsertAction,
     NextAction
<1>4. ASSUME NEW r \in Requests, NEW a \in Attempts, NEW c \in Actions,
             CommitDispatch(r, a, c)
      PROVE  StuckKept
  BY <1>4 DEF IInv, TypeOK, StuckKept, Stuck, Idle, CommitDispatch,
     InsertAction, NextAction
<1>5. ASSUME NEW c \in Actions, ClaimAction(c)
      PROVE  StuckKept
  BY <1>5 DEF IInv, TypeOK, StuckKept, Stuck, Idle, ClaimAction, Claimable
<1>6. ASSUME NEW c \in Actions, RequeueDispatch(c)
      PROVE  StuckKept
  BY <1>6 DEF IInv, TypeOK, StuckKept, Stuck, Idle, RequeueDispatch, ActInv,
     ReadSteps
<1>7. ASSUME NEW c \in Actions, EnterDispatch(c)
      PROVE  StuckKept
  BY <1>7 DEF IInv, TypeOK, StuckKept, Stuck, Idle, EnterDispatch,
     DurableUnchanged
<1>8. ASSUME NEW c \in Actions, StartReturns(c)
      PROVE  StuckKept
  BY <1>8 DEF IInv, TypeOK, StuckKept, Stuck, Idle, StartReturns,
     DurableUnchanged
<1>9. ASSUME NEW c \in Actions, MarkStarted(c)
      PROVE  StuckKept
  BY <1>9 DEF IInv, TypeOK, StuckKept, Stuck, Idle, MarkStarted
<1>10. ASSUME NEW c \in Actions, MarkUnknown(c)
      PROVE  StuckKept
  BY <1>10 DEF IInv, TypeOK, StuckKept, Stuck, Idle, MarkUnknown
<1>11. ASSUME NEW c \in Actions, RejectStart(c)
      PROVE  StuckKept
  BY <1>11 DEF IInv, TypeOK, StuckKept, Stuck, Idle, RejectStart
<1>12. ASSUME NEW c \in Actions, CancelReturns(c)
      PROVE  StuckKept
  BY <1>12 DEF IInv, TypeOK, StuckKept, Stuck, Idle, CancelReturns,
     DurableUnchanged
<1>13. ASSUME NEW c \in Actions, SteerReturns(c)
      PROVE  StuckKept
  BY <1>13 DEF IInv, TypeOK, StuckKept, Stuck, Idle, SteerReturns,
     DurableUnchanged
<1>14. ASSUME NEW c \in Actions, RespondReturns(c)
      PROVE  StuckKept
  BY <1>14 DEF IInv, TypeOK, StuckKept, Stuck, Idle, RespondReturns,
     DurableUnchanged
<1>15. ASSUME NEW c \in Actions, FinishSteer(c)
      PROVE  StuckKept
  BY <1>15 DEF IInv, TypeOK, StuckKept, Stuck, Idle, FinishSteer, FinishStep
<1>16. ASSUME NEW c \in Actions, FinishResponse(c)
      PROVE  StuckKept
  BY <1>16 DEF IInv, TypeOK, StuckKept, Stuck, Idle, FinishResponse, FinishStep
<1>17. ASSUME NEW c \in Actions, TransactionLost(c)
      PROVE  StuckKept
  BY <1>17 DEF IInv, TypeOK, StuckKept, Stuck, Idle, TransactionLost,
     DurableUnchanged, FinishStep
<1>18. ASSUME NEW c \in Actions, FinishAction(c)
      PROVE  StuckKept
  BY <1>18 DEF IInv, TypeOK, StuckKept, Stuck, Idle, FinishAction
<1>19. ASSUME NEW c \in Actions, RegisterStream(c)
      PROVE  StuckKept
  BY <1>19 DEF IInv, TypeOK, StuckKept, Stuck, Idle, RegisterStream,
     DurableUnchanged, Observing
<1>20. ASSUME NEW c \in Actions, StreamClosed(c)
      PROVE  StuckKept
  BY <1>20 DEF IInv, TypeOK, StuckKept, Stuck, Idle, StreamClosed,
     DurableUnchanged, Observing
<1>21. ASSUME NEW c \in Actions, NEW outcome \in TerminalStates,
             NEW effect \in EffectStates, NEW class,
             StreamTerminal(c, outcome, effect, class)
      PROVE  StuckKept
  BY <1>21 DEF IInv, TypeOK, StuckKept, Stuck, Idle, StreamTerminal, EndFrame,
     Observing
<1>22. ASSUME NEW c \in Actions, NEW effect \in EffectStates,
             StreamUnknown(c, effect)
      PROVE  StuckKept
  BY <1>22 DEF IInv, TypeOK, StuckKept, Stuck, Idle, StreamUnknown, EndFrame,
     Observing
<1>23. ASSUME NEW c \in Actions, NEW over, ToolStarted(c, over)
      PROVE  StuckKept
  BY <1>23 DEF IInv, TypeOK, StuckKept, Stuck, Idle, ToolStarted, EventFrame,
     ChargeOutput, InsertAction, NextAction
<1>24. ASSUME NEW c \in Actions, NEW over, NEW end,
             ToolCompleted(c, over, end)
      PROVE  StuckKept
  BY <1>24 DEF IInv, TypeOK, StuckKept, Stuck, Idle, ToolCompleted, EventFrame,
     ChargeOutput, InsertAction, NextAction
<1>25. ASSUME NEW c \in Actions, OutputLimit(c)
      PROVE  StuckKept
  BY <1>25 DEF IInv, TypeOK, StuckKept, Stuck, Idle, OutputLimit, EventFrame,
     ChargeOutput, InsertAction, NextAction
<1>26. ASSUME NEW c \in Actions, NEW w \in Waits, NEW over,
             WaitRequested(c, w, over)
      PROVE  StuckKept
  BY <1>26 DEF IInv, TypeOK, StuckKept, Stuck, Idle, WaitRequested, EventFrame,
     ChargeOutput, InsertAction, NextAction
<1>27. ASSUME NEW outcome \in TerminalStates, NEW effect \in EffectStates,
             NEW class, ReconcileApply(outcome, effect, class)
      PROVE  StuckKept
  BY <1>27 DEF IInv, TypeOK, StuckKept, Stuck, Idle, ReconcileApply, EndFrame,
     CancelStream
<1>28. CASE Restart
  BY <1>28 DEF IInv, TypeOK, StuckKept, Stuck, Idle, Restart
<1>29. CASE UNCHANGED <<pc, actStatus>>
  BY <1>29 DEF StuckKept, Stuck
<1>30. CASE CommandStep
  BY <1>30, <1>1, <1>2, <1>3, <1>29 DEF CommandStep, DialogCreate,
     MessageEnqueue, RequestCancel, QueueResume, AttemptRetry
<1>31. CASE LoopStep
  BY <1>31, <1>4, <1>29 DEF LoopStep, PeekDispatch, BlockPolicy, DropCandidate
<1>32. ASSUME NEW c \in Actions, WorkerStep(c) PROVE StuckKept
  BY <1>32, <1>6, <1>7, <1>8, <1>9, <1>10, <1>11, <1>12, <1>13, <1>14, <1>15,
     <1>16, <1>17, <1>18, <1>29 DEF WorkerStep, IssueTurn, DurableUnchanged
<1>33. ASSUME NEW c \in Actions, StreamEnds(c) PROVE StuckKept
  BY <1>33, <1>19, <1>20, <1>21, <1>22 DEF StreamEnds
<1>34. ASSUME NEW c \in Actions, StreamEvent(c) PROVE StuckKept
  BY <1>34, <1>23, <1>24, <1>25, <1>26, <1>29 DEF StreamEvent, EnterWaiting,
     EventFrame
<1>35. CASE ReconcileStep
  BY <1>35, StateValues, <1>27, <1>29 DEF ReconcileStep, ReconcileBegin,
     ReconcileNone, DurableUnchanged
<1>36. CASE ProviderStep
  BY <1>36, <1>29 DEF ProviderStep, ProviderStarts, ProviderEnds,
     DurableUnchanged
<1>37. CASE BarrierStep
  BY <1>37, <1>29 DEF BarrierStep, InstallHold, ReleaseHold,
     DeleteLogicalDialog, BeginSettings, SettingsSwap, SettingsRelease,
     SetSettingsReady, ProviderAuthStart, ProviderAuthCheck,
     ProviderAuthSettles, RowsUnchanged, SettingsFrame, AuthFrame
<1>38. CASE UNCHANGED vars
  BY <1>38, <1>29 DEF vars
<1> QED BY <1>30, <1>31, <1>5, <1>32, <1>33, <1>34, <1>35, <1>36, <1>37,
   <1>28, <1>38 DEF Next

\* The attempt is neither over nor unknown.
LiveStates == ActiveStates \ {"unknown"}

\* What ends an attempt, or makes it unknown, is the goroutine that reads its
\* events or its rejected start, an action that is stuck afterwards, or a
\* restart; and no goroutine reads on once the attempt is over.
LiveLeft ==
  \A a \in Attempts :
    /\ attState[a] \in LiveStates =>
         \/ attState'[a] \in LiveStates
         \/ \E d \in Actions : /\ actStatus[d] # "absent" /\ actAtt[d] = a
                               /\ Stuck(d)'
         \/ \E c \in Actions : /\ actKind[c] = "dispatch.start" /\ actAtt[c] = a
                               /\ pc[c] \in {"streaming", "rejected"}
         \/ \A c \in Actions : pc'[c] = Idle
    /\ attState[a] \in ActiveStates =>
         \/ attState'[a] \in ActiveStates
         \/ \E c \in Actions : /\ actKind[c] = "dispatch.start" /\ actAtt[c] = a
                               /\ pc[c] \in {"streaming", "rejected"}
                               /\ pc'[c] # "streaming"
         \/ \A c \in Actions : actAtt[c] = a => pc'[c] # "streaming"

\* The other steps leave an attempt live.
LEMMA LiveIsLeft ==
  ASSUME IInv, ActInv, [Next]_vars
  PROVE  LiveLeft
<1>1. ASSUME NEW a \in Attempts, NEW c \in Actions, NEW low,
             AttemptStop(a, c, low)
      PROVE  LiveLeft
  BY <1>1 DEF IInv, TypeOK, LiveLeft, LiveStates, ActiveStates, AttemptStop,
     ControlState, InsertAction, NextAction
<1>2. ASSUME NEW r \in Requests, NEW a \in Attempts, NEW c \in Actions,
             CommitDispatch(r, a, c)
      PROVE  LiveLeft
  BY <1>2 DEF IInv, TypeOK, LiveLeft, LiveStates, ActiveStates,
     CommitDispatch, InsertAction, NextAction, CandidateCurrent, QueueHead,
     Unheld, Queued, NextAttempt
<1>3. ASSUME NEW c \in Actions, MarkStarted(c)
      PROVE  LiveLeft
  <2>1. /\ actAtt[c] \in Attempts /\ attState[actAtt[c]] # "absent"
        /\ attReq[actAtt[c]] \in Requests
    BY <1>3, PerformedAttempt DEF MarkStarted, Idle
  <2> QED BY <1>3, <2>1 DEF IInv, TypeOK, LiveLeft, LiveStates, ActiveStates,
     MarkStarted
<1>4. ASSUME NEW c \in Actions, MarkUnknown(c)
      PROVE  LiveLeft
  <2>1. /\ actAtt[c] \in Attempts /\ attState[actAtt[c]] # "absent"
        /\ attReq[actAtt[c]] \in Requests
    BY <1>4, PerformedAttempt DEF MarkUnknown, Idle
  <2>2. \A b \in Attempts : b # actAtt[c] => attState'[b] = attState[b]
    BY <1>4, <2>1 DEF IInv, TypeOK, MarkUnknown, SetAttemptUnknown, OwnsSlot
  <2>3. \/ attState'[actAtt[c]] = attState[actAtt[c]]
        \/ attState'[actAtt[c]] = "unknown" /\ Stuck(c)' /\ actStatus[c] # "absent"
    BY <1>4, <2>1 DEF IInv, TypeOK, ActInv, ReadSteps, Stuck, Idle, MarkUnknown,
       SetAttemptUnknown, OwnsSlot
  <2> QED BY <2>2, <2>3 DEF LiveLeft, LiveStates, ActiveStates
<1>5. ASSUME NEW c \in Actions, RejectStart(c)
      PROVE  LiveLeft
  <2>1. /\ actAtt[c] \in Attempts /\ attState[actAtt[c]] # "absent"
        /\ attReq[actAtt[c]] \in Requests
    BY <1>5, PerformedAttempt DEF RejectStart, Idle
  <2>2. \A b \in Attempts : b # actAtt[c] => attState'[b] = attState[b]
    BY <1>5, <2>1 DEF IInv, TypeOK, RejectStart, OwnsSlot
  <2>3. /\ actKind[c] = "dispatch.start" /\ pc[c] = "rejected"
        /\ pc'[c] # "streaming"
    BY <1>5 DEF RejectStart, IInv, TypeOK
  <2> QED BY <2>2, <2>3 DEF LiveLeft, LiveStates, ActiveStates
<1>6. ASSUME NEW c \in Actions, FinishSteer(c)
      PROVE  LiveLeft
  <2>1. /\ actAtt[c] \in Attempts /\ attState[actAtt[c]] # "absent"
        /\ attReq[actAtt[c]] \in Requests
    BY <1>6, PerformedAttempt DEF FinishSteer, Outcomes, Idle
  <2>2. \A b \in Attempts : b # actAtt[c] => attState'[b] = attState[b]
    BY <1>6, <2>1 DEF IInv, TypeOK, FinishSteer, SetAttemptUnknown
  <2>3. \/ attState'[actAtt[c]] = attState[actAtt[c]]
        \/ attState'[actAtt[c]] = "unknown" /\ Stuck(c)' /\ actStatus[c] # "absent"
    BY <1>6, <2>1 DEF IInv, TypeOK, ActInv, ReadSteps, Stuck, Idle, FinishSteer,
       SetAttemptUnknown, FinishStep, Outcomes
  <2> QED BY <2>2, <2>3 DEF LiveLeft, LiveStates, ActiveStates
<1>7. ASSUME NEW c \in Actions, FinishResponse(c)
      PROVE  LiveLeft
  <2>1. /\ actAtt[c] \in Attempts /\ attState[actAtt[c]] # "absent"
        /\ attReq[actAtt[c]] \in Requests
    BY <1>7, PerformedAttempt DEF FinishResponse, Outcomes, Idle
  <2>2. \A b \in Attempts : b # actAtt[c] => attState'[b] = attState[b]
    BY <1>7, <2>1 DEF IInv, TypeOK, FinishResponse, SetAttemptUnknown
  <2>3. \/ attState'[actAtt[c]] = attState[actAtt[c]]
        \/ attState'[actAtt[c]] = "unknown" /\ Stuck(c)' /\ actStatus[c] # "absent"
    BY <1>7, <2>1 DEF IInv, TypeOK, ActInv, ReadSteps, Stuck, Idle,
       FinishResponse, SetAttemptUnknown, FinishStep, Outcomes
  <2> QED BY <2>2, <2>3 DEF LiveLeft, LiveStates, ActiveStates
<1>8. ASSUME NEW c \in Actions, NEW outcome \in TerminalStates,
             NEW effect \in EffectStates, NEW class,
             StreamTerminal(c, outcome, effect, class)
      PROVE  LiveLeft
  <2>1. /\ actAtt[c] \in Attempts /\ attState[actAtt[c]] # "absent"
        /\ attReq[actAtt[c]] \in Requests
    BY <1>8, PerformedAttempt DEF StreamTerminal, Observing, Idle
  <2>2. \A b \in Attempts : b # actAtt[c] => attState'[b] = attState[b]
    BY <1>8, <2>1 DEF IInv, TypeOK, StreamTerminal, ProjectTerminal,
       SetAttemptUnknown
  <2>3. /\ actKind[c] = "dispatch.start" /\ pc[c] = "streaming"
        /\ pc'[c] # "streaming"
    BY <1>8 DEF ActInv, ReadSteps, StreamTerminal, Observing, Idle, IInv, TypeOK
  <2> QED BY <2>2, <2>3 DEF LiveLeft, LiveStates, ActiveStates
<1>9. ASSUME NEW c \in Actions, NEW effect \in EffectStates,
             StreamUnknown(c, effect)
      PROVE  LiveLeft
  <2>1. /\ actAtt[c] \in Attempts /\ attState[actAtt[c]] # "absent"
        /\ attReq[actAtt[c]] \in Requests
    BY <1>9, PerformedAttempt DEF StreamUnknown, Observing, Idle
  <2>2. \A b \in Attempts : b # actAtt[c] => attState'[b] = attState[b]
    BY <1>9, <2>1 DEF IInv, TypeOK, StreamUnknown, SetAttemptUnknown
  <2>3. /\ actKind[c] = "dispatch.start" /\ pc[c] = "streaming"
        /\ pc'[c] # "streaming"
    BY <1>9 DEF ActInv, ReadSteps, StreamUnknown, Observing, Idle, IInv, TypeOK
  <2> QED BY <2>2, <2>3 DEF LiveLeft, LiveStates, ActiveStates
<1>10. ASSUME NEW c \in Actions, NEW over, ToolStarted(c, over)
      PROVE  LiveLeft
  <2>1. /\ actAtt[c] \in Attempts /\ attState[actAtt[c]] # "absent"
        /\ attReq[actAtt[c]] \in Requests
    BY <1>10, PerformedAttempt DEF ToolStarted, InBudget, Observing, Idle
  <2>2. CASE UNCHANGED <<attState, actionVars>>
    BY <1>10, <2>1, <2>2 DEF IInv, TypeOK, LiveLeft, LiveStates, ActiveStates,
       ToolStarted, EventFrame, InBudget, Observing
  <2>3. ASSUME NEW s \in Actions,
               InsertAction(s, "attempt.stop", actAtt[c], 0),
               attState[actAtt[c]] \in {"running", "waiting_input"},
               attState' = [attState EXCEPT ![actAtt[c]] = "stopping"]
        PROVE  LiveLeft
    BY <1>10, <2>1, <2>3 DEF IInv, TypeOK, LiveLeft, LiveStates, ActiveStates,
       ToolStarted, EventFrame, InBudget, Observing, InsertAction, NextAction
  <2> QED BY <1>10, <2>2, <2>3 DEF ToolStarted, ChargeOutput
<1>11. ASSUME NEW c \in Actions, NEW over, NEW end,
             ToolCompleted(c, over, end)
      PROVE  LiveLeft
  <2>1. /\ actAtt[c] \in Attempts /\ attState[actAtt[c]] # "absent"
        /\ attReq[actAtt[c]] \in Requests
    BY <1>11, PerformedAttempt DEF ToolCompleted, InBudget, Observing, Idle
  <2>2. CASE UNCHANGED <<attState, actionVars>>
    BY <1>11, <2>1, <2>2 DEF IInv, TypeOK, LiveLeft, LiveStates, ActiveStates,
       ToolCompleted, EventFrame, InBudget, Observing
  <2>3. ASSUME NEW s \in Actions,
               InsertAction(s, "attempt.stop", actAtt[c], 0),
               attState[actAtt[c]] \in {"running", "waiting_input"},
               attState' = [attState EXCEPT ![actAtt[c]] = "stopping"]
        PROVE  LiveLeft
    BY <1>11, <2>1, <2>3 DEF IInv, TypeOK, LiveLeft, LiveStates, ActiveStates,
       ToolCompleted, EventFrame, InBudget, Observing, InsertAction,
       NextAction
  <2> QED BY <1>11, <2>2, <2>3 DEF ToolCompleted, ChargeOutput
<1>12. ASSUME NEW c \in Actions, OutputLimit(c)
      PROVE  LiveLeft
  <2>1. /\ actAtt[c] \in Attempts /\ attState[actAtt[c]] # "absent"
        /\ attReq[actAtt[c]] \in Requests
    BY <1>12, PerformedAttempt DEF OutputLimit, InBudget, Observing, Idle
  <2>2. CASE UNCHANGED <<attState, actionVars>>
    BY <1>12, <2>1, <2>2 DEF IInv, TypeOK, LiveLeft, LiveStates, ActiveStates,
       OutputLimit, EventFrame, InBudget, Observing
  <2>3. ASSUME NEW s \in Actions,
               InsertAction(s, "attempt.stop", actAtt[c], 0),
               attState[actAtt[c]] \in {"running", "waiting_input"},
               attState' = [attState EXCEPT ![actAtt[c]] = "stopping"]
        PROVE  LiveLeft
    BY <1>12, <2>1, <2>3 DEF IInv, TypeOK, LiveLeft, LiveStates, ActiveStates,
       OutputLimit, EventFrame, InBudget, Observing, InsertAction, NextAction
  <2> QED BY <1>12, <2>2, <2>3 DEF OutputLimit, ChargeOutput
<1>13. ASSUME NEW c \in Actions, EnterWaiting(c)
      PROVE  LiveLeft
  <2>1. /\ actAtt[c] \in Attempts /\ attState[actAtt[c]] # "absent"
        /\ attReq[actAtt[c]] \in Requests
    BY <1>13, PerformedAttempt DEF EnterWaiting, Observing, Idle
  <2> QED BY <1>13, <2>1 DEF IInv, TypeOK, LiveLeft, LiveStates, ActiveStates,
     EnterWaiting, EventFrame, Observing
<1>14. ASSUME NEW c \in Actions, NEW w \in Waits, NEW over,
             WaitRequested(c, w, over)
      PROVE  LiveLeft
  <2>1. /\ actAtt[c] \in Attempts /\ attState[actAtt[c]] # "absent"
        /\ attReq[actAtt[c]] \in Requests
    BY <1>14, PerformedAttempt DEF WaitRequested, InBudget, Observing, Idle
  <2>2. CASE UNCHANGED <<attState, actionVars>>
    BY <1>14, <2>1, <2>2 DEF IInv, TypeOK, LiveLeft, LiveStates, ActiveStates,
       WaitRequested, EventFrame, InBudget, Observing, NextWait
  <2>3. ASSUME NEW s \in Actions,
               InsertAction(s, "attempt.stop", actAtt[c], 0),
               attState[actAtt[c]] \in {"running", "waiting_input"},
               attState' = [attState EXCEPT ![actAtt[c]] = "stopping"]
        PROVE  LiveLeft
    BY <1>14, <2>1, <2>3 DEF IInv, TypeOK, LiveLeft, LiveStates, ActiveStates,
       WaitRequested, EventFrame, InBudget, Observing, InsertAction,
       NextAction, NextWait
  <2>4. CASE /\ attState' = [attState EXCEPT ![actAtt[c]] = "waiting_input"]
             /\ UNCHANGED <<attOver, actionVars>>
    BY <1>14, <2>1, <2>4 DEF IInv, TypeOK, LiveLeft, LiveStates, ActiveStates,
       WaitRequested, EventFrame, InBudget, Observing, NextWait
  <2> QED BY <1>14, <2>2, <2>3, <2>4 DEF WaitRequested, ChargeOutput
<1>15. ASSUME NEW outcome \in TerminalStates, NEW effect \in EffectStates,
             NEW class, ReconcileApply(outcome, effect, class)
      PROVE  LiveLeft
  <2>1. /\ reconciling \in Attempts /\ attState[reconciling] = "unknown"
        /\ \A b \in Attempts : b # reconciling => attState'[b] = attState[b]
    BY <1>15 DEF IInv, TypeOK, ReconcileApply, ProjectTerminal, SetAttemptUnknown
  <2>2. \A c \in Actions : actAtt[c] = reconciling => pc'[c] # "streaming"
    BY <1>15 DEF ReconcileApply, CancelStream
  <2> QED BY <2>1, <2>2 DEF LiveLeft, LiveStates, ActiveStates
<1>16. CASE Restart
  <2>1. \A c \in Actions : pc'[c] = Idle
    BY <1>16 DEF Restart
  <2> QED BY <2>1 DEF LiveLeft, Idle
<1>17. CASE UNCHANGED attState
  BY <1>17 DEF LiveLeft
<1>18. CASE CommandStep
  BY <1>18, <1>1, <1>17 DEF CommandStep, DialogCreate, MessageEnqueue,
     RequestCancel, QueueResume, AttemptRetry, MessageSteer, Respond
<1>19. CASE LoopStep
  BY <1>19, <1>2, <1>17 DEF LoopStep, PeekDispatch, BlockPolicy, DropCandidate
<1>20. ASSUME NEW c \in Actions, ClaimAction(c) PROVE LiveLeft
  BY <1>20, <1>17 DEF ClaimAction
<1>21. ASSUME NEW c \in Actions, WorkerStep(c) PROVE LiveLeft
  BY <1>21, <1>3, <1>4, <1>5, <1>6, <1>7, <1>17 DEF WorkerStep,
     RequeueDispatch, EnterDispatch, IssueTurn, StartReturns, CancelReturns,
     SteerReturns, RespondReturns, TransactionLost, FinishAction,
     DurableUnchanged
<1>22. ASSUME NEW c \in Actions, StreamEnds(c) PROVE LiveLeft
  BY <1>22, <1>8, <1>9, <1>17 DEF StreamEnds, RegisterStream, StreamClosed,
     DurableUnchanged
<1>23. ASSUME NEW c \in Actions, StreamEvent(c) PROVE LiveLeft
  BY <1>23, <1>10, <1>11, <1>12, <1>13, <1>14 DEF StreamEvent
<1>24. CASE ReconcileStep
  BY <1>24, StateValues, <1>15, <1>17 DEF ReconcileStep, ReconcileBegin,
     ReconcileNone, DurableUnchanged
<1>25. CASE ProviderStep
  BY <1>25, <1>17 DEF ProviderStep, ProviderStarts, ProviderEnds,
     DurableUnchanged
<1>26. CASE BarrierStep
  BY <1>26, <1>17 DEF BarrierStep, InstallHold, ReleaseHold,
     DeleteLogicalDialog, BeginSettings, SettingsSwap, SettingsRelease,
     SetSettingsReady, ProviderAuthStart, ProviderAuthCheck,
     ProviderAuthSettles, RowsUnchanged, SettingsFrame, AuthFrame
<1>27. CASE UNCHANGED vars
  BY <1>27, <1>17 DEF vars
<1> QED BY <1>18, <1>19, <1>20, <1>21, <1>22, <1>23, <1>24, <1>25, <1>26,
   <1>16, <1>27 DEF Next

\* The steps of a dispatch between markStarted and the first event.
Opening == {"finish_ack", "opening"}

\* A dispatch gets there when markStarted made the attempt running, and it reads
\* the events of the attempt that owns the slot.
ReaderEnters ==
  \A c \in Actions :
    /\ pc'[c] \in Opening => pc[c] # Idle
    /\ actKind[c] = "dispatch.start" /\ pc'[c] \in Opening =>
         pc[c] \in Opening \/ attState'[actAtt[c]] = "running"
    /\ pc'[c] = "streaming" =>
         \/ pc[c] = "streaming"
         \/ pc[c] = "opening" /\ attState'[actAtt[c]] \in ActiveStates

\* The other steps of a goroutine lead elsewhere.
LEMMA ReaderIsEntered ==
  ASSUME IInv, [Next]_vars
  PROVE  ReaderEnters
<1>1. ASSUME NEW c \in Actions, ClaimAction(c)
      PROVE  ReaderEnters
  BY <1>1 DEF IInv, TypeOK, ReaderEnters, Opening, Idle, ClaimAction
<1>2. ASSUME NEW c \in Actions, RequeueDispatch(c)
      PROVE  ReaderEnters
  BY <1>2 DEF IInv, TypeOK, ReaderEnters, Opening, Idle, RequeueDispatch
<1>3. ASSUME NEW c \in Actions, EnterDispatch(c)
      PROVE  ReaderEnters
  BY <1>3 DEF IInv, TypeOK, ReaderEnters, Opening, Idle, EnterDispatch
<1>4. ASSUME NEW c \in Actions, StartReturns(c)
      PROVE  ReaderEnters
  BY <1>4 DEF IInv, TypeOK, ReaderEnters, Opening, Idle, StartReturns
<1>5. ASSUME NEW c \in Actions, MarkStarted(c)
      PROVE  ReaderEnters
  <2>1. actAtt[c] \in Attempts
    BY <1>5, PerformedAttempt DEF MarkStarted, Idle
  <2> QED BY <1>5, <2>1 DEF IInv, TypeOK, ReaderEnters, Opening, MarkStarted,
      Idle
<1>6. ASSUME NEW c \in Actions, MarkUnknown(c)
      PROVE  ReaderEnters
  BY <1>6 DEF IInv, TypeOK, ReaderEnters, Opening, Idle, MarkUnknown
<1>7. ASSUME NEW c \in Actions, RejectStart(c)
      PROVE  ReaderEnters
  BY <1>7 DEF IInv, TypeOK, ReaderEnters, Opening, Idle, RejectStart
<1>8. ASSUME NEW c \in Actions, CancelReturns(c)
      PROVE  ReaderEnters
  BY <1>8 DEF IInv, TypeOK, ReaderEnters, Opening, Idle, CancelReturns
<1>9. ASSUME NEW c \in Actions, SteerReturns(c)
      PROVE  ReaderEnters
  BY <1>9 DEF IInv, TypeOK, ReaderEnters, Opening, Idle, SteerReturns
<1>10. ASSUME NEW c \in Actions, RespondReturns(c)
      PROVE  ReaderEnters
  BY <1>10 DEF IInv, TypeOK, ReaderEnters, Opening, Idle, RespondReturns
<1>11. ASSUME NEW c \in Actions, FinishSteer(c)
      PROVE  ReaderEnters
  BY <1>11 DEF IInv, TypeOK, ReaderEnters, Opening, Idle, FinishSteer,
     FinishStep, Outcomes
<1>12. ASSUME NEW c \in Actions, FinishResponse(c)
      PROVE  ReaderEnters
  BY <1>12 DEF IInv, TypeOK, ReaderEnters, Opening, Idle, FinishResponse,
     FinishStep, Outcomes
<1>13. ASSUME NEW c \in Actions, TransactionLost(c)
      PROVE  ReaderEnters
  BY <1>13 DEF IInv, TypeOK, ReaderEnters, Opening, Idle, GateInv,
     TransactionLost, FinishStep, Outcomes
<1>14. ASSUME NEW c \in Actions, FinishAction(c)
      PROVE  ReaderEnters
  BY <1>14 DEF IInv, TypeOK, ReaderEnters, Opening, Idle, FinishAction
<1>15. ASSUME NEW c \in Actions, RegisterStream(c)
      PROVE  ReaderEnters
  <2>1. pc'[c] = "streaming" => attState'[actAtt[c]] \in ActiveStates
    BY <1>15 DEF RegisterStream, IInv, TypeOK, DurableUnchanged, ActiveStates, Idle
  <2> QED BY <1>15, <2>1 DEF IInv, TypeOK, ReaderEnters, Opening, RegisterStream,
      Idle
<1>16. ASSUME NEW c \in Actions, StreamClosed(c)
      PROVE  ReaderEnters
  BY <1>16 DEF IInv, TypeOK, ReaderEnters, Opening, Idle, StreamClosed
<1>17. ASSUME NEW c \in Actions, NEW outcome \in TerminalStates,
             NEW effect \in EffectStates, NEW class,
             StreamTerminal(c, outcome, effect, class)
      PROVE  ReaderEnters
  BY <1>17 DEF IInv, TypeOK, ReaderEnters, Opening, Idle, StreamTerminal
<1>18. ASSUME NEW c \in Actions, NEW effect \in EffectStates,
             StreamUnknown(c, effect)
      PROVE  ReaderEnters
  BY <1>18 DEF IInv, TypeOK, ReaderEnters, Opening, Idle, StreamUnknown
<1>19. ASSUME NEW outcome \in TerminalStates, NEW effect \in EffectStates,
             NEW class, ReconcileApply(outcome, effect, class)
      PROVE  ReaderEnters
  BY <1>19 DEF IInv, TypeOK, ReaderEnters, Opening, Idle, ReconcileApply,
     CancelStream
<1>20. CASE Restart
  BY <1>20 DEF IInv, TypeOK, ReaderEnters, Opening, Idle, Restart
<1>21. CASE UNCHANGED pc
  BY <1>21 DEF ReaderEnters, Opening, Idle
<1>22. CASE CommandStep
  BY <1>22, <1>21 DEF CommandStep, DialogCreate, MessageEnqueue,
     RequestCancel, QueueResume, AttemptStop, AttemptRetry, MessageSteer,
     Respond
<1>23. CASE LoopStep
  BY <1>23, <1>21 DEF LoopStep, PeekDispatch, BlockPolicy, CommitDispatch,
     DropCandidate
<1>24. ASSUME NEW c \in Actions, WorkerStep(c) PROVE ReaderEnters
  BY <1>24, <1>2, <1>3, <1>4, <1>5, <1>6, <1>7, <1>8, <1>9, <1>10, <1>11,
     <1>12, <1>13, <1>14, <1>21 DEF WorkerStep, IssueTurn, DurableUnchanged
<1>25. ASSUME NEW c \in Actions, StreamEnds(c) PROVE ReaderEnters
  BY <1>25, <1>15, <1>16, <1>17, <1>18 DEF StreamEnds
<1>26. ASSUME NEW c \in Actions, StreamEvent(c) PROVE ReaderEnters
  BY <1>26, <1>21 DEF StreamEvent, ToolStarted, ToolCompleted, OutputLimit,
     EnterWaiting, WaitRequested, EventFrame
<1>27. CASE ReconcileStep
  BY <1>27, StateValues, <1>19, <1>21 DEF ReconcileStep, ReconcileBegin,
     ReconcileNone, DurableUnchanged
<1>28. CASE ProviderStep
  BY <1>28, <1>21 DEF ProviderStep, ProviderStarts, ProviderEnds,
     DurableUnchanged
<1>29. CASE BarrierStep
  BY <1>29, <1>21 DEF BarrierStep, InstallHold, ReleaseHold,
     DeleteLogicalDialog, BeginSettings, SettingsSwap, SettingsRelease,
     SetSettingsReady, ProviderAuthStart, ProviderAuthCheck,
     ProviderAuthSettles, RowsUnchanged, SettingsFrame, AuthFrame
<1>30. CASE UNCHANGED vars
  BY <1>30, <1>21 DEF vars
<1> QED BY <1>22, <1>23, <1>1, <1>24, <1>25, <1>26, <1>27, <1>28, <1>29,
   <1>20, <1>30 DEF Next

\* The goroutine reads the events of an attempt that is not over, and the one
\* about to read them finds it live, or an action of the attempt is stuck.
ReaderInv ==
  \A c \in Actions :
    /\ pc[c] = "streaming" => attState[actAtt[c]] \in ActiveStates
    /\ actKind[c] = "dispatch.start" /\ pc[c] \in Opening =>
         \/ attState[actAtt[c]] \in LiveStates
         \/ \E d \in Actions : actAtt[d] = actAtt[c] /\ Stuck(d)

\* No goroutine runs at first.
LEMMA ReaderInit == InitStore => ReaderInv
BY DEF InitStore, ReaderInv, Opening, Idle

\* One goroutine at most reads the events of an attempt.
LEMMA ReaderNext ==
  ASSUME IInv, ActInv, StageInv, RowsKept, ReaderInv, [Next]_vars
  PROVE  ReaderInv'
<1> SUFFICES ASSUME NEW c \in Actions
             PROVE  /\ pc'[c] = "streaming" =>
                         attState'[actAtt'[c]] \in ActiveStates
                    /\ actKind'[c] = "dispatch.start" /\ pc'[c] \in Opening =>
                         \/ attState'[actAtt'[c]] \in LiveStates
                         \/ \E d \in Actions : actAtt'[d] = actAtt'[c] /\ Stuck(d)'
  BY DEF ReaderInv
<1>1. StuckKept /\ LiveLeft /\ ReaderEnters
  BY StuckIsKept, LiveIsLeft, ReaderIsEntered
<1>2. \A d \in Actions : pc[d] # Idle =>
        /\ actAtt'[d] = actAtt[d] /\ actKind'[d] = actKind[d]
        /\ actAtt[d] \in Attempts
  BY DEF IInv, RowInv, RowsKept
<1>3. \A d, e \in Actions : /\ actKind[d] = "dispatch.start"
                            /\ actKind[e] = "dispatch.start"
                            /\ actAtt[d] = actAtt[e]
                            => d = e
  BY DEF StageInv
<1>4. ASSUME pc'[c] = "streaming" PROVE attState'[actAtt'[c]] \in ActiveStates
  <2>1. CASE pc[c] = "opening" /\ attState'[actAtt[c]] \in ActiveStates
    BY <1>2, <2>1 DEF Idle
  <2>2. CASE pc[c] = "streaming"
    <3>1. /\ attState[actAtt[c]] \in ActiveStates /\ actAtt'[c] = actAtt[c]
          /\ actAtt[c] \in Attempts /\ actKind[c] = "dispatch.start"
      BY <1>2, <2>2 DEF ReaderInv, Idle, ActInv, ReadSteps
    <3> QED BY <1>1, <1>3, <1>4, <3>1 DEF LiveLeft
  <2> QED BY <1>1, <1>4, <2>1, <2>2 DEF ReaderEnters
<1>5. ASSUME actKind'[c] = "dispatch.start", pc'[c] \in Opening
      PROVE  \/ attState'[actAtt'[c]] \in LiveStates
             \/ \E d \in Actions : actAtt'[d] = actAtt'[c] /\ Stuck(d)'
  <2>1. pc[c] # Idle /\ actKind[c] = "dispatch.start" /\ actAtt'[c] = actAtt[c]
    BY <1>1, <1>2, <1>5 DEF ReaderEnters
  <2>2. CASE attState'[actAtt[c]] = "running"
    BY <2>1, <2>2 DEF LiveStates, ActiveStates
  <2>3. ASSUME pc[c] \in Opening, NEW d \in Actions, actAtt[d] = actAtt[c],
               Stuck(d)
        PROVE  \E e \in Actions : actAtt'[e] = actAtt'[c] /\ Stuck(e)'
    <3>1. actAtt'[d] = actAtt[d]
      BY <2>3 DEF Stuck, RowsKept
    <3> QED BY <1>1, <2>1, <2>3, <3>1 DEF StuckKept
  <2>4. CASE pc[c] \in Opening /\ attState[actAtt[c]] \in LiveStates
    <3>1. actAtt[c] \in Attempts
      BY <1>2, <2>1
    <3>2. ASSUME NEW d \in Actions, actStatus[d] # "absent",
                 actAtt[d] = actAtt[c], Stuck(d)'
          PROVE  \E e \in Actions : actAtt'[e] = actAtt'[c] /\ Stuck(e)'
      BY <2>1, <3>2 DEF RowsKept
    <3>3. ASSUME NEW d \in Actions, actKind[d] = "dispatch.start",
                 actAtt[d] = actAtt[c], pc[d] \in {"streaming", "rejected"}
          PROVE  FALSE
      BY <1>3, <2>1, <2>4, <3>3 DEF Opening
    <3> QED BY <1>1, <1>5, <2>1, <2>4, <3>1, <3>2, <3>3 DEF LiveLeft, Opening,
        Idle
  <2> QED BY <1>1, <1>5, <2>1, <2>2, <2>3, <2>4 DEF ReaderEnters, ReaderInv
<1> QED BY <1>4, <1>5

-----------------------------------------------------------------------------
\* A deleted dialog.

\* A tombstone is written by DeleteLogicalDialog.
TombAdded ==
  deleted' = deleted \/ \E d \in Dialogs : DeleteLogicalDialog(d)

\* No other step writes one, and none removes one.
LEMMA TombIsAdded ==
  ASSUME [Next]_vars
  PROVE  TombAdded
<1>1. ASSUME NEW d \in Dialogs, DeleteLogicalDialog(d)
      PROVE  TombAdded
  BY <1>1 DEF TombAdded
<1>2. CASE UNCHANGED deleted
  BY <1>2 DEF TombAdded
<1>3. CASE CommandStep
  BY <1>3, <1>2 DEF CommandStep, DialogCreate, MessageEnqueue, RequestCancel,
     QueueResume, AttemptStop, AttemptRetry, MessageSteer, Respond
<1>4. CASE LoopStep
  BY <1>4, <1>2 DEF LoopStep, PeekDispatch, BlockPolicy, CommitDispatch,
     DropCandidate
<1>5. ASSUME NEW c \in Actions, ClaimAction(c) PROVE TombAdded
  BY <1>5, <1>2 DEF ClaimAction
<1>6. ASSUME NEW c \in Actions, WorkerStep(c) PROVE TombAdded
  BY <1>6, <1>2 DEF WorkerStep, RequeueDispatch, EnterDispatch, IssueTurn,
     StartReturns, MarkStarted, MarkUnknown, RejectStart, CancelReturns,
     SteerReturns, RespondReturns, FinishSteer, FinishResponse,
     TransactionLost, FinishAction, DurableUnchanged
<1>7. ASSUME NEW c \in Actions, StreamEnds(c) PROVE TombAdded
  BY <1>7, <1>2 DEF StreamEnds, RegisterStream, StreamClosed, StreamTerminal,
     StreamUnknown, DurableUnchanged, EndFrame
<1>8. ASSUME NEW c \in Actions, StreamEvent(c) PROVE TombAdded
  BY <1>8, <1>2 DEF StreamEvent, ToolStarted, ToolCompleted, OutputLimit,
     EnterWaiting, WaitRequested, EventFrame
<1>9. CASE ReconcileStep
  BY <1>9, <1>2 DEF ReconcileStep, ReconcileBegin, ReconcileApply,
     ReconcileNone, DurableUnchanged, EndFrame
<1>10. CASE ProviderStep
  BY <1>10, <1>2 DEF ProviderStep, ProviderStarts, ProviderEnds,
     DurableUnchanged
<1>11. CASE BarrierStep
  BY <1>11, <1>1, <1>2 DEF BarrierStep, InstallHold, ReleaseHold,
     BeginSettings, SettingsSwap, SettingsRelease, SetSettingsReady,
     ProviderAuthStart, ProviderAuthCheck, ProviderAuthSettles, RowsUnchanged,
     SettingsFrame, AuthFrame
<1>12. CASE Restart
  BY <1>12, <1>2 DEF Restart
<1>13. CASE UNCHANGED vars
  BY <1>13, <1>2 DEF vars
<1> QED BY <1>3, <1>4, <1>5, <1>6, <1>7, <1>8, <1>9, <1>10, <1>11, <1>12,
   <1>13 DEF Next

\* What was deleted is quiescent.
DeadInv == \A d \in deleted : Quiescent(d)

\* Nothing is deleted at first.
LEMMA DeadInit == InitStore => DeadInv
BY DEF InitStore, DeadInv

\* applyDialogDelete finds the dialog quiescent and its queue empty, and nothing
\* is queued for it afterwards.
LEMMA DeadNext ==
  ASSUME IInv, RefInv, ActInv, ObjectInv, RowsInv, TombInv, DeadInv, [Next]_vars
  PROVE  DeadInv'
<1>1. ASSUME NEW d \in deleted PROVE Quiescent(d)'
  <2>1. d # NodeScope
    BY DialogsAssumption DEF IInv, TypeOK
  <2>2. Shut(d)
    BY <2>1 DEF Shut, TombInv, Queued
  <2> QED BY <2>2, QuiescentKept DEF DeadInv
<1>2. ASSUME NEW d \in Dialogs, DeleteLogicalDialog(d)
      PROVE  Quiescent(d)'
  <2>1. d # NodeScope
    BY DialogsAssumption
  <2>2. Quiescent(d)
    <3>1. \A r \in Requests : reqStatus[r] \in {"dispatching", "active", "unknown"}
            => DialogOf(r) # d
      BY <1>2 DEF DeleteLogicalDialog, Deletable, TerminalStates
    <3> QED BY <1>2, <2>1, <3>1 DEF DeleteLogicalDialog, Deletable, Quiescent
  <2>3. Shut(d)
    BY <1>2, <2>1 DEF DeleteLogicalDialog, Deletable, TerminalStates, Shut
  <2> QED BY <2>2, <2>3, QuiescentKept
<1>3. ASSUME NEW d \in Dialogs, DeleteLogicalDialog(d)
      PROVE  deleted' = deleted \cup {d}
  BY <1>3 DEF DeleteLogicalDialog
<1> QED BY <1>1, <1>2, <1>3, TombIsAdded DEF TombAdded, DeadInv

\* The goroutines behave in every reachable state.
THEOREM ReaderInvariance == Spec => []ReaderInv
<1>1. IInv /\ ActInv /\ StageInv /\ ReaderInv /\ [Next]_vars => ReaderInv'
  BY RowsAreKept, ReaderNext
<1> QED BY <1>1, ReaderInit, Invariance, ActInvariance, StageInvariance, PTL
    DEF Spec

\* DeleteLogicalDialog: nothing of a deleted dialog lives or comes back, no
\* queued request, no unsettled row, no turn and no goroutine.
THEOREM DeletedInert == Spec => []DeletedIsInert
<1>1. IInv /\ RefInv /\ ActInv /\ ObjectInv /\ RowsInv /\ FenceInv /\ DeadInv
        /\ [Next]_vars => DeadInv'
  BY DeadNext DEF FenceInv
<1>2. ASSUME IInv, ActInv, FenceInv, ReaderInv, DeadInv, NEW d \in deleted
      PROVE  /\ Quiescent(d)
             /\ \A r \in Queued : DialogOf(r) # d
             /\ \A a \in Attempts : InScope(d, a) => turn[a] \notin LiveTurn
             /\ \A c \in Actions : actStatus[c] # "absent" /\ InScope(d, actAtt[c])
                                   => pc[c] \in {Idle, "closing"}
  <2>1. Quiescent(d) /\ \A r \in Queued : DialogOf(r) # d
    BY <1>2 DEF DeadInv, FenceInv, TombInv
  <2>2. Resting(d)
    BY <1>2, <2>1, QuiescentRests DEF IInv
  <2>3. ASSUME NEW a \in Attempts, InScope(d, a) PROVE turn[a] \notin LiveTurn
    BY <1>2, <2>2, <2>3 DEF Resting, AtRest, IInv, LiveTurnOwnsSlot, SlotInv,
       ActiveStates, TerminalStates
  <2>4. ASSUME NEW c \in Actions, actStatus[c] # "absent", InScope(d, actAtt[c])
        PROVE  pc[c] \in {Idle, "closing"}
    <3>1. AtRest(actAtt[c])
      BY <1>2, <2>2, <2>4 DEF Resting, IInv, RowInv
    <3>2. pc[c] \in ReadSteps \cup {Idle}
      BY <1>2, <3>1 DEF AtRest, ActInv
    <3>3. pc[c] # "streaming"
      BY <1>2, <3>1 DEF AtRest, ReaderInv, ActiveStates, TerminalStates
    <3>4. pc[c] # "opening"
      <4> SUFFICES ASSUME pc[c] = "opening" PROVE FALSE
        OBVIOUS
      <4>1. \E e \in Actions : actAtt[e] = actAtt[c] /\ Stuck(e)
        BY <1>2, <3>1 DEF ReaderInv, ActInv, ReadSteps, Opening, AtRest,
           LiveStates, ActiveStates, TerminalStates
      <4> QED BY <3>1, <4>1 DEF AtRest, Stuck
    <3> QED BY <3>2, <3>3, <3>4 DEF ReadSteps
  <2> QED BY <2>1, <2>3, <2>4
<1>3. IInv /\ ActInv /\ FenceInv /\ ReaderInv /\ DeadInv => DeletedIsInert
  BY <1>2 DEF DeletedIsInert
<1> QED BY <1>1, <1>3, DeadInit, Invariance, RefInvariance, ActInvariance,
    ObjectInvariance, RowsInvariance, FenceInvariance, ReaderInvariance, PTL
    DEF Spec
=============================================================================
