----------------------------- MODULE NodeExecutor -----------------------------
(***************************************************************************)
(* The executor (runtime/dispatch.go, runtime/actions.go): the loop that   *)
(* claims control actions into lanes and dispatches the head of the queue, *)
(* and the goroutines that carry an action to the adapter and its outcome  *)
(* back into the store.                                                    *)
(*                                                                         *)
(* Every call of the adapter runs outside node.mu, so the request, the     *)
(* answer, the transaction that records the answer and finishAction are    *)
(* separate steps.  startGate is held from the last admission check of a   *)
(* dispatch until finishAction.                                            *)
(***************************************************************************)
EXTENDS NodeCommands

CONSTANTS
  ControlCapacity,  \* concurrent actions of the control lane (6 in the code)
  PolicyMayFail,    \* the policy source may be unavailable
  StoreMayFail      \* a transaction of a worker may fail to commit

ASSUME ExecutorAssumption ==
  /\ ControlCapacity \in Nat \ {0}
  /\ PolicyMayFail \in BOOLEAN
  /\ StoreMayFail \in BOOLEAN

-----------------------------------------------------------------------------
\* The loop thread.  While it is inside DispatchNext (cand # 0) it claims
\* nothing.

\* peekDispatch, after the authentication snapshot.
PeekDispatch(r) ==
  /\ cand = 0
  /\ AuthReady
  /\ SlotOpen /\ "execution_unknown" \notin reasons
  /\ QueueHead(r)
  /\ cand' = r
  /\ UNCHANGED <<messageVars, requestVars, attemptVars, toolVars, waitVars,
                 actionVars, adminVars, slotVars, queueVars, pc, gate, barrier,
                 settingsOk, auth, reconciling, providerVars>>

\* blockPolicy: no policy for the candidate.
BlockPolicy ==
  /\ PolicyMayFail
  /\ cand # 0
  /\ cand' = 0
  /\ readiness' = "blocked"
  /\ reasons'   = reasons \cup {"policy_unavailable"}
  /\ UNCHANGED <<messageVars, requestVars, attemptVars, toolVars, waitVars,
                 actionVars, adminVars, active, occupancy, queueVars, pc, gate,
                 barrier, settingsOk, auth, reconciling, providerVars>>

\* Mutant of CandidateCurrent: the head is not selected again.
CandidateUnfenced(r) ==
  /\ cand = r
  /\ AuthReady /\ barrier = "open" /\ settingsOk
  /\ SlotOpen
  /\ ActiveAttempts = {}

\* What DispatchNext checks again under startGate and node.mu.  Holds do not
\* advance StateVersion, so the head of the queue is selected a second time.
CandidateCurrent(r) ==
  /\ cand = r
  /\ AuthReady /\ barrier = "open" /\ settingsOk
  /\ SlotOpen
  /\ QueueHead(r)
  /\ ActiveAttempts = {}

\* DispatchNext commits the attempt and the intent to start it.
CommitDispatch(r, a, c) ==
  /\ gate = Free
  /\ CandidateCurrent(r)
  /\ NextAttempt(a)
  /\ attReq'    = [attReq EXCEPT ![a] = r]
  /\ attState'  = [attState EXCEPT ![a] = "dispatching"]
  /\ attEffect' = [attEffect EXCEPT ![a] = "none"]
  /\ reqStatus' = [reqStatus EXCEPT ![r] = "dispatching"]
  /\ msgDisp'   = IF msgDisp[reqMsg[r]] = "queued"
                  THEN [msgDisp EXCEPT ![reqMsg[r]] = "applied"] ELSE msgDisp
  /\ pending'   = pending - 1
  /\ active'    = a
  /\ readiness' = "ready"
  /\ occupancy' = "active"
  /\ reasons'   = reasons \ {"policy_unavailable"}
  /\ InsertAction(c, "dispatch.start", a, 0)
  /\ cand' = 0
  /\ UNCHANGED <<msgDialog, reqMsg, attTerminal, toolVars, waitVars, adminVars,
                 paused, pc, gate, barrier, settingsOk, auth, reconciling,
                 providerVars>>

\* DispatchNext finds the candidate changed, held or blocked, and gives up.
DropCandidate ==
  /\ gate = Free
  /\ cand # 0
  /\ ~CandidateCurrent(cand)
  /\ cand' = 0
  /\ UNCHANGED <<messageVars, requestVars, attemptVars, toolVars, waitVars,
                 actionVars, adminVars, slotVars, queueVars, pc, gate, barrier,
                 settingsOk, auth, reconciling, providerVars>>

Lane(kind) == CASE kind = "attempt.stop"   -> "stop"
                [] kind = "dispatch.start" -> "dispatch"
                [] OTHER                   -> "control"
LaneActions(lane) == {c \in Actions : actKind[c] # "absent"
                                      /\ Lane(actKind[c]) = lane}
LaneCapacity(lane) == IF lane = "control" THEN ControlCapacity ELSE 1

Claimable(lane) ==
  {c \in LaneActions(lane) :
     /\ actStatus[c] = "pending"
     /\ lane = "dispatch" => ~Held(DialogOfAttempt(actAtt[c]))}

\* claimAction: the oldest pending action of a lane with a free place.
ClaimAction(c) ==
  /\ cand = 0
  /\ \E lane \in {"stop", "dispatch", "control"} :
       /\ c \in Claimable(lane)
       /\ \A d \in Claimable(lane) : c <= d
       /\ Cardinality({d \in LaneActions(lane) : pc[d] # Idle})
             < LaneCapacity(lane)
  /\ actStatus' = [actStatus EXCEPT ![c] = "inflight"]
  /\ pc' = [pc EXCEPT ![c] = "claimed"]
  /\ UNCHANGED <<messageVars, requestVars, attemptVars, toolVars, waitVars,
                 actKind, actAtt, actObj, adminVars, slotVars, queueVars, cand,
                 gate, barrier, settingsOk, auth, reconciling, providerVars>>

-----------------------------------------------------------------------------
\* performDispatch.

\* Frame of a worker step that touches neither rows nor the provider.
DurableUnchanged ==
  UNCHANGED <<messageVars, requestVars, attemptVars, toolVars, waitVars,
              actionVars, adminVars, slotVars, queueVars>>

\* A dispatch claimed just before authentication closed goes back to pending.
RequeueDispatch(c) ==
  /\ actKind[c] = "dispatch.start" /\ pc[c] = "claimed" /\ gate = Free
  /\ ~AuthReady
  /\ actStatus' = [actStatus EXCEPT ![c] = "pending"]
  /\ pc' = [pc EXCEPT ![c] = Idle]
  /\ UNCHANGED <<messageVars, requestVars, attemptVars, toolVars, waitVars,
                 actKind, actAtt, actObj, adminVars, slotVars, queueVars, cand,
                 gate, barrier, settingsOk, auth, reconciling, providerVars>>

\* Mutant of EnterDispatch: the attempt is not loaded again.
EnterDispatchUnchecked(c) ==
  /\ actKind[c] = "dispatch.start" /\ pc[c] = "claimed" /\ gate = Free
  /\ AuthReady
  /\ gate' = c
  /\ pc' = [pc EXCEPT ![c] = "calling"]
  /\ DurableUnchanged
  /\ UNCHANGED <<cand, barrier, settingsOk, auth, reconciling, providerVars>>

\* startGate is taken and the attempt loaded; one that is not dispatching any
\* more is not started.
EnterDispatch(c) ==
  /\ actKind[c] = "dispatch.start" /\ pc[c] = "claimed" /\ gate = Free
  /\ AuthReady
  /\ gate' = c
  /\ pc' = [pc EXCEPT ![c] = IF attState[actAtt[c]] = "dispatching"
                             THEN "calling" ELSE "uncertain"]
  /\ DurableUnchanged
  /\ UNCHANGED <<cand, barrier, settingsOk, auth, reconciling, providerVars>>

\* Adapter.Start or Adapter.Resume asks the provider for the turn.
IssueTurn(c) ==
  /\ pc[c] = "calling"
  /\ turn[actAtt[c]] = "none"
  /\ turn' = [turn EXCEPT ![actAtt[c]] = "issued"]
  /\ DurableUnchanged
  /\ UNCHANGED <<processVars, delivered>>

\* The call returns: started, rejected (no turn), or anything else.
StartReturns(c) ==
  /\ pc[c] = "calling"
  /\ \/ /\ turn[actAtt[c]] \in {"running", "ended"}
        /\ pc' = [pc EXCEPT ![c] = "started"]
        /\ UNCHANGED turn
     \/ /\ turn[actAtt[c]] \in {"none", "issued"}
        /\ pc' = [pc EXCEPT ![c] = "rejected"]
        /\ turn' = [turn EXCEPT ![actAtt[c]] = "none"]
     \/ /\ pc' = [pc EXCEPT ![c] = "uncertain"]
        /\ UNCHANGED turn
  /\ DurableUnchanged
  /\ UNCHANGED <<cand, gate, barrier, settingsOk, auth, reconciling,
                 delivered>>

\* Mutant of MarkStarted: the request is given the state of the attempt, a text that
\* no constraint of the requests table refuses.
MarkStartedAlike(c) ==
  /\ pc[c] = "started" /\ active = actAtt[c] /\ attState[active] = "dispatching"
  /\ attState'  = [attState EXCEPT ![active] = "running"]
  /\ reqStatus' = [reqStatus EXCEPT ![attReq[active]] = "running"]
  /\ pc' = [pc EXCEPT ![c] = "finish_ack"]
  /\ BumpStateVersion
  /\ UNCHANGED <<messageVars, reqMsg, attReq, attEffect, attTerminal, toolVars,
                 waitVars, actionVars, adminVars, slotVars, queueVars, gate,
                 barrier, settingsOk, auth, reconciling, providerVars>>

\* markStarted, which refuses an attempt that was stopped meanwhile.
MarkStarted(c) ==
  LET a == actAtt[c] IN
  /\ pc[c] = "started"
  /\ \/ /\ active = a /\ attState[a] = "dispatching"
        /\ attState'  = [attState EXCEPT ![a] = "running"]
        /\ reqStatus' = [reqStatus EXCEPT ![attReq[a]] = "active"]
        /\ pc' = [pc EXCEPT ![c] = "finish_ack"]
        /\ BumpStateVersion
     \/ /\ ~(active = a /\ attState[a] = "dispatching")
        /\ pc' = [pc EXCEPT ![c] = "uncertain"]
        /\ UNCHANGED <<attState, reqStatus, cand>>
  /\ UNCHANGED <<messageVars, reqMsg, attReq, attEffect, attTerminal, toolVars,
                 waitVars, actionVars, adminVars, slotVars, queueVars, gate,
                 barrier, settingsOk, auth, reconciling, providerVars>>

\* markAttemptUnknown for a dispatch or stop whose outcome is uncertain, and
\* for a steer or response the adapter answered with an invalid outcome.
MarkUnknown(c) ==
  /\ \/ /\ actKind[c] \in {"dispatch.start", "attempt.stop"}
        /\ pc[c] = "uncertain"
        /\ pc' = [pc EXCEPT ![c] = "finish_unk"]
     \/ /\ pc[c] = "invalid"
        /\ pc' = [pc EXCEPT ![c] = "uncertain"]
  /\ IF OwnsSlot(actAtt[c])
     THEN /\ SetAttemptUnknown(actAtt[c], "unknown", reqStatus)
          /\ BumpIfKnown(actAtt[c])
     ELSE UNCHANGED <<reqStatus, attState, attEffect, slotVars, cand>>
  /\ UNCHANGED <<messageVars, reqMsg, attReq, attTerminal, toolVars, waitVars,
                 actionVars, adminVars, queueVars, gate, barrier, settingsOk,
                 auth, reconciling, providerVars>>

\* Observe of the terminal "failed" for a rejected start: applyTerminal frees
\* the slot.  Unlike the terminal of a stream it leaves the reasons alone.
RejectStart(c) ==
  LET a == actAtt[c] IN
  /\ actKind[c] = "dispatch.start" /\ pc[c] = "rejected"
  /\ pc' = [pc EXCEPT ![c] = "finish_rej"]
  /\ IF OwnsSlot(a)
     THEN /\ attState'  = [attState EXCEPT ![a] = "failed"]
          /\ attEffect' = [attEffect EXCEPT ![a] = "none"]
          /\ reqStatus' = [reqStatus EXCEPT ![attReq[a]] = "failed"]
          /\ active' = 0 /\ occupancy' = "idle"
          /\ readiness' = IF readiness = "unknown" THEN "blocked" ELSE readiness
          /\ BumpStateVersion
     ELSE UNCHANGED <<attState, attEffect, reqStatus, active, occupancy,
                      readiness, cand>>
  /\ UNCHANGED <<messageVars, reqMsg, attReq, attTerminal, toolVars, waitVars,
                 actionVars, adminVars, reasons, queueVars, gate, barrier,
                 settingsOk, auth, reconciling, providerVars>>

-----------------------------------------------------------------------------
\* The adapter answers a stop, a steer, a response.

\* Adapter.Cancel; an acknowledgement says nothing about the turn's end.
CancelReturns(c) ==
  /\ actKind[c] = "attempt.stop" /\ pc[c] = "claimed"
  /\ \E step \in {"finish_ack", "finish_rej", "uncertain"} :
       pc' = [pc EXCEPT ![c] = step]
  /\ DurableUnchanged
  /\ UNCHANGED <<cand, gate, barrier, settingsOk, auth, reconciling,
                 providerVars>>

\* Adapter.Steer; only a running turn can take the message, and an uncertain
\* answer may hide a delivery.
SteerReturns(c) ==
  /\ actKind[c] = "message.steer" /\ pc[c] = "claimed"
  /\ \/ /\ turn[actAtt[c]] = "running"
        /\ \E step \in {"applied", "uncertain", "invalid"} :
             pc' = [pc EXCEPT ![c] = step]
        /\ delivered' = delivered \cup {actObj[c]}
     \/ /\ \E step \in {"fallback", "rejected", "uncertain", "invalid"} :
             pc' = [pc EXCEPT ![c] = step]
        /\ UNCHANGED delivered
  /\ DurableUnchanged
  /\ UNCHANGED <<cand, gate, barrier, settingsOk, auth, reconciling, turn>>

\* Adapter.RespondApproval and Adapter.RespondInput.
RespondReturns(c) ==
  /\ actKind[c] = "respond" /\ pc[c] = "claimed"
  /\ \E step \in {"applied", "rejected", "uncertain", "invalid"} :
       pc' = [pc EXCEPT ![c] = step]
  /\ DurableUnchanged
  /\ UNCHANGED <<cand, gate, barrier, settingsOk, auth, reconciling,
                 providerVars>>

-----------------------------------------------------------------------------
\* The answer is recorded.

\* The finishAction status that follows an outcome.
FinishStep(step) == CASE step \in {"applied", "fallback"} -> "finish_ack"
                      [] step = "rejected"                -> "finish_rej"
                      [] OTHER                            -> "finish_unk"

Outcomes == {"applied", "fallback", "rejected", "uncertain"}

\* messages.request_id: the request message.enqueue made for the message.
OriginalRequest(m, r) ==
  reqMsg[r] = m /\ \A q \in Requests : reqMsg[q] = m => r <= q

\* The message is still the adapter's to settle.
SteerOutstanding(m) == msgDisp[m] = "steer_pending"

\* finishSteer.  A message that is no longer steer_pending, or a transaction
\* the unique index refuses, leaves everything as it was.
FinishSteer(c) ==
  LET m == actObj[c]
      a == actAtt[c] IN
  /\ actKind[c] = "message.steer" /\ pc[c] \in Outcomes
  /\ pc' = [pc EXCEPT ![c] = FinishStep(pc[c])]
  /\ \/ /\ SteerOutstanding(m)
        /\ BumpStateVersion
        /\ \/ /\ pc[c] \in {"fallback", "rejected"}
              /\ msgDisp' = [msgDisp EXCEPT ![m] = "queued"]
              /\ UNCHANGED <<reqStatus, pending, attState, attEffect, slotVars>>
           \/ /\ pc[c] = "applied"
              /\ msgDisp' = [msgDisp EXCEPT ![m] = "applied"]
              /\ \E r \in Requests : /\ OriginalRequest(m, r)
                                     /\ reqStatus' = [reqStatus EXCEPT
                                                        ![r] = "completed"]
              /\ pending' = pending - 1
              /\ UNCHANGED <<attState, attEffect, slotVars>>
           \/ /\ pc[c] = "uncertain"
              /\ OneActiveIndexAllows(a)
              /\ msgDisp' = [msgDisp EXCEPT ![m] = "unknown"]
              /\ pending' = pending - 1
              /\ \E r \in Requests :
                   /\ OriginalRequest(m, r)
                   /\ SetAttemptUnknown(a, "unknown",
                                        [reqStatus EXCEPT ![r] = "unknown"])
     \/ /\ \/ ~SteerOutstanding(m)
           \/ pc[c] = "uncertain" /\ ~OneActiveIndexAllows(a)
        /\ UNCHANGED <<msgDisp, reqStatus, pending, attState, attEffect,
                       slotVars, cand>>
  /\ UNCHANGED <<msgDialog, reqMsg, attReq, attTerminal, toolVars, waitVars,
                 actionVars, adminVars, paused, gate, barrier, settingsOk,
                 auth, reconciling, providerVars>>

\* What finishApproval and finishInput make of a wait.
ResponseStatus(step) == IF step = "applied" THEN "resolved" ELSE "pending"

\* finishApproval and finishInput.  An unknown outcome takes the slot for the
\* wait's attempt even when that attempt has ended; the unique index refuses
\* it while another attempt is active.
FinishResponse(c) ==
  LET w == actObj[c]
      a == actAtt[c] IN
  /\ actKind[c] = "respond" /\ pc[c] \in Outcomes
  /\ pc' = [pc EXCEPT ![c] = FinishStep(pc[c])]
  /\ \/ /\ pc[c] # "uncertain"
        /\ waitStatus' = [waitStatus EXCEPT ![w] = ResponseStatus(pc[c])]
        /\ UNCHANGED <<reqStatus, attState, attEffect, slotVars, cand>>
     \/ /\ pc[c] = "uncertain"
        /\ OneActiveIndexAllows(a)
        /\ waitStatus' = [waitStatus EXCEPT ![w] = "unknown"]
        /\ SetAttemptUnknown(a, "unknown", reqStatus)
        /\ BumpIfKnown(a)
     \/ /\ pc[c] = "uncertain"
        /\ ~OneActiveIndexAllows(a)
        /\ UNCHANGED <<waitStatus, reqStatus, attState, attEffect, slotVars,
                       cand>>
  /\ UNCHANGED <<messageVars, reqMsg, attReq, attTerminal, toolVars, waitAtt,
                 actionVars, adminVars, queueVars, gate, barrier, settingsOk,
                 auth, reconciling, providerVars>>

\* A transaction of a worker fails.  markStarted reports it; the others return
\* nothing, and the worker goes on to finishAction with the status it decided.
TransactionLost(c) ==
  /\ StoreMayFail
  /\ \/ /\ actKind[c] \in {"message.steer", "respond"} /\ pc[c] \in Outcomes
        /\ pc' = [pc EXCEPT ![c] = FinishStep(pc[c])]
     \/ /\ pc[c] = "invalid"
        /\ pc' = [pc EXCEPT ![c] = "uncertain"]
     \/ /\ actKind[c] \in {"dispatch.start", "attempt.stop"}
        /\ pc[c] \in {"uncertain", "rejected"}
        /\ pc' = [pc EXCEPT ![c] = FinishStep(pc[c])]
     \/ /\ pc[c] = "started"
        /\ pc' = [pc EXCEPT ![c] = "uncertain"]
  /\ DurableUnchanged
  /\ UNCHANGED <<cand, gate, barrier, settingsOk, auth, reconciling,
                 providerVars>>

\* Mutant of FinishAction: startGate is not released.
FinishActionKeepsGate(c) ==
  /\ pc[c] \in {"finish_ack", "finish_rej", "finish_unk"}
  /\ \/ actStatus' = IF actStatus[c] # "inflight" THEN actStatus
                     ELSE [actStatus EXCEPT ![c] =
                             CASE pc[c] = "finish_ack" -> "acknowledged"
                               [] pc[c] = "finish_rej" -> "rejected"
                               [] OTHER                -> "unknown"]
     \/ StoreMayFail /\ UNCHANGED actStatus
  /\ pc' = [pc EXCEPT ![c] = IF /\ actKind[c] = "dispatch.start"
                                /\ pc[c] = "finish_ack"
                             THEN "opening" ELSE Idle]
  /\ UNCHANGED <<messageVars, requestVars, attemptVars, toolVars, waitVars,
                 actKind, actAtt, actObj, adminVars, slotVars, queueVars, cand,
                 gate, barrier, settingsOk, auth, reconciling, providerVars>>

\* finishAction, only from inflight (an update that fails is ignored);
\* startGate is released, and a started dispatch goes on to read the attempt's
\* events.
FinishAction(c) ==
  /\ pc[c] \in {"finish_ack", "finish_rej", "finish_unk"}
  /\ \/ actStatus' = IF actStatus[c] # "inflight" THEN actStatus
                     ELSE [actStatus EXCEPT ![c] =
                             CASE pc[c] = "finish_ack" -> "acknowledged"
                               [] pc[c] = "finish_rej" -> "rejected"
                               [] OTHER                -> "unknown"]
     \/ StoreMayFail /\ UNCHANGED actStatus
  /\ pc' = [pc EXCEPT ![c] = IF /\ actKind[c] = "dispatch.start"
                                /\ pc[c] = "finish_ack"
                             THEN "opening" ELSE Idle]
  /\ gate' = IF gate = c THEN Free ELSE gate
  /\ UNCHANGED <<messageVars, requestVars, attemptVars, toolVars, waitVars,
                 actKind, actAtt, actObj, adminVars, slotVars, queueVars, cand,
                 barrier, settingsOk, auth, reconciling, providerVars>>
=============================================================================
