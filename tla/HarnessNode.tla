----------------------------- MODULE HarnessNode -----------------------------
(***************************************************************************)
(* One harness node: the commands, the executor, the adapter stream, the   *)
(* barriers and the crash of the process, interleaved.                     *)
(***************************************************************************)
EXTENDS NodeBarrier

\* The operations a run lets happen; a run leaves out what it is not about.
CONSTANT Features

AllFeatures == {"create", "cancel", "stop", "resume", "retry", "steer",
                "tool", "respond", "hold", "delete", "settings", "auth",
                "reconcile", "crash"}

ASSUME FeaturesAssumption == Features \subseteq AllFeatures

-----------------------------------------------------------------------------

\* Mutant of RecoverActive: the attempt is forgotten.
RecoverNothing == UNCHANGED <<attState, attEffect, reqStatus, slotVars>>

\* recoverStartup, of the attempt in the slot.
RecoverActive ==
  IF active # 0
  THEN SetAttemptUnknown(active, "unknown", reqStatus)
  ELSE UNCHANGED <<attState, attEffect, reqStatus, slotVars>>

\* The process dies and is started again.  recoverStartup runs before the
\* executor: no outcome of a control action or of the active attempt is
\* guessed.  The provider goes on as it was.  (Reopening an unused volume is
\* one of the initial states.)
Restart ==
  /\ \E m \in Messages : msgDisp[m] # "absent"
  /\ actStatus' = [c \in Actions |->
                     IF actStatus[c] \in {"pending", "inflight"}
                     THEN "unknown" ELSE actStatus[c]]
  /\ RecoverActive
  /\ cand' = 0 /\ gate' = Free /\ barrier' = "open" /\ reconciling' = 0
  /\ pc' = [c \in Actions |-> Idle]
  /\ settingsOk' = TRUE
  /\ auth' = IF auth = "pending" THEN "out" ELSE auth
  /\ UNCHANGED <<messageVars, reqMsg, attReq, attTerminal, toolVars, waitVars,
                 actKind, actAtt, actObj, adminVars, queueVars, providerVars>>

-----------------------------------------------------------------------------
CommandStep ==
  \/ "create" \in Features /\ DialogCreate
  \/ \E d \in Dialogs, m \in Messages, r \in Requests : MessageEnqueue(d, m, r)
  \/ /\ "cancel" \in Features
     /\ \E r \in Requests, low \in StorageLow : RequestCancel(r, low)
  \/ "resume" \in Features /\ \E low \in StorageLow : QueueResume(low)
  \/ /\ "stop" \in Features
     /\ \E a \in Attempts, c \in Actions, low \in StorageLow :
          AttemptStop(a, c, low)
  \/ /\ "retry" \in Features
     /\ \E a \in Attempts, ack \in BOOLEAN, r \in Requests :
          AttemptRetry(a, ack, r)
  \/ /\ "steer" \in Features
     /\ \E m \in Messages, a \in Attempts, c \in Actions, low \in StorageLow :
          MessageSteer(m, a, c, low)
  \/ /\ "respond" \in Features
     /\ \E w \in Waits, c \in Actions, low \in StorageLow : Respond(w, c, low)

LoopStep ==
  \/ \E r \in Requests : PeekDispatch(r)
  \/ BlockPolicy
  \/ \E r \in Requests, a \in Attempts, c \in Actions : CommitDispatch(r, a, c)
  \/ DropCandidate

\* A step of the goroutine that performs action c, up to finishAction.
WorkerStep(c) ==
  \/ RequeueDispatch(c)
  \/ EnterDispatch(c)
  \/ IssueTurn(c)
  \/ StartReturns(c)
  \/ MarkStarted(c)
  \/ MarkUnknown(c)
  \/ RejectStart(c)
  \/ CancelReturns(c)
  \/ SteerReturns(c)
  \/ RespondReturns(c)
  \/ FinishSteer(c)
  \/ FinishResponse(c)
  \/ TransactionLost(c)
  \/ FinishAction(c)

StreamEnds(c) ==
  \/ RegisterStream(c)
  \/ StreamClosed(c)
  \/ \E outcome \in TerminalStates, effect \in EffectStates,
        class \in FailureClasses : StreamTerminal(c, outcome, effect, class)
  \/ \E effect \in EffectStates : StreamUnknown(c, effect)

StreamEvent(c) ==
  \/ /\ "tool" \in Features
     /\ \E over \in OutputMayExceed : ToolStarted(c, over)
  \/ \E over \in OutputMayExceed, end \in {"settled", "uncertain"} :
        ToolCompleted(c, over, end)
  \/ OutputLimit(c)
  \/ /\ "respond" \in Features
     /\ \/ EnterWaiting(c)
        \/ \E w \in Waits, over \in OutputMayExceed : WaitRequested(c, w, over)

ReconcileStep ==
  \/ \E a \in Attempts : ReconcileBegin(a)
  \/ \E outcome \in TerminalStates, effect \in {"none", "known"},
        class \in FailureClasses : ReconcileApply(outcome, effect, class)
  \/ ReconcileNone

ProviderStep == \E a \in Attempts : ProviderStarts(a) \/ ProviderEnds(a)

BarrierStep ==
  \/ /\ "hold" \in Features
     /\ \E scope \in Dialogs \cup {NodeScope} :
          InstallHold(scope) \/ ReleaseHold(scope)
  \/ "delete" \in Features /\ \E d \in Dialogs : DeleteLogicalDialog(d)
  \/ /\ "settings" \in Features
     /\ \/ BeginSettings \/ SettingsSwap \/ SettingsRelease
        \/ \E ready \in BOOLEAN : SetSettingsReady(ready)
  \/ /\ "auth" \in Features
     /\ \/ \E to \in {"ready", "pending", "out"} : ProviderAuthStart(to)
        \/ \E to \in {"ready", "out"} :
             ProviderAuthCheck(to) \/ ProviderAuthSettles(to)

Next ==
  \/ CommandStep
  \/ LoopStep
  \/ \E c \in Actions :
       ClaimAction(c) \/ WorkerStep(c) \/ StreamEnds(c) \/ StreamEvent(c)
  \/ "reconcile" \in Features /\ ReconcileStep
  \/ ProviderStep
  \/ BarrierStep
  \/ "crash" \in Features /\ Restart

Spec == InitStore /\ [][Next]_vars

(***************************************************************************)
(* The executor loop runs every second at the latest, its goroutines are   *)
(* never abandoned, the adapter answers every call, and a stream delivers  *)
(* the terminal of a turn that ended.  Nothing is assumed of the provider, *)
(* of operators or of the host.                                            *)
(***************************************************************************)
FairSpec ==
  /\ Spec
  /\ WF_vars(LoopStep)
  /\ \A c \in Actions :
       /\ WF_vars(ClaimAction(c))
       /\ WF_vars(WorkerStep(c))
       /\ WF_vars(RegisterStream(c) \/ StreamClosed(c))
       /\ WF_vars(\E outcome \in TerminalStates, effect \in EffectStates,
                     class \in FailureClasses :
                       StreamTerminal(c, outcome, effect, class))

-----------------------------------------------------------------------------
\* Safety.

\* The provider never runs a turn, nor is asked for one, of an attempt that
\* does not own the node's slot: whatever stops, crashes, rejections, late
\* answers and reconciliations happen, two native turns are never alive
\* together (the slot of DispatchNext, applyTerminal, prepareTerminalProjection
\* and setAttemptUnknown against performDispatch).
LiveTurnOwnsSlot == \A a \in Attempts : turn[a] \in LiveTurn => active = a

\* node_state.active_attempt_id, occupancy, the attempt rows and their request
\* rows agree after every transaction, and an unknown attempt is announced by
\* the reason that stops peekDispatch.
SlotMatchesRows ==
  /\ \A a \in Attempts : attState[a] \in ActiveStates <=> active = a
  /\ (occupancy = "idle") <=> (active = 0)
  /\ active # 0 =>
       LET status == reqStatus[attReq[active]] IN
       CASE attState[active] = "dispatching" -> status = "dispatching"
         [] attState[active] = "stopping"    -> status \in {"dispatching",
                                                            "active"}
         [] attState[active] = "unknown"     ->
              status = "unknown" /\ "execution_unknown" \in reasons
         [] OTHER                            -> status = "active"

\* node_state.pending_count, which enqueue, retry, cancel, dispatch and
\* finishSteer each adjust on their own, is the number of queued requests and
\* stays within the capacity.
PendingCountsQueue ==
  pending = Cardinality(Queued) /\ pending <= QueueCapacity

\* What the handlers keep in two places agrees in both after every transaction:
\* the slot in node_state and the rows, the counter and the queue.
RowsAgree == SlotMatchesRows /\ PendingCountsQueue

\* A message the provider took as a steer is never also started as a turn:
\* finishSteer, the terminal guard of prepareTerminalProjection, recoverStartup
\* and the reconciliation guard keep it from the queue, whatever the outcome
\* the adapter reported.
SteeredNeverStarted ==
  \A a \in Attempts : attState[a] # "absent"
                      => MessageOfAttempt(a) \notin delivered

\* A message or wait that is with the adapter has an unresolved control action
\* that will settle it or keep its attempt unknown.
IntentHasAction ==
  /\ \A m \in Messages : msgDisp[m] = "steer_pending" =>
       \E c \in Actions : /\ actKind[c] = "message.steer" /\ actObj[c] = m
                          /\ actStatus[c] \in Unresolved
  /\ \A w \in Waits : waitStatus[w] = "responding" =>
       \E c \in Actions : /\ actKind[c] = "respond" /\ actObj[c] = w
                          /\ actStatus[c] \in Unresolved

\* An attempt that is neither over nor unknown is in the hands of a dispatch
\* that is still pending or of a goroutine that will start it or read its
\* events: it cannot be left behind by a requeue, a stop, a hold or a stream
\* that ends.
AttemptHasDriver ==
  \A a \in Attempts : attState[a] \in ActiveStates \ {"unknown"} =>
    \E c \in Actions : /\ actKind[c] = "dispatch.start" /\ actAtt[c] = a
                       /\ \/ actStatus[c] = "pending"
                          \/ pc[c] \notin {Idle, "closing"}

\* Nothing waits for a goroutine that does not exist: every attempt that goes on
\* has its driver and every message or wait with the adapter its action, through
\* requeues, stops, ended streams and restarts.
NothingIsStranded == AttemptHasDriver /\ IntentHasAction

\* An attempt whose output exceeded the budget does not simply go on: unless it
\* is unknown or over, a stop was asked for, whatever it was doing when the
\* budget ran out.
OverBudgetIsStopped ==
  \A a \in Attempts :
    attOver[a] /\ attState[a] \in ActiveStates \ {"unknown"} =>
      /\ attState[a] = "stopping"
      /\ \E c \in Actions : actKind[c] = "attempt.stop" /\ actAtt[c] = a

\* The message waits in the queue, or with the adapter, and no attempt of it was
\* ever made.
AwaitsFirstStart(m) ==
  /\ msgDisp[m] \in {"queued", "steer_pending"}
  /\ \A a \in Attempts : attState[a] # "absent" => MessageOfAttempt(a) # m

\* In one dialog no input starts while an earlier one still waits for its
\* first start; a steer that falls back to the queue keeps its place.
DialogInputOrder ==
  \A m, n \in Messages :
    m < n /\ msgDialog[m] = msgDialog[n] /\ AwaitsFirstStart(m)
    => \A a \in Attempts : attState[a] # "absent" => MessageOfAttempt(a) # n

\* Nothing of a deleted dialog lives or can come back: no queued request, no
\* unsettled row, no turn, no goroutine.
DeletedIsInert ==
  \A d \in deleted :
    /\ Quiescent(d)
    /\ \A r \in Queued : DialogOf(r) # d
    /\ \A a \in Attempts : InScope(d, a) => turn[a] \notin LiveTurn
    /\ \A c \in Actions : actStatus[c] # "absent" /\ InScope(d, actAtt[c])
                          => pc[c] \in {Idle, "closing"}

\* While settings are swapped no turn is alive, no start is on its way to the
\* adapter and no login is pending.
SwapIsExclusive ==
  barrier = "swapping" =>
    /\ \A a \in Attempts : turn[a] \notin LiveTurn
    /\ \A c \in Actions : pc[c] # "calling"
    /\ auth # "pending"

-----------------------------------------------------------------------------
\* What a step may never do.

Issues(a) == turn[a] = "none" /\ turn'[a] = "issued"

\* The provider is asked for a turn only outside every hold, of a dialog that
\* is not deleted, with the login proved and no settings being swapped, although
\* all of these were checked in earlier transactions.  After attempt.stop is
\* committed the only turn that can still be asked for is that of the very
\* attempt being stopped, whose start was already past its last check.
StartIsFenced ==
  [][\A a \in Attempts : Issues(a) =>
       /\ ~Held(DialogOfAttempt(a)) /\ DialogOfAttempt(a) \notin deleted
       /\ AuthReady
       /\ barrier # "swapping"
       /\ paused => attState[a] \in {"stopping", "unknown"}]_vars

\* An input is executed again only when every earlier execution of it ended
\* without success and with a settled effect.
RerunOnlyAfterSettled ==
  [][\A a, b \in Attempts :
       /\ Issues(a) /\ b # a /\ attState[b] # "absent"
       /\ MessageOfAttempt(b) = MessageOfAttempt(a)
       => attState[b] \in {"failed", "interrupted"} /\ attEffect[b] # "unknown"
     ]_vars

\* An attempt that ended stays as it ended, with one exception: a response to
\* one of its waits came back with an unknown outcome.
EndedStaysEnded ==
  [][\A a \in Attempts :
       attState[a] \in TerminalStates =>
         \/ attState'[a] = attState[a] /\ attEffect'[a] = attEffect[a]
         \/ /\ attState'[a] = "unknown"
            /\ \E c \in Actions : /\ actKind[c] = "respond" /\ actAtt[c] = a
                                  /\ pc[c] = "uncertain"]_vars

\* A scope for which QuiescenceProof was given stays quiescent for as long as
\* its hold is kept: no command, candidate, late outcome or restart reopens it.
QuiescenceIsStable ==
  [][\A scope \in holds : scope \in holds' /\ Quiescent(scope)
                          => Quiescent(scope)']_vars

-----------------------------------------------------------------------------
\* Liveness.

\* A bound of the model, not of the code: DispatchNext has a candidate and the
\* model has no row left for its attempt.
BoundReached == /\ cand # 0
                /\ \/ \A c \in Actions : actStatus[c] # "absent"
                   \/ \A a \in Attempts : attState[a] # "absent"

\* A queued request does not wait for ever on an idle node: it leaves the
\* queue, or the queue is paused, the slot is unknown, or a turn never ends.
QueueProgress ==
  (\A a \in Attempts : []<>(turn[a] \notin LiveTurn)) =>
    \A r \in Requests :
      reqStatus[r] = "queued" ~> \/ reqStatus[r] # "queued"
                                 \/ paused
                                 \/ "execution_unknown" \in reasons
                                 \/ BoundReached

\* Every control action the store accepted gets an outcome.
ActionsResolve ==
  \A c \in Actions :
    actStatus[c] \in {"pending", "inflight"}
      ~> actStatus[c] \in {"acknowledged", "rejected", "unknown"} \/ BoundReached

\* The executor keeps going: the queue moves and the actions are carried out.
ExecutorProgress == QueueProgress /\ ActionsResolve

-----------------------------------------------------------------------------
\* What the documents of the repository say and the code does not do.

\* docs/harness-v1.md, Read surface: "`ready/blocked/unknown` and exact blocked
\* reasons"; internal/harnessprotocol/validate.go refuses a ready health body
\* that carries reasons.
ReadyHasNoReasons == readiness = "ready" => reasons = {}

\* docs/harness-v1.md: "exact blocked reasons": the reason that stops every
\* dispatch is there only while an attempt is unknown.
UnknownReasonIsExact ==
  "execution_unknown" \in reasons
    => \E a \in Attempts : attState[a] = "unknown"
=============================================================================
