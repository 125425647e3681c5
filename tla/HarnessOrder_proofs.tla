------------------------- MODULE HarnessOrder_proofs -------------------------
(***************************************************************************)
(* Theorems about what becomes of an input: the order in which the inputs  *)
(* of a dialog are executed, the input that is executed again, the         *)
(* goroutine that drives an attempt, and the input that is steered into a  *)
(* running turn.  They rest on the invariants of HarnessNode_proofs.       *)
(***************************************************************************)
EXTENDS HarnessNode_proofs

USE DEF messageVars, requestVars, attemptVars, toolVars, waitVars, actionVars,
        adminVars, slotVars, queueVars, processVars, providerVars

-----------------------------------------------------------------------------
\* The numbers of the rows.

\* Messages and requests are numbered without gaps; every message has a request,
\* and the first request of a message is older than any request of a later one.
SeqInv ==
  /\ \A m, n \in Messages : m < n /\ msgDisp[n] # "absent"
                            => msgDisp[m] # "absent"
  /\ \A r, q \in Requests : r < q /\ reqMsg[q] # 0 => reqMsg[r] # 0
  /\ \A m \in Messages : msgDisp[m] # "absent" =>
       \E r \in Requests : reqMsg[r] = m
  /\ \A q \in Requests, m \in Messages : m < reqMsg[q] =>
       \E r \in Requests : r < q /\ reqMsg[r] = m

\* No row exists at first.
LEMMA SeqInit == InitStore => SeqInv
BY DEF InitStore, SeqInv, Messages

\* A new row takes the next number.
LEMMA SeqNext ==
  ASSUME IInv, RefInv, RowsKept, SeqInv, [Next]_vars
  PROVE  SeqInv'
<1>1. CASE NoNewRequest
  BY <1>1 DEF SeqInv, RowsKept, NoNewRequest
<1>2. ASSUME NEW d \in Dialogs, NEW m \in Messages, NEW r \in Requests,
             MessageEnqueue(d, m, r)
      PROVE  SeqInv'
  <2>1. /\ reqMsg \in [Requests -> Messages \cup {0}]
        /\ msgDisp \in [Messages -> Dispositions]
        /\ reqMsg' = [reqMsg EXCEPT ![r] = m]
        /\ msgDisp' = [msgDisp EXCEPT ![m] = "queued"]
        /\ reqMsg[r] = 0 /\ \A q \in Requests : q < r => reqMsg[q] # 0
        /\ \A n \in Messages : n < m => msgDisp[n] # "absent"
        /\ msgDisp[m] = "absent"
    BY <1>2 DEF IInv, TypeOK, RefInv, MessageEnqueue, NextMessage, NextRequest
  <2>2. \A q \in Requests : reqMsg[q] # 0 => q < r
    BY <2>1 DEF SeqInv, Requests
  <2>3. \A n, k \in Messages : n < k /\ msgDisp'[k] # "absent"
                               => msgDisp'[n] # "absent"
    BY <2>1 DEF SeqInv, Messages
  <2>4. \A p, q \in Requests : p < q /\ reqMsg'[q] # 0 => reqMsg'[p] # 0
    BY <2>1, <2>2, MessagesPositive DEF SeqInv, Requests
  <2>5. \A n \in Messages : msgDisp'[n] # "absent" =>
          \E q \in Requests : reqMsg'[q] = n
    <3> SUFFICES ASSUME NEW n \in Messages, msgDisp'[n] # "absent"
                 PROVE  \E q \in Requests : reqMsg'[q] = n
      OBVIOUS
    <3>1. CASE n = m
      BY <3>1, <2>1
    <3>2. CASE n # m
      <4>1. PICK q \in Requests : reqMsg[q] = n
        BY <3>2, <2>1 DEF SeqInv
      <4> QED BY <4>1, <2>1, MessagesPositive
    <3> QED BY <3>1, <3>2
  <2>6. ASSUME NEW q \in Requests, NEW n \in Messages, n < reqMsg'[q]
        PROVE  \E p \in Requests : p < q /\ reqMsg'[p] = n
    <3>1. CASE q = r
      <4>1. n < m
        BY <3>1, <2>1, <2>6
      <4>2. PICK p \in Requests : reqMsg[p] = n
        BY <4>1, <2>1 DEF SeqInv
      <4>3. p < r /\ p # r
        BY <4>2, <2>1, <2>2, MessagesPositive
      <4> QED BY <3>1, <4>2, <4>3, <2>1
    <3>2. CASE q # r
      <4>1. PICK p \in Requests : p < q /\ reqMsg[p] = n
        BY <3>2, <2>1, <2>6 DEF SeqInv
      <4> QED BY <4>1, <2>1, MessagesPositive
    <3> QED BY <3>1, <3>2
  <2> QED BY <2>3, <2>4, <2>5, <2>6 DEF SeqInv
<1>3. ASSUME NEW a \in Attempts, NEW ack, NEW r \in Requests,
             AttemptRetry(a, ack, r)
      PROVE  SeqInv'
  <2> DEFINE o == attReq[a]
             m == reqMsg[o]
  <2>1. /\ o \in Requests /\ m \in Messages /\ msgDisp[m] # "absent"
        /\ reqMsg \in [Requests -> Messages \cup {0}]
        /\ reqMsg' = [reqMsg EXCEPT ![r] = m]
        /\ msgDisp' = msgDisp
        /\ reqMsg[r] = 0 /\ \A q \in Requests : q < r => reqMsg[q] # 0
    BY <1>3 DEF IInv, TypeOK, RowInv, RefInv, AttemptRetry, Retryable,
       NextRequest, MessageOfAttempt
  <2> HIDE DEF m, o
  <2>2. \A q \in Requests : reqMsg[q] # 0 => q < r
    BY <2>1 DEF SeqInv, Requests
  <2>3. \A p, q \in Requests : p < q /\ reqMsg'[q] # 0 => reqMsg'[p] # 0
    BY <2>1, <2>2, MessagesPositive DEF SeqInv, Requests
  <2>4. \A n \in Messages : msgDisp'[n] # "absent" =>
          \E q \in Requests : reqMsg'[q] = n
    <3> SUFFICES ASSUME NEW n \in Messages, msgDisp[n] # "absent"
                 PROVE  \E q \in Requests : reqMsg'[q] = n
      BY <2>1
    <3>1. PICK q \in Requests : reqMsg[q] = n
      BY DEF SeqInv
    <3> QED BY <3>1, <2>1, MessagesPositive
  <2>5. ASSUME NEW q \in Requests, NEW n \in Messages, n < reqMsg'[q]
        PROVE  \E p \in Requests : p < q /\ reqMsg'[p] = n
    <3>1. CASE q = r
      <4>1. n < m
        BY <3>1, <2>1, <2>5
      <4>2. PICK p \in Requests : p < o /\ reqMsg[p] = n
        BY <4>1, <2>1 DEF SeqInv, m
      <4>3. p < r /\ p # r
        BY <4>2, <2>1, <2>2, MessagesPositive
      <4> QED BY <3>1, <4>2, <4>3, <2>1
    <3>2. CASE q # r
      <4>1. PICK p \in Requests : p < q /\ reqMsg[p] = n
        BY <3>2, <2>1, <2>5 DEF SeqInv
      <4> QED BY <4>1, <2>1, MessagesPositive
    <3> QED BY <3>1, <3>2
  <2> QED BY <2>1, <2>3, <2>4, <2>5 DEF SeqInv
<1> QED BY <1>1, <1>2, <1>3, RequestIsAdded DEF RequestAdded

-----------------------------------------------------------------------------
\* Leaving the queue.

\* The message waits in the queue or with the adapter.
WaitingDisp == {"queued", "steer_pending"}

\* A request joins the queue when it is added; it leaves the queue when its
\* message is settled or its attempt is made, and a message that is settled does
\* not wait again.
LeavesQueue ==
  /\ \A r \in Requests : reqStatus'[r] = "queued" =>
       reqStatus[r] \in {"queued", "absent"}
  /\ \A r \in Requests : reqStatus[r] = "queued" =>
       \/ reqStatus'[r] = "queued"
       \/ msgDisp'[reqMsg[r]] \notin WaitingDisp
       \/ \E a \in Attempts : attState'[a] # "absent" /\ attReq'[a] = r
  /\ \A m \in Messages : msgDisp'[m] \in WaitingDisp =>
       msgDisp[m] \in WaitingDisp \cup {"absent"}

\* The other changes of a request follow its attempt.
LEMMA QueueLeft ==
  ASSUME IInv, RefInv, [Next]_vars
  PROVE  LeavesQueue
<1>1. ASSUME NEW d \in Dialogs, NEW m \in Messages, NEW r \in Requests,
             MessageEnqueue(d, m, r)
      PROVE  LeavesQueue
  BY <1>1 DEF IInv, TypeOK, RowInv, RefInv, LeavesQueue, WaitingDisp,
     MessageEnqueue, NextMessage, NextRequest
<1>2. ASSUME NEW r \in Requests, NEW low, RequestCancel(r, low)
      PROVE  LeavesQueue
  <2>1. reqMsg[r] \in Messages
    BY <1>2 DEF IInv, TypeOK, RefInv, RequestCancel
  <2> QED BY <1>2, <2>1 DEF IInv, TypeOK, LeavesQueue, WaitingDisp, RequestCancel
<1>3. ASSUME NEW a \in Attempts, NEW ack \in BOOLEAN, NEW r \in Requests,
             AttemptRetry(a, ack, r)
      PROVE  LeavesQueue
  BY <1>3 DEF IInv, TypeOK, RowInv, RefInv, LeavesQueue, WaitingDisp,
     AttemptRetry, NextRequest, Retryable, MessageOfAttempt
<1>4. ASSUME NEW m \in Messages, NEW a \in Attempts, NEW c \in Actions,
             NEW low, MessageSteer(m, a, c, low)
      PROVE  LeavesQueue
  BY <1>4 DEF IInv, TypeOK, RowInv, RefInv, LeavesQueue, WaitingDisp,
     MessageSteer, ControlState, InsertAction, NextAction
<1>5. ASSUME NEW r \in Requests, NEW a \in Attempts, NEW c \in Actions,
             CommitDispatch(r, a, c)
      PROVE  LeavesQueue
  <2>1. attState'[a] # "absent" /\ attReq'[a] = r
    BY <1>5 DEF IInv, TypeOK, CommitDispatch
  <2> QED BY <1>5, <2>1 DEF IInv, TypeOK, LeavesQueue, WaitingDisp, CommitDispatch
<1>6. ASSUME NEW c \in Actions, MarkStarted(c)
      PROVE  LeavesQueue
  <2>1. /\ actAtt[c] \in Attempts /\ attState[actAtt[c]] # "absent"
        /\ attReq[actAtt[c]] \in Requests
    BY <1>6, PerformedAttempt DEF MarkStarted, Idle
  <2> QED BY <1>6, <2>1 DEF IInv, TypeOK, RowInv, RefInv, LeavesQueue,
     WaitingDisp, MarkStarted
<1>7. ASSUME NEW c \in Actions, MarkUnknown(c)
      PROVE  LeavesQueue
  <2>1. /\ actAtt[c] \in Attempts /\ attState[actAtt[c]] # "absent"
        /\ attReq[actAtt[c]] \in Requests
    BY <1>7, PerformedAttempt DEF MarkUnknown, Idle
  <2> QED BY <1>7, <2>1 DEF IInv, TypeOK, RowInv, RefInv, LeavesQueue,
     WaitingDisp, MarkUnknown, SetAttemptUnknown, OwnsSlot
<1>8. ASSUME NEW c \in Actions, RejectStart(c)
      PROVE  LeavesQueue
  <2>1. /\ actAtt[c] \in Attempts /\ attState[actAtt[c]] # "absent"
        /\ attReq[actAtt[c]] \in Requests
    BY <1>8, PerformedAttempt DEF RejectStart, Idle
  <2> QED BY <1>8, <2>1 DEF IInv, TypeOK, RowInv, RefInv, LeavesQueue,
     WaitingDisp, RejectStart, OwnsSlot
<1>9. ASSUME NEW c \in Actions, FinishSteer(c)
      PROVE  LeavesQueue
  <2>1. /\ actAtt[c] \in Attempts /\ attState[actAtt[c]] # "absent"
        /\ attReq[actAtt[c]] \in Requests
    BY <1>9, PerformedAttempt DEF FinishSteer, Outcomes, Idle
  <2> QED BY <1>9, <2>1 DEF IInv, TypeOK, RowInv, RefInv, LeavesQueue,
     WaitingDisp, FinishSteer, SetAttemptUnknown, FinishStep, Outcomes,
     OriginalRequest, SteerOutstanding
<1>10. ASSUME NEW c \in Actions, FinishResponse(c)
      PROVE  LeavesQueue
  <2>1. /\ actAtt[c] \in Attempts /\ attState[actAtt[c]] # "absent"
        /\ attReq[actAtt[c]] \in Requests
    BY <1>10, PerformedAttempt DEF FinishResponse, Outcomes, Idle
  <2> QED BY <1>10, <2>1 DEF IInv, TypeOK, RowInv, RefInv, LeavesQueue,
     WaitingDisp, FinishResponse, SetAttemptUnknown, FinishStep, Outcomes
<1>11. ASSUME NEW c \in Actions, NEW outcome \in TerminalStates,
             NEW effect \in EffectStates, NEW class,
             StreamTerminal(c, outcome, effect, class)
      PROVE  LeavesQueue
  <2>1. /\ actAtt[c] \in Attempts /\ attState[actAtt[c]] # "absent"
        /\ attReq[actAtt[c]] \in Requests
    BY <1>11, PerformedAttempt DEF StreamTerminal, Observing, Idle
  <2> QED BY <1>11, <2>1 DEF IInv, TypeOK, RowInv, RefInv, LeavesQueue,
     WaitingDisp, StreamTerminal, EndFrame, ProjectTerminal,
     SetAttemptUnknown, TerminalStates, Observing
<1>12. ASSUME NEW c \in Actions, NEW effect \in EffectStates,
             StreamUnknown(c, effect)
      PROVE  LeavesQueue
  <2>1. /\ actAtt[c] \in Attempts /\ attState[actAtt[c]] # "absent"
        /\ attReq[actAtt[c]] \in Requests
    BY <1>12, PerformedAttempt DEF StreamUnknown, Observing, Idle
  <2> QED BY <1>12, <2>1 DEF IInv, TypeOK, RowInv, RefInv, LeavesQueue,
     WaitingDisp, StreamUnknown, EndFrame, SetAttemptUnknown, Observing
<1>13. ASSUME NEW outcome \in TerminalStates, NEW effect \in EffectStates,
             NEW class, ReconcileApply(outcome, effect, class)
      PROVE  LeavesQueue
  <2>1. /\ reconciling \in Attempts /\ attState[reconciling] # "absent"
        /\ attReq[reconciling] \in Requests
    BY <1>13 DEF IInv, TypeOK, RowInv, ReconcileApply
  <2> QED BY <1>13, <2>1 DEF IInv, TypeOK, RowInv, RefInv, LeavesQueue,
     WaitingDisp, ReconcileApply, EndFrame, ProjectTerminal,
     SetAttemptUnknown, TerminalStates, CancelStream
<1>14. CASE Restart
  <2>1. active # 0 => /\ active \in Attempts /\ attState[active] # "absent"
                      /\ attReq[active] \in Requests
    BY DEF IInv, TypeOK, RowInv, SlotInv, ActiveStates
  <2> QED BY <1>14, <2>1 DEF IInv, TypeOK, RowInv, RefInv, LeavesQueue,
     WaitingDisp, Restart, RecoverActive, SetAttemptUnknown
<1>15. CASE UNCHANGED <<msgDisp, reqStatus, reqMsg>>
  BY <1>15 DEF LeavesQueue, WaitingDisp
<1>16. CASE CommandStep
  BY <1>16, <1>1, <1>2, <1>3, <1>4, <1>15 DEF CommandStep, DialogCreate,
     QueueResume, AttemptStop, Respond
<1>17. CASE LoopStep
  BY <1>17, <1>5, <1>15 DEF LoopStep, PeekDispatch, BlockPolicy, DropCandidate
<1>18. ASSUME NEW c \in Actions, ClaimAction(c) PROVE LeavesQueue
  BY <1>18, <1>15 DEF ClaimAction
<1>19. ASSUME NEW c \in Actions, WorkerStep(c) PROVE LeavesQueue
  BY <1>19, <1>6, <1>7, <1>8, <1>9, <1>10, <1>15 DEF WorkerStep,
     RequeueDispatch, EnterDispatch, IssueTurn, StartReturns, CancelReturns,
     SteerReturns, RespondReturns, TransactionLost, FinishAction,
     DurableUnchanged
<1>20. ASSUME NEW c \in Actions, StreamEnds(c) PROVE LeavesQueue
  BY <1>20, <1>11, <1>12, <1>15 DEF StreamEnds, RegisterStream, StreamClosed,
     DurableUnchanged
<1>21. ASSUME NEW c \in Actions, StreamEvent(c) PROVE LeavesQueue
  BY <1>21, <1>15 DEF StreamEvent, ToolStarted, ToolCompleted, OutputLimit,
     EnterWaiting, WaitRequested, EventFrame
<1>22. CASE ReconcileStep
  BY <1>22, StateValues, <1>13, <1>15 DEF ReconcileStep, ReconcileBegin,
     ReconcileNone, DurableUnchanged
<1>23. CASE ProviderStep
  BY <1>23, <1>15 DEF ProviderStep, ProviderStarts, ProviderEnds,
     DurableUnchanged
<1>24. CASE BarrierStep
  BY <1>24, <1>15 DEF BarrierStep, InstallHold, ReleaseHold,
     DeleteLogicalDialog, BeginSettings, SettingsSwap, SettingsRelease,
     SetSettingsReady, ProviderAuthStart, ProviderAuthCheck,
     ProviderAuthSettles, RowsUnchanged, SettingsFrame, AuthFrame
<1>25. CASE UNCHANGED vars
  BY <1>25, <1>15 DEF vars
<1> QED BY <1>16, <1>17, <1>18, <1>19, <1>20, <1>21, <1>22, <1>23, <1>24,
   <1>14, <1>25 DEF Next

\* The requests of a message that awaits its first start are all in the queue.
AwaitInv ==
  \A m \in Messages : AwaitsFirstStart(m) =>
    \A r \in Requests : reqMsg[r] = m => reqStatus[r] = "queued"

\* No message exists at first.
LEMMA AwaitInit == InitStore => AwaitInv
BY DEF InitStore, AwaitInv, AwaitsFirstStart

\* An attempt keeps its message.
LEMMA AttemptMessage ==
  ASSUME IInv, RefInv, RowsKept, NEW a \in Attempts, attState[a] # "absent"
  PROVE  /\ attState'[a] # "absent"
         /\ MessageOfAttempt(a)' = MessageOfAttempt(a)
         /\ MessageOfAttempt(a) \in Messages
         /\ msgDisp[MessageOfAttempt(a)] # "absent"
<1>1. attReq[a] \in Requests /\ reqStatus[attReq[a]] # "absent"
  BY DEF IInv, RowInv, RefInv
<1> QED BY <1>1 DEF IInv, TypeOK, RefInv, RowsKept, MessageOfAttempt

\* A message that awaits its first start, unless it is new, awaited it before.
LEMMA AwaitedBefore ==
  ASSUME IInv, RefInv, RowsKept, LeavesQueue,
         NEW m \in Messages, AwaitsFirstStart(m)', msgDisp[m] # "absent"
  PROVE  AwaitsFirstStart(m)
<1>1. \A a \in Attempts : attState[a] # "absent" => MessageOfAttempt(a) # m
  BY AttemptMessage DEF AwaitsFirstStart
<1> QED BY <1>1 DEF AwaitsFirstStart, LeavesQueue, WaitingDisp

\* Only its first start, its settlement or its cancellation takes a request of
\* the message from the queue.
LEMMA AwaitNext ==
  ASSUME IInv, RefInv, RowsKept, AwaitInv, [Next]_vars
  PROVE  AwaitInv'
<1> SUFFICES ASSUME NEW m \in Messages, AwaitsFirstStart(m)',
                    NEW r \in Requests, reqMsg'[r] = m
             PROVE  reqStatus'[r] = "queued"
  BY DEF AwaitInv
<1>1. LeavesQueue
  BY QueueLeft
<1>2. ASSUME msgDisp[m] # "absent", reqMsg[r] = m
      PROVE  reqStatus'[r] = "queued"
  <2>1. reqStatus[r] = "queued"
    BY <1>1, <1>2, AwaitedBefore DEF AwaitInv
  <2>2. msgDisp'[m] \in WaitingDisp
    BY DEF AwaitsFirstStart, WaitingDisp
  <2>3. \A a \in Attempts : attState'[a] # "absent" => attReq'[a] # r
    BY DEF AwaitsFirstStart, MessageOfAttempt
  <2> QED BY <1>1, <1>2, <2>1, <2>2, <2>3 DEF LeavesQueue
<1>3. CASE NoNewRequest
  <2>1. msgDisp[m] # "absent"
    BY <1>3 DEF NoNewRequest, AwaitsFirstStart
  <2> QED BY <1>2, <1>3, <2>1 DEF NoNewRequest
<1>4. ASSUME NEW d \in Dialogs, NEW n \in Messages, NEW q \in Requests,
             MessageEnqueue(d, n, q)
      PROVE  reqStatus'[r] = "queued"
  <2>1. CASE r = q
    BY <1>4, <2>1 DEF IInv, TypeOK, MessageEnqueue
  <2>2. CASE r # q
    BY <1>2, <1>4, <2>2, MessagesPositive
       DEF IInv, TypeOK, RefInv, MessageEnqueue
  <2> QED BY <2>1, <2>2
<1>5. ASSUME NEW a \in Attempts, NEW ack \in BOOLEAN, NEW q \in Requests,
             AttemptRetry(a, ack, q)
      PROVE  reqStatus'[r] = "queued"
  <2>1. CASE r = q
    BY <1>5, <2>1 DEF IInv, TypeOK, AttemptRetry
  <2>2. CASE r # q
    BY <1>2, <1>5, <2>2, MessagesPositive
       DEF IInv, TypeOK, RefInv, AttemptRetry
  <2> QED BY <2>1, <2>2
<1> QED BY <1>3, <1>4, <1>5, RequestIsAdded DEF RequestAdded

-----------------------------------------------------------------------------
\* The order of a dialog.

\* No attempt exists at first.
LEMMA OrderInit == InitStore => DialogInputOrder
BY DEF InitStore, DialogInputOrder

\* DispatchNext takes the oldest request of the queue that no hold covers, and
\* a hold covers all requests of a dialog or none.
LEMMA OrderNext ==
  ASSUME IInv, RefInv, RowsKept, SeqInv, AwaitInv, DialogInputOrder, [Next]_vars
  PROVE  DialogInputOrder'
<1> SUFFICES ASSUME NEW m \in Messages, NEW n \in Messages, m < n,
                    msgDialog'[m] = msgDialog'[n], AwaitsFirstStart(m)',
                    NEW a \in Attempts, attState'[a] # "absent",
                    MessageOfAttempt(a)' = n
             PROVE  FALSE
  BY DEF DialogInputOrder
<1>1. LeavesQueue
  BY QueueLeft
<1>2. ASSUME msgDisp[m] # "absent", msgDisp[n] # "absent"
      PROVE  msgDialog[m] = msgDialog[n] /\ AwaitsFirstStart(m)
  BY <1>1, <1>2, AwaitedBefore DEF RowsKept
<1>3. CASE attState[a] # "absent"
  <2>1. MessageOfAttempt(a) = n /\ msgDisp[n] # "absent"
    BY <1>3, AttemptMessage
  <2>2. msgDisp[m] # "absent"
    BY <2>1 DEF SeqInv
  <2> QED BY <1>2, <1>3, <2>1, <2>2 DEF DialogInputOrder
<1>4. CASE attState[a] = "absent"
  <2>1. PICK r \in Requests, c \in Actions : CommitDispatch(r, a, c)
    <3>1. PICK r \in Requests, b \in Attempts, c \in Actions :
            CommitDispatch(r, b, c)
      BY <1>4, AttemptIsAdded DEF AttemptAdded, NoNewAttempt
    <3>2. a = b
      BY <1>4, <3>1 DEF CommitDispatch, IInv, TypeOK
    <3> QED BY <3>1, <3>2
  <2>2. reqMsg[r] = n /\ reqStatus[r] = "queued" /\ ~Held(DialogOf(r))
    BY <2>1 DEF CommitDispatch, CandidateCurrent, QueueHead, Unheld, Queued,
       MessageOfAttempt, IInv, TypeOK
  <2>3. msgDisp[n] # "absent" /\ msgDisp[m] # "absent"
    BY <2>2 DEF RefInv, IInv, TypeOK, SeqInv
  <2>4. msgDialog[m] = msgDialog[n] /\ AwaitsFirstStart(m)
    BY <1>2, <2>3
  <2>5. PICK q \in Requests : q < r /\ reqMsg[q] = m
    BY <2>2 DEF SeqInv
  <2>6. q \in Unheld
    BY <2>2, <2>4, <2>5 DEF AwaitInv, Unheld, Queued, DialogOf
  <2>7. r <= q
    BY <2>1, <2>6 DEF CommitDispatch, CandidateCurrent, QueueHead
  <2> QED BY <2>5, <2>7 DEF Requests
<1> QED BY <1>3, <1>4

\* DispatchNext against message.enqueue, message.steer and holds: in one dialog
\* no input is started while an earlier one still awaits its first start.
THEOREM InputsInOrder == Spec => []DialogInputOrder
<1> DEFINE Inv == SeqInv /\ AwaitInv /\ DialogInputOrder
<1>1. InitStore => Inv
  BY SeqInit, AwaitInit, OrderInit
<1>2. IInv /\ RefInv /\ Inv /\ [Next]_vars => Inv'
  BY RowsAreKept, SeqNext, AwaitNext, OrderNext
<1> QED BY <1>1, <1>2, Invariance, RefInvariance, PTL DEF Spec

-----------------------------------------------------------------------------
\* What ends up with an attempt.

\* An attempt becomes dispatching when it is added.
DispatchingAdded ==
  \A a \in Attempts : attState'[a] = "dispatching" =>
    attState[a] \in {"dispatching", "absent"}

\* No other step makes an attempt dispatching.
LEMMA DispatchingIsAdded ==
  ASSUME IInv, [Next]_vars
  PROVE  DispatchingAdded
<1>1. ASSUME NEW a \in Attempts, NEW c \in Actions, NEW low,
             AttemptStop(a, c, low)
      PROVE  DispatchingAdded
  BY <1>1 DEF IInv, TypeOK, DispatchingAdded, AttemptStop, ControlState,
     InsertAction, NextAction
<1>2. ASSUME NEW r \in Requests, NEW a \in Attempts, NEW c \in Actions,
             CommitDispatch(r, a, c)
      PROVE  DispatchingAdded
  BY <1>2 DEF IInv, TypeOK, DispatchingAdded, CommitDispatch, InsertAction,
     NextAction, CandidateCurrent, QueueHead, Unheld, Queued, NextAttempt
<1>3. ASSUME NEW c \in Actions, MarkStarted(c)
      PROVE  DispatchingAdded
  <2>1. /\ actAtt[c] \in Attempts /\ attState[actAtt[c]] # "absent"
        /\ attReq[actAtt[c]] \in Requests
    BY <1>3, PerformedAttempt DEF MarkStarted, Idle
  <2> QED BY <1>3, <2>1 DEF IInv, TypeOK, DispatchingAdded, MarkStarted
<1>4. ASSUME NEW c \in Actions, MarkUnknown(c)
      PROVE  DispatchingAdded
  <2>1. /\ actAtt[c] \in Attempts /\ attState[actAtt[c]] # "absent"
        /\ attReq[actAtt[c]] \in Requests
    BY <1>4, PerformedAttempt DEF MarkUnknown, Idle
  <2> QED BY <1>4, <2>1 DEF IInv, TypeOK, DispatchingAdded, MarkUnknown,
     SetAttemptUnknown, OwnsSlot
<1>5. ASSUME NEW c \in Actions, RejectStart(c)
      PROVE  DispatchingAdded
  <2>1. /\ actAtt[c] \in Attempts /\ attState[actAtt[c]] # "absent"
        /\ attReq[actAtt[c]] \in Requests
    BY <1>5, PerformedAttempt DEF RejectStart, Idle
  <2> QED BY <1>5, <2>1 DEF IInv, TypeOK, DispatchingAdded, RejectStart,
     OwnsSlot
<1>6. ASSUME NEW c \in Actions, FinishSteer(c)
      PROVE  DispatchingAdded
  <2>1. /\ actAtt[c] \in Attempts /\ attState[actAtt[c]] # "absent"
        /\ attReq[actAtt[c]] \in Requests
    BY <1>6, PerformedAttempt DEF FinishSteer, Outcomes, Idle
  <2> QED BY <1>6, <2>1 DEF IInv, TypeOK, DispatchingAdded, FinishSteer,
     SetAttemptUnknown, FinishStep, Outcomes, OriginalRequest,
     SteerOutstanding
<1>7. ASSUME NEW c \in Actions, FinishResponse(c)
      PROVE  DispatchingAdded
  <2>1. /\ actAtt[c] \in Attempts /\ attState[actAtt[c]] # "absent"
        /\ attReq[actAtt[c]] \in Requests
    BY <1>7, PerformedAttempt DEF FinishResponse, Outcomes, Idle
  <2> QED BY <1>7, <2>1 DEF IInv, TypeOK, DispatchingAdded, FinishResponse,
     SetAttemptUnknown, FinishStep, Outcomes
<1>8. ASSUME NEW c \in Actions, NEW outcome \in TerminalStates,
             NEW effect \in EffectStates, NEW class,
             StreamTerminal(c, outcome, effect, class)
      PROVE  DispatchingAdded
  <2>1. /\ actAtt[c] \in Attempts /\ attState[actAtt[c]] # "absent"
        /\ attReq[actAtt[c]] \in Requests
    BY <1>8, PerformedAttempt DEF StreamTerminal, Observing, Idle
  <2> QED BY <1>8, <2>1 DEF IInv, TypeOK, DispatchingAdded, StreamTerminal,
     EndFrame, ProjectTerminal, SetAttemptUnknown, TerminalStates, Observing
<1>9. ASSUME NEW c \in Actions, NEW effect \in EffectStates,
             StreamUnknown(c, effect)
      PROVE  DispatchingAdded
  <2>1. /\ actAtt[c] \in Attempts /\ attState[actAtt[c]] # "absent"
        /\ attReq[actAtt[c]] \in Requests
    BY <1>9, PerformedAttempt DEF StreamUnknown, Observing, Idle
  <2> QED BY <1>9, <2>1 DEF IInv, TypeOK, DispatchingAdded, StreamUnknown,
     EndFrame, SetAttemptUnknown, Observing
<1>10. ASSUME NEW c \in Actions, NEW over, ToolStarted(c, over)
      PROVE  DispatchingAdded
  <2>1. /\ actAtt[c] \in Attempts /\ attState[actAtt[c]] # "absent"
        /\ attReq[actAtt[c]] \in Requests
    BY <1>10, PerformedAttempt DEF ToolStarted, InBudget, Observing, Idle
  <2>2. CASE UNCHANGED <<attState, actionVars>>
    BY <1>10, <2>1, <2>2 DEF IInv, TypeOK, DispatchingAdded, ToolStarted,
       EventFrame, InBudget, Observing
  <2>3. ASSUME NEW s \in Actions,
               InsertAction(s, "attempt.stop", actAtt[c], 0),
               attState[actAtt[c]] \in {"running", "waiting_input"},
               attState' = [attState EXCEPT ![actAtt[c]] = "stopping"]
        PROVE  DispatchingAdded
    BY <1>10, <2>1, <2>3 DEF IInv, TypeOK, DispatchingAdded, ToolStarted,
       EventFrame, InBudget, Observing, InsertAction, NextAction
  <2> QED BY <1>10, <2>2, <2>3 DEF ToolStarted, ChargeOutput
<1>11. ASSUME NEW c \in Actions, NEW over, NEW end,
             ToolCompleted(c, over, end)
      PROVE  DispatchingAdded
  <2>1. /\ actAtt[c] \in Attempts /\ attState[actAtt[c]] # "absent"
        /\ attReq[actAtt[c]] \in Requests
    BY <1>11, PerformedAttempt DEF ToolCompleted, InBudget, Observing, Idle
  <2>2. CASE UNCHANGED <<attState, actionVars>>
    BY <1>11, <2>1, <2>2 DEF IInv, TypeOK, DispatchingAdded, ToolCompleted,
       EventFrame, InBudget, Observing
  <2>3. ASSUME NEW s \in Actions,
               InsertAction(s, "attempt.stop", actAtt[c], 0),
               attState[actAtt[c]] \in {"running", "waiting_input"},
               attState' = [attState EXCEPT ![actAtt[c]] = "stopping"]
        PROVE  DispatchingAdded
    BY <1>11, <2>1, <2>3 DEF IInv, TypeOK, DispatchingAdded, ToolCompleted,
       EventFrame, InBudget, Observing, InsertAction, NextAction
  <2> QED BY <1>11, <2>2, <2>3 DEF ToolCompleted, ChargeOutput
<1>12. ASSUME NEW c \in Actions, OutputLimit(c)
      PROVE  DispatchingAdded
  <2>1. /\ actAtt[c] \in Attempts /\ attState[actAtt[c]] # "absent"
        /\ attReq[actAtt[c]] \in Requests
    BY <1>12, PerformedAttempt DEF OutputLimit, InBudget, Observing, Idle
  <2>2. CASE UNCHANGED <<attState, actionVars>>
    BY <1>12, <2>1, <2>2 DEF IInv, TypeOK, DispatchingAdded, OutputLimit,
       EventFrame, InBudget, Observing
  <2>3. ASSUME NEW s \in Actions,
               InsertAction(s, "attempt.stop", actAtt[c], 0),
               attState[actAtt[c]] \in {"running", "waiting_input"},
               attState' = [attState EXCEPT ![actAtt[c]] = "stopping"]
        PROVE  DispatchingAdded
    BY <1>12, <2>1, <2>3 DEF IInv, TypeOK, DispatchingAdded, OutputLimit,
       EventFrame, InBudget, Observing, InsertAction, NextAction
  <2> QED BY <1>12, <2>2, <2>3 DEF OutputLimit, ChargeOutput
<1>13. ASSUME NEW c \in Actions, EnterWaiting(c)
      PROVE  DispatchingAdded
  <2>1. /\ actAtt[c] \in Attempts /\ attState[actAtt[c]] # "absent"
        /\ attReq[actAtt[c]] \in Requests
    BY <1>13, PerformedAttempt DEF EnterWaiting, Observing, Idle
  <2> QED BY <1>13, <2>1 DEF IInv, TypeOK, DispatchingAdded, EnterWaiting,
     EventFrame, Observing
<1>14. ASSUME NEW c \in Actions, NEW w \in Waits, NEW over,
             WaitRequested(c, w, over)
      PROVE  DispatchingAdded
  <2>1. /\ actAtt[c] \in Attempts /\ attState[actAtt[c]] # "absent"
        /\ attReq[actAtt[c]] \in Requests
    BY <1>14, PerformedAttempt DEF WaitRequested, InBudget, Observing, Idle
  <2>2. CASE UNCHANGED <<attState, actionVars>>
    BY <1>14, <2>1, <2>2 DEF IInv, TypeOK, DispatchingAdded, WaitRequested,
       EventFrame, InBudget, Observing, NextWait
  <2>3. ASSUME NEW s \in Actions,
               InsertAction(s, "attempt.stop", actAtt[c], 0),
               attState[actAtt[c]] \in {"running", "waiting_input"},
               attState' = [attState EXCEPT ![actAtt[c]] = "stopping"]
        PROVE  DispatchingAdded
    BY <1>14, <2>1, <2>3 DEF IInv, TypeOK, DispatchingAdded, WaitRequested,
       EventFrame, InBudget, Observing, InsertAction, NextAction, NextWait
  <2>4. CASE /\ attState' = [attState EXCEPT ![actAtt[c]] = "waiting_input"]
             /\ UNCHANGED <<attOver, actionVars>>
    BY <1>14, <2>1, <2>4 DEF IInv, TypeOK, DispatchingAdded, WaitRequested,
       EventFrame, InBudget, Observing, NextWait
  <2> QED BY <1>14, <2>2, <2>3, <2>4 DEF WaitRequested, ChargeOutput
<1>15. ASSUME NEW outcome \in TerminalStates, NEW effect \in EffectStates,
             NEW class, ReconcileApply(outcome, effect, class)
      PROVE  DispatchingAdded
  <2>1. /\ reconciling \in Attempts /\ attState[reconciling] # "absent"
        /\ attReq[reconciling] \in Requests
    BY <1>15 DEF IInv, TypeOK, RowInv, ReconcileApply
  <2> QED BY <1>15, <2>1 DEF IInv, TypeOK, DispatchingAdded, ReconcileApply,
     EndFrame, ProjectTerminal, SetAttemptUnknown, TerminalStates,
     CancelStream
<1>16. CASE Restart
  <2>1. active # 0 => /\ active \in Attempts /\ attState[active] # "absent"
                      /\ attReq[active] \in Requests
    BY DEF IInv, TypeOK, RowInv, SlotInv, ActiveStates
  <2> QED BY <1>16, <2>1 DEF IInv, TypeOK, DispatchingAdded, Restart,
     RecoverActive, SetAttemptUnknown
<1>17. CASE UNCHANGED attState
  BY <1>17 DEF DispatchingAdded
<1>18. CASE CommandStep
  BY <1>18, <1>1, <1>17 DEF CommandStep, DialogCreate, MessageEnqueue,
     RequestCancel, QueueResume, AttemptRetry, MessageSteer, Respond
<1>19. CASE LoopStep
  BY <1>19, <1>2, <1>17 DEF LoopStep, PeekDispatch, BlockPolicy, DropCandidate
<1>20. ASSUME NEW c \in Actions, ClaimAction(c) PROVE DispatchingAdded
  BY <1>20, <1>17 DEF ClaimAction
<1>21. ASSUME NEW c \in Actions, WorkerStep(c) PROVE DispatchingAdded
  BY <1>21, <1>3, <1>4, <1>5, <1>6, <1>7, <1>17 DEF WorkerStep,
     RequeueDispatch, EnterDispatch, IssueTurn, StartReturns, CancelReturns,
     SteerReturns, RespondReturns, TransactionLost, FinishAction,
     DurableUnchanged
<1>22. ASSUME NEW c \in Actions, StreamEnds(c) PROVE DispatchingAdded
  BY <1>22, <1>8, <1>9, <1>17 DEF StreamEnds, RegisterStream, StreamClosed,
     DurableUnchanged
<1>23. ASSUME NEW c \in Actions, StreamEvent(c) PROVE DispatchingAdded
  BY <1>23, <1>10, <1>11, <1>12, <1>13, <1>14 DEF StreamEvent
<1>24. CASE ReconcileStep
  BY <1>24, StateValues, <1>15, <1>17 DEF ReconcileStep, ReconcileBegin,
     ReconcileNone, DurableUnchanged
<1>25. CASE ProviderStep
  BY <1>25, <1>17 DEF ProviderStep, ProviderStarts, ProviderEnds,
     DurableUnchanged
<1>26. CASE BarrierStep
  BY <1>26, <1>17 DEF BarrierStep, InstallHold, ReleaseHold,
     DeleteLogicalDialog, BeginSettings, SettingsSwap, SettingsRelease,
     SetSettingsReady, ProviderAuthStart, ProviderAuthCheck,
     ProviderAuthSettles, RowsUnchanged, SettingsFrame, AuthFrame
<1>27. CASE UNCHANGED vars
  BY <1>27, <1>17 DEF vars
<1> QED BY <1>18, <1>19, <1>20, <1>21, <1>22, <1>23, <1>24, <1>25, <1>26,
   <1>16, <1>27 DEF Next

\* A dispatch calls the adapter only for an attempt it found dispatching.
CallEntered ==
  \A c \in Actions : pc'[c] = "calling" =>
    \/ pc[c] = "calling"
    \/ pc[c] = "claimed" /\ attState[actAtt[c]] = "dispatching"

\* The other steps of a goroutine lead elsewhere.
LEMMA CallIsEntered ==
  ASSUME IInv, [Next]_vars
  PROVE  CallEntered
<1>1. ASSUME NEW c \in Actions, ClaimAction(c)
      PROVE  CallEntered
  BY <1>1 DEF IInv, TypeOK, CallEntered, Idle, ClaimAction
<1>2. ASSUME NEW c \in Actions, RequeueDispatch(c)
      PROVE  CallEntered
  BY <1>2 DEF IInv, TypeOK, CallEntered, Idle, RequeueDispatch
<1>3. ASSUME NEW c \in Actions, EnterDispatch(c)
      PROVE  CallEntered
  BY <1>3 DEF IInv, TypeOK, CallEntered, Idle, EnterDispatch
<1>4. ASSUME NEW c \in Actions, StartReturns(c)
      PROVE  CallEntered
  BY <1>4 DEF IInv, TypeOK, CallEntered, Idle, StartReturns
<1>5. ASSUME NEW c \in Actions, MarkStarted(c)
      PROVE  CallEntered
  BY <1>5 DEF IInv, TypeOK, CallEntered, Idle, MarkStarted
<1>6. ASSUME NEW c \in Actions, MarkUnknown(c)
      PROVE  CallEntered
  BY <1>6 DEF IInv, TypeOK, CallEntered, Idle, MarkUnknown
<1>7. ASSUME NEW c \in Actions, RejectStart(c)
      PROVE  CallEntered
  BY <1>7 DEF IInv, TypeOK, CallEntered, Idle, RejectStart
<1>8. ASSUME NEW c \in Actions, CancelReturns(c)
      PROVE  CallEntered
  BY <1>8 DEF IInv, TypeOK, CallEntered, Idle, CancelReturns
<1>9. ASSUME NEW c \in Actions, SteerReturns(c)
      PROVE  CallEntered
  BY <1>9 DEF IInv, TypeOK, CallEntered, Idle, SteerReturns
<1>10. ASSUME NEW c \in Actions, RespondReturns(c)
      PROVE  CallEntered
  BY <1>10 DEF IInv, TypeOK, CallEntered, Idle, RespondReturns
<1>11. ASSUME NEW c \in Actions, FinishSteer(c)
      PROVE  CallEntered
  BY <1>11 DEF IInv, TypeOK, CallEntered, Idle, FinishSteer, FinishStep
<1>12. ASSUME NEW c \in Actions, FinishResponse(c)
      PROVE  CallEntered
  BY <1>12 DEF IInv, TypeOK, CallEntered, Idle, FinishResponse, FinishStep
<1>13. ASSUME NEW c \in Actions, TransactionLost(c)
      PROVE  CallEntered
  BY <1>13 DEF IInv, TypeOK, CallEntered, Idle, TransactionLost, FinishStep
<1>14. ASSUME NEW c \in Actions, FinishAction(c)
      PROVE  CallEntered
  BY <1>14 DEF IInv, TypeOK, CallEntered, Idle, FinishAction
<1>15. ASSUME NEW c \in Actions, RegisterStream(c)
      PROVE  CallEntered
  BY <1>15 DEF IInv, TypeOK, CallEntered, Idle, RegisterStream
<1>16. ASSUME NEW c \in Actions, StreamClosed(c)
      PROVE  CallEntered
  BY <1>16 DEF IInv, TypeOK, CallEntered, Idle, StreamClosed
<1>17. ASSUME NEW c \in Actions, NEW outcome \in TerminalStates,
             NEW effect \in EffectStates, NEW class,
             StreamTerminal(c, outcome, effect, class)
      PROVE  CallEntered
  BY <1>17 DEF IInv, TypeOK, CallEntered, Idle, StreamTerminal
<1>18. ASSUME NEW c \in Actions, NEW effect \in EffectStates,
             StreamUnknown(c, effect)
      PROVE  CallEntered
  BY <1>18 DEF IInv, TypeOK, CallEntered, Idle, StreamUnknown
<1>19. ASSUME NEW outcome \in TerminalStates, NEW effect \in EffectStates,
             NEW class, ReconcileApply(outcome, effect, class)
      PROVE  CallEntered
  BY <1>19 DEF IInv, TypeOK, CallEntered, Idle, ReconcileApply, CancelStream
<1>20. CASE Restart
  BY <1>20 DEF IInv, TypeOK, CallEntered, Idle, Restart
<1>21. CASE UNCHANGED pc
  BY <1>21 DEF CallEntered
<1>22. CASE CommandStep
  BY <1>22, <1>21 DEF CommandStep, DialogCreate, MessageEnqueue,
     RequestCancel, QueueResume, AttemptStop, AttemptRetry, MessageSteer,
     Respond
<1>23. CASE LoopStep
  BY <1>23, <1>21 DEF LoopStep, PeekDispatch, BlockPolicy, CommitDispatch,
     DropCandidate
<1>24. ASSUME NEW c \in Actions, WorkerStep(c) PROVE CallEntered
  BY <1>24, <1>2, <1>3, <1>4, <1>5, <1>6, <1>7, <1>8, <1>9, <1>10, <1>11,
     <1>12, <1>13, <1>14, <1>21 DEF WorkerStep, IssueTurn, DurableUnchanged
<1>25. ASSUME NEW c \in Actions, StreamEnds(c) PROVE CallEntered
  BY <1>25, <1>15, <1>16, <1>17, <1>18 DEF StreamEnds
<1>26. ASSUME NEW c \in Actions, StreamEvent(c) PROVE CallEntered
  BY <1>26, <1>21 DEF StreamEvent, ToolStarted, ToolCompleted, OutputLimit,
     EnterWaiting, WaitRequested, EventFrame
<1>27. CASE ReconcileStep
  BY <1>27, StateValues, <1>19, <1>21 DEF ReconcileStep, ReconcileBegin,
     ReconcileNone, DurableUnchanged
<1>28. CASE ProviderStep
  BY <1>28, <1>21 DEF ProviderStep, ProviderStarts, ProviderEnds,
     DurableUnchanged
<1>29. CASE BarrierStep
  BY <1>29, <1>21 DEF BarrierStep, InstallHold, ReleaseHold,
     DeleteLogicalDialog, BeginSettings, SettingsSwap, SettingsRelease,
     SetSettingsReady, ProviderAuthStart, ProviderAuthCheck,
     ProviderAuthSettles, RowsUnchanged, SettingsFrame, AuthFrame
<1>30. CASE UNCHANGED vars
  BY <1>30, <1>21 DEF vars
<1> QED BY <1>22, <1>23, <1>1, <1>24, <1>25, <1>26, <1>27, <1>28, <1>29,
   <1>20, <1>30 DEF Next

\* The attempt of a dispatch that enters its call.
LEMMA CallAttempt ==
  ASSUME IInv, RowsKept, [Next]_vars,
         NEW c \in Actions, pc'[c] = "calling", pc[c] # "calling"
  PROVE  actAtt'[c] \in Attempts /\ attState[actAtt'[c]] = "dispatching"
<1>1. pc[c] = "claimed" /\ attState[actAtt[c]] = "dispatching"
  BY CallIsEntered DEF CallEntered
<1>2. actStatus[c] # "absent" /\ actAtt[c] \in Attempts
  BY <1>1 DEF IInv, RowInv, Idle
<1> QED BY <1>1, <1>2 DEF RowsKept

\* Attempts are numbered without gaps, and the attempt that is dispatched or
\* whose start is with the adapter is the newest.
NewestInv ==
  /\ \A a, b \in Attempts : a < b /\ attState[b] # "absent"
                            => attState[a] # "absent"
  /\ \A a, b \in Attempts : attState[a] = "dispatching" /\ attState[b] # "absent"
                            => b <= a
  /\ \A c \in Actions, b \in Attempts : pc[c] = "calling" /\ attState[b] # "absent"
                                        => b <= actAtt[c]

\* No attempt exists at first.
LEMMA NewestInit == InitStore => NewestInv
BY DEF InitStore, NewestInv

\* startGate and the slot keep DispatchNext from adding an attempt meanwhile.
LEMMA NewestNext ==
  ASSUME IInv, RowsKept, NewestInv, [Next]_vars
  PROVE  NewestInv'
<1>1. DispatchingAdded /\ CallEntered
  BY DispatchingIsAdded, CallIsEntered
<1>2. \A c \in Actions : pc'[c] = "calling" =>
        \/ pc[c] = "calling" /\ actAtt'[c] = actAtt[c]
        \/ /\ actAtt'[c] \in Attempts
           /\ attState[actAtt'[c]] = "dispatching"
  <2> SUFFICES ASSUME NEW c \in Actions, pc'[c] = "calling"
               PROVE  \/ pc[c] = "calling" /\ actAtt'[c] = actAtt[c]
                      \/ /\ actAtt'[c] \in Attempts
                         /\ attState[actAtt'[c]] = "dispatching"
    OBVIOUS
  <2>1. CASE pc[c] = "calling"
    <3>1. actStatus[c] # "absent"
      BY <2>1 DEF IInv, RowInv, Idle
    <3> QED BY <2>1, <3>1 DEF RowsKept
  <2>2. CASE pc[c] # "calling"
    BY <2>2, CallAttempt
  <2> QED BY <2>1, <2>2
<1>3. CASE NoNewAttempt
  <2>1. \A a \in Attempts : attState'[a] = "absent" <=> attState[a] = "absent"
    BY <1>3 DEF NoNewAttempt, RowsKept
  <2> QED BY <1>1, <1>2, <2>1 DEF NewestInv, DispatchingAdded
<1>4. ASSUME NEW r \in Requests, NEW a \in Attempts, NEW c \in Actions,
             CommitDispatch(r, a, c)
      PROVE  NewestInv'
  <2>1. /\ attState' = [attState EXCEPT ![a] = "dispatching"]
        /\ attState \in [Attempts -> AttemptStates]
        /\ attState[a] = "absent"
        /\ \A b \in Attempts : b < a => attState[b] # "absent"
        /\ \A b \in Attempts : attState[b] # "dispatching"
        /\ pc' = pc /\ gate = Free
    BY <1>4 DEF CommitDispatch, CandidateCurrent, ActiveAttempts, ActiveStates,
       NextAttempt, IInv, TypeOK
  <2>2. \A d \in Actions : pc'[d] # "calling"
    BY <2>1, ActionsPositive DEF IInv, GateInv, GateSteps
  <2>3. \A b \in Attempts : attState'[b] # "absent" => b <= a
    BY <2>1 DEF NewestInv, Attempts
  <2> QED BY <2>1, <2>2, <2>3 DEF NewestInv, Attempts
<1> QED BY <1>3, <1>4, AttemptIsAdded DEF AttemptAdded

\* A message has at most one request in the queue.
SingleInv ==
  \A r, q \in Requests : /\ reqStatus[r] = "queued" /\ reqStatus[q] = "queued"
                         /\ reqMsg[r] = reqMsg[q]
                         => r = q

\* The queue is empty at first.
LEMMA SingleInit == InitStore => SingleInv
BY DEF InitStore, SingleInv

\* attempt.retry is refused while a request of the message is open.
LEMMA SingleNext ==
  ASSUME IInv, RefInv, RefInv', SingleInv, [Next]_vars
  PROVE  SingleInv'
<1>1. LeavesQueue
  BY QueueLeft
<1>2. CASE NoNewRequest
  <2>1. \A r \in Requests : reqStatus'[r] = "queued" => reqStatus[r] = "queued"
    BY <1>1, <1>2 DEF LeavesQueue, NoNewRequest, RefInv
  <2> QED BY <1>2, <2>1 DEF SingleInv, NoNewRequest
<1>3. ASSUME NEW d \in Dialogs, NEW m \in Messages, NEW r \in Requests,
             MessageEnqueue(d, m, r)
      PROVE  SingleInv'
  <2>1. /\ reqMsg' = [reqMsg EXCEPT ![r] = m]
        /\ reqStatus' = [reqStatus EXCEPT ![r] = "queued"]
        /\ msgDisp[m] = "absent"
    BY <1>3 DEF MessageEnqueue, NextMessage
  <2>2. \A q \in Requests : reqMsg[q] # m
    BY <2>1, MessagesPositive DEF RefInv
  <2> QED BY <2>1, <2>2 DEF IInv, TypeOK, SingleInv
<1>4. ASSUME NEW a \in Attempts, NEW ack \in BOOLEAN, NEW r \in Requests,
             AttemptRetry(a, ack, r)
      PROVE  SingleInv'
  <2>1. /\ reqMsg' = [reqMsg EXCEPT ![r] = MessageOfAttempt(a)]
        /\ reqStatus' = [reqStatus EXCEPT ![r] = "queued"]
        /\ \A q \in Requests : reqMsg[q] = MessageOfAttempt(a)
                               => reqStatus[q] # "queued"
    BY <1>4 DEF AttemptRetry
  <2> QED BY <2>1 DEF IInv, TypeOK, SingleInv
<1> QED BY <1>2, <1>3, <1>4, RequestIsAdded DEF RequestAdded

-----------------------------------------------------------------------------
\* The end of an attempt that is executed again.

\* The attempt that ended without a terminal of its stream was rejected by the
\* adapter: it has no waits, so no response can reopen it.
RejectedInv ==
  \A b \in Attempts : attState[b] \in TerminalStates /\ ~attTerminal[b] =>
    /\ \A w \in Waits : waitStatus[w] # "absent" => waitAtt[w] # b
    /\ \A c \in Actions : actAtt[c] = b => actKind[c] # "respond"

\* No attempt exists at first.
LEMMA RejectedInit == InitStore => RejectedInv
BY DEF InitStore, RejectedInv, TerminalStates

\* A rejected start never had a stream.
LEMMA RejectedNext ==
  ASSUME IInv, StageInv, RejectedInv, [Next]_vars
  PROVE  RejectedInv'
<1>1. ASSUME NEW a \in Attempts, NEW c \in Actions, NEW low,
             AttemptStop(a, c, low)
      PROVE  RejectedInv'
  BY <1>1 DEF IInv, TypeOK, RowInv, TerminalStates, RejectedInv, AttemptStop,
     ControlState, InsertAction, NextAction
<1>2. ASSUME NEW m \in Messages, NEW a \in Attempts, NEW c \in Actions,
             NEW low, MessageSteer(m, a, c, low)
      PROVE  RejectedInv'
  BY <1>2 DEF IInv, TypeOK, RowInv, TerminalStates, RejectedInv, MessageSteer,
     ControlState, InsertAction, NextAction
<1>3. ASSUME NEW w \in Waits, NEW c \in Actions, NEW low, Respond(w, c, low)
      PROVE  RejectedInv'
  BY <1>3 DEF IInv, TypeOK, RowInv, TerminalStates, RejectedInv, Respond,
     ControlState, InsertAction, NextAction
<1>4. ASSUME NEW r \in Requests, NEW a \in Attempts, NEW c \in Actions,
             CommitDispatch(r, a, c)
      PROVE  RejectedInv'
  BY <1>4 DEF IInv, TypeOK, RowInv, TerminalStates, RejectedInv,
     CommitDispatch, InsertAction, NextAction, CandidateCurrent, QueueHead,
     Unheld, Queued, NextAttempt
<1>5. ASSUME NEW c \in Actions, MarkStarted(c)
      PROVE  RejectedInv'
  <2>1. /\ actAtt[c] \in Attempts /\ attState[actAtt[c]] # "absent"
        /\ attReq[actAtt[c]] \in Requests
    BY <1>5, PerformedAttempt DEF MarkStarted, Idle
  <2> QED BY <1>5, <2>1 DEF IInv, TypeOK, RowInv, TerminalStates, RejectedInv,
     MarkStarted
<1>6. ASSUME NEW c \in Actions, MarkUnknown(c)
      PROVE  RejectedInv'
  <2>1. /\ actAtt[c] \in Attempts /\ attState[actAtt[c]] # "absent"
        /\ attReq[actAtt[c]] \in Requests
    BY <1>6, PerformedAttempt DEF MarkUnknown, Idle
  <2> QED BY <1>6, <2>1 DEF IInv, TypeOK, RowInv, TerminalStates, RejectedInv,
     MarkUnknown, SetAttemptUnknown, OwnsSlot
<1>7. ASSUME NEW c \in Actions, RejectStart(c)
      PROVE  RejectedInv'
  <2>1. /\ actAtt[c] \in Attempts /\ attState[actAtt[c]] # "absent"
        /\ attReq[actAtt[c]] \in Requests
    BY <1>7, PerformedAttempt DEF RejectStart, Idle
  <2>2. /\ \A w \in Waits : waitStatus[w] # "absent" => waitAtt[w] # actAtt[c]
        /\ \A d \in Actions : actAtt[d] = actAtt[c] => actKind[d] # "respond"
    BY <1>7 DEF StageInv, Early, RejectStart
  <2> QED BY <1>7, <2>1, <2>2 DEF IInv, TypeOK, RejectedInv, RejectStart
<1>8. ASSUME NEW c \in Actions, FinishSteer(c)
      PROVE  RejectedInv'
  <2>1. /\ actAtt[c] \in Attempts /\ attState[actAtt[c]] # "absent"
        /\ attReq[actAtt[c]] \in Requests
    BY <1>8, PerformedAttempt DEF FinishSteer, Outcomes, Idle
  <2> QED BY <1>8, <2>1 DEF IInv, TypeOK, RowInv, TerminalStates, RejectedInv,
     FinishSteer, SetAttemptUnknown, FinishStep, Outcomes, OriginalRequest,
     SteerOutstanding
<1>9. ASSUME NEW c \in Actions, FinishResponse(c)
      PROVE  RejectedInv'
  <2>1. /\ actAtt[c] \in Attempts /\ attState[actAtt[c]] # "absent"
        /\ attReq[actAtt[c]] \in Requests
    BY <1>9, PerformedAttempt DEF FinishResponse, Outcomes, Idle
  <2> QED BY <1>9, <2>1 DEF IInv, TypeOK, RowInv, TerminalStates, RejectedInv,
     FinishResponse, SetAttemptUnknown, FinishStep, Outcomes
<1>10. ASSUME NEW c \in Actions, NEW outcome \in TerminalStates,
             NEW effect \in EffectStates, NEW class,
             StreamTerminal(c, outcome, effect, class)
      PROVE  RejectedInv'
  <2>1. /\ actAtt[c] \in Attempts /\ attState[actAtt[c]] # "absent"
        /\ attReq[actAtt[c]] \in Requests
    BY <1>10, PerformedAttempt DEF StreamTerminal, Observing, Idle
  <2> QED BY <1>10, <2>1 DEF IInv, TypeOK, RowInv, TerminalStates, RejectedInv,
     StreamTerminal, EndFrame, ProjectTerminal, SetAttemptUnknown, Observing
<1>11. ASSUME NEW c \in Actions, NEW effect \in EffectStates,
             StreamUnknown(c, effect)
      PROVE  RejectedInv'
  <2>1. /\ actAtt[c] \in Attempts /\ attState[actAtt[c]] # "absent"
        /\ attReq[actAtt[c]] \in Requests
    BY <1>11, PerformedAttempt DEF StreamUnknown, Observing, Idle
  <2> QED BY <1>11, <2>1 DEF IInv, TypeOK, RowInv, TerminalStates, RejectedInv,
     StreamUnknown, EndFrame, SetAttemptUnknown, Observing
<1>12. ASSUME NEW c \in Actions, NEW over, ToolStarted(c, over)
      PROVE  RejectedInv'
  <2>1. /\ actAtt[c] \in Attempts /\ attState[actAtt[c]] # "absent"
        /\ attReq[actAtt[c]] \in Requests
    BY <1>12, PerformedAttempt DEF ToolStarted, InBudget, Observing, Idle
  <2>2. CASE UNCHANGED <<attState, actionVars>>
    BY <1>12, <2>1, <2>2 DEF IInv, TypeOK, RowInv, TerminalStates, RejectedInv,
       ToolStarted, EventFrame, InBudget, Observing
  <2>3. ASSUME NEW s \in Actions,
               InsertAction(s, "attempt.stop", actAtt[c], 0),
               attState[actAtt[c]] \in {"running", "waiting_input"},
               attState' = [attState EXCEPT ![actAtt[c]] = "stopping"]
        PROVE  RejectedInv'
    BY <1>12, <2>1, <2>3 DEF IInv, TypeOK, RowInv, TerminalStates, RejectedInv,
       ToolStarted, EventFrame, InBudget, Observing, InsertAction, NextAction
  <2> QED BY <1>12, <2>2, <2>3 DEF ToolStarted, ChargeOutput
<1>13. ASSUME NEW c \in Actions, NEW over, NEW end,
             ToolCompleted(c, over, end)
      PROVE  RejectedInv'
  <2>1. /\ actAtt[c] \in Attempts /\ attState[actAtt[c]] # "absent"
        /\ attReq[actAtt[c]] \in Requests
    BY <1>13, PerformedAttempt DEF ToolCompleted, InBudget, Observing, Idle
  <2>2. CASE UNCHANGED <<attState, actionVars>>
    BY <1>13, <2>1, <2>2 DEF IInv, TypeOK, RowInv, TerminalStates, RejectedInv,
       ToolCompleted, EventFrame, InBudget, Observing
  <2>3. ASSUME NEW s \in Actions,
               InsertAction(s, "attempt.stop", actAtt[c], 0),
               attState[actAtt[c]] \in {"running", "waiting_input"},
               attState' = [attState EXCEPT ![actAtt[c]] = "stopping"]
        PROVE  RejectedInv'
    BY <1>13, <2>1, <2>3 DEF IInv, TypeOK, RowInv, TerminalStates, RejectedInv,
       ToolCompleted, EventFrame, InBudget, Observing, InsertAction,
       NextAction
  <2> QED BY <1>13, <2>2, <2>3 DEF ToolCompleted, ChargeOutput
<1>14. ASSUME NEW c \in Actions, OutputLimit(c)
      PROVE  RejectedInv'
  <2>1. /\ actAtt[c] \in Attempts /\ attState[actAtt[c]] # "absent"
        /\ attReq[actAtt[c]] \in Requests
    BY <1>14, PerformedAttempt DEF OutputLimit, InBudget, Observing, Idle
  <2>2. CASE UNCHANGED <<attState, actionVars>>
    BY <1>14, <2>1, <2>2 DEF IInv, TypeOK, RowInv, TerminalStates, RejectedInv,
       OutputLimit, EventFrame, InBudget, Observing
  <2>3. ASSUME NEW s \in Actions,
               InsertAction(s, "attempt.stop", actAtt[c], 0),
               attState[actAtt[c]] \in {"running", "waiting_input"},
               attState' = [attState EXCEPT ![actAtt[c]] = "stopping"]
        PROVE  RejectedInv'
    BY <1>14, <2>1, <2>3 DEF IInv, TypeOK, RowInv, TerminalStates, RejectedInv,
       OutputLimit, EventFrame, InBudget, Observing, InsertAction, NextAction
  <2> QED BY <1>14, <2>2, <2>3 DEF OutputLimit, ChargeOutput
<1>15. ASSUME NEW c \in Actions, EnterWaiting(c)
      PROVE  RejectedInv'
  <2>1. /\ actAtt[c] \in Attempts /\ attState[actAtt[c]] # "absent"
        /\ attReq[actAtt[c]] \in Requests
    BY <1>15, PerformedAttempt DEF EnterWaiting, Observing, Idle
  <2> QED BY <1>15, <2>1 DEF IInv, TypeOK, RowInv, TerminalStates, RejectedInv,
     EnterWaiting, EventFrame, Observing
<1>16. ASSUME NEW c \in Actions, NEW w \in Waits, NEW over,
             WaitRequested(c, w, over)
      PROVE  RejectedInv'
  <2>1. /\ actAtt[c] \in Attempts /\ attState[actAtt[c]] # "absent"
        /\ attReq[actAtt[c]] \in Requests
    BY <1>16, PerformedAttempt DEF WaitRequested, InBudget, Observing, Idle
  <2>2. CASE UNCHANGED <<attState, actionVars>>
    BY <1>16, <2>1, <2>2 DEF IInv, TypeOK, RowInv, TerminalStates, RejectedInv,
       WaitRequested, EventFrame, InBudget, Observing, NextWait
  <2>3. ASSUME NEW s \in Actions,
               InsertAction(s, "attempt.stop", actAtt[c], 0),
               attState[actAtt[c]] \in {"running", "waiting_input"},
               attState' = [attState EXCEPT ![actAtt[c]] = "stopping"]
        PROVE  RejectedInv'
    BY <1>16, <2>1, <2>3 DEF IInv, TypeOK, RowInv, TerminalStates, RejectedInv,
       WaitRequested, EventFrame, InBudget, Observing, InsertAction,
       NextAction, NextWait
  <2>4. CASE /\ attState' = [attState EXCEPT ![actAtt[c]] = "waiting_input"]
             /\ UNCHANGED <<attOver, actionVars>>
    BY <1>16, <2>1, <2>4 DEF IInv, TypeOK, RowInv, TerminalStates, RejectedInv,
       WaitRequested, EventFrame, InBudget, Observing, NextWait
  <2> QED BY <1>16, <2>2, <2>3, <2>4 DEF WaitRequested, ChargeOutput
<1>17. ASSUME NEW outcome \in TerminalStates, NEW effect \in EffectStates,
             NEW class, ReconcileApply(outcome, effect, class)
      PROVE  RejectedInv'
  <2>1. /\ reconciling \in Attempts /\ attState[reconciling] # "absent"
        /\ attReq[reconciling] \in Requests
    BY <1>17 DEF IInv, TypeOK, RowInv, ReconcileApply
  <2> QED BY <1>17, <2>1 DEF IInv, TypeOK, RowInv, TerminalStates, RejectedInv,
     ReconcileApply, EndFrame, ProjectTerminal, SetAttemptUnknown,
     CancelStream
<1>18. CASE Restart
  <2>1. active # 0 => /\ active \in Attempts /\ attState[active] # "absent"
                      /\ attReq[active] \in Requests
    BY DEF IInv, TypeOK, RowInv, SlotInv, ActiveStates
  <2> QED BY <1>18, <2>1 DEF IInv, TypeOK, RowInv, TerminalStates, RejectedInv,
     Restart, RecoverActive, SetAttemptUnknown
<1>19. CASE UNCHANGED <<attState, attTerminal, waitVars, actKind, actAtt>>
  BY <1>19 DEF RejectedInv
<1>20. CASE CommandStep
  BY <1>20, <1>1, <1>2, <1>3, <1>19 DEF CommandStep, DialogCreate,
     MessageEnqueue, RequestCancel, QueueResume, AttemptRetry
<1>21. CASE LoopStep
  BY <1>21, <1>4, <1>19 DEF LoopStep, PeekDispatch, BlockPolicy, DropCandidate
<1>22. ASSUME NEW c \in Actions, ClaimAction(c) PROVE RejectedInv'
  BY <1>22, <1>19 DEF ClaimAction
<1>23. ASSUME NEW c \in Actions, WorkerStep(c) PROVE RejectedInv'
  BY <1>23, <1>5, <1>6, <1>7, <1>8, <1>9, <1>19 DEF WorkerStep,
     RequeueDispatch, EnterDispatch, IssueTurn, StartReturns, CancelReturns,
     SteerReturns, RespondReturns, TransactionLost, FinishAction,
     DurableUnchanged
<1>24. ASSUME NEW c \in Actions, StreamEnds(c) PROVE RejectedInv'
  BY <1>24, <1>10, <1>11, <1>19 DEF StreamEnds, RegisterStream, StreamClosed,
     DurableUnchanged
<1>25. ASSUME NEW c \in Actions, StreamEvent(c) PROVE RejectedInv'
  BY <1>25, <1>12, <1>13, <1>14, <1>15, <1>16 DEF StreamEvent
<1>26. CASE ReconcileStep
  BY <1>26, StateValues, <1>17, <1>19 DEF ReconcileStep, ReconcileBegin,
     ReconcileNone, DurableUnchanged
<1>27. CASE ProviderStep
  BY <1>27, <1>19 DEF ProviderStep, ProviderStarts, ProviderEnds,
     DurableUnchanged
<1>28. CASE BarrierStep
  BY <1>28, <1>19 DEF BarrierStep, InstallHold, ReleaseHold,
     DeleteLogicalDialog, BeginSettings, SettingsSwap, SettingsRelease,
     SetSettingsReady, ProviderAuthStart, ProviderAuthCheck,
     ProviderAuthSettles, RowsUnchanged, SettingsFrame, AuthFrame
<1>29. CASE UNCHANGED vars
  BY <1>29, <1>19 DEF vars
<1> QED BY <1>20, <1>21, <1>22, <1>23, <1>24, <1>25, <1>26, <1>27, <1>28,
   <1>18, <1>29 DEF Next

\* The attempt ended, and a response made it unknown again.
Reopened(b) ==
  /\ attState[b] = "unknown" /\ attTerminal[b]
  /\ \E c \in Actions : actAtt[c] = b /\ actKind[c] = "respond"

\* A second terminal of the attempt is a duplicate: it stays unknown.
ReopenedKept ==
  \A b \in Attempts :
    /\ attTerminal[b] => attTerminal'[b]
    /\ Reopened(b) => attState'[b] = "unknown"

\* No step ends an attempt a second time.
LEMMA ReopenedIsKept ==
  ASSUME IInv, StageInv, [Next]_vars
  PROVE  ReopenedKept
<1>1. ASSUME NEW a \in Attempts, NEW c \in Actions, NEW low,
             AttemptStop(a, c, low)
      PROVE  ReopenedKept
  BY <1>1 DEF IInv, TypeOK, ReopenedKept, Reopened, AttemptStop, ControlState,
     InsertAction, NextAction
<1>2. ASSUME NEW r \in Requests, NEW a \in Attempts, NEW c \in Actions,
             CommitDispatch(r, a, c)
      PROVE  ReopenedKept
  BY <1>2 DEF IInv, TypeOK, ReopenedKept, Reopened, CommitDispatch,
     InsertAction, NextAction, CandidateCurrent, QueueHead, Unheld, Queued,
     NextAttempt
<1>3. ASSUME NEW c \in Actions, MarkStarted(c)
      PROVE  ReopenedKept
  <2>1. /\ actAtt[c] \in Attempts /\ attState[actAtt[c]] # "absent"
        /\ attReq[actAtt[c]] \in Requests
    BY <1>3, PerformedAttempt DEF MarkStarted, Idle
  <2> QED BY <1>3, <2>1 DEF IInv, TypeOK, ReopenedKept, Reopened, MarkStarted
<1>4. ASSUME NEW c \in Actions, MarkUnknown(c)
      PROVE  ReopenedKept
  <2>1. /\ actAtt[c] \in Attempts /\ attState[actAtt[c]] # "absent"
        /\ attReq[actAtt[c]] \in Requests
    BY <1>4, PerformedAttempt DEF MarkUnknown, Idle
  <2> QED BY <1>4, <2>1 DEF IInv, TypeOK, ReopenedKept, Reopened, MarkUnknown,
     SetAttemptUnknown, OwnsSlot
<1>5. ASSUME NEW c \in Actions, RejectStart(c)
      PROVE  ReopenedKept
  <2>1. \A d \in Actions : actAtt[d] = actAtt[c] => actKind[d] # "respond"
    BY <1>5 DEF StageInv, Early, RejectStart
  <2>2. ~Reopened(actAtt[c])
    BY <2>1 DEF Reopened
  <2>3. /\ attTerminal' = attTerminal
        /\ \A b \in Attempts : b # actAtt[c] => attState'[b] = attState[b]
    BY <1>5 DEF RejectStart, IInv, TypeOK
  <2> QED BY <2>2, <2>3 DEF ReopenedKept, Reopened
<1>6. ASSUME NEW c \in Actions, FinishSteer(c)
      PROVE  ReopenedKept
  <2>1. /\ actAtt[c] \in Attempts /\ attState[actAtt[c]] # "absent"
        /\ attReq[actAtt[c]] \in Requests
    BY <1>6, PerformedAttempt DEF FinishSteer, Outcomes, Idle
  <2> QED BY <1>6, <2>1 DEF IInv, TypeOK, ReopenedKept, Reopened, FinishSteer,
     SetAttemptUnknown, FinishStep, Outcomes, OriginalRequest,
     SteerOutstanding
<1>7. ASSUME NEW c \in Actions, FinishResponse(c)
      PROVE  ReopenedKept
  <2>1. /\ actAtt[c] \in Attempts /\ attState[actAtt[c]] # "absent"
        /\ attReq[actAtt[c]] \in Requests
    BY <1>7, PerformedAttempt DEF FinishResponse, Outcomes, Idle
  <2> QED BY <1>7, <2>1 DEF IInv, TypeOK, ReopenedKept, Reopened,
     FinishResponse, SetAttemptUnknown, FinishStep, Outcomes
<1>8. ASSUME NEW c \in Actions, NEW outcome \in TerminalStates,
             NEW effect \in EffectStates, NEW class,
             StreamTerminal(c, outcome, effect, class)
      PROVE  ReopenedKept
  <2>1. /\ actAtt[c] \in Attempts /\ attState[actAtt[c]] # "absent"
        /\ attReq[actAtt[c]] \in Requests
    BY <1>8, PerformedAttempt DEF StreamTerminal, Observing, Idle
  <2> QED BY <1>8, <2>1 DEF IInv, TypeOK, ReopenedKept, Reopened,
     StreamTerminal, EndFrame, ProjectTerminal, SetAttemptUnknown,
     TerminalStates, Observing
<1>9. ASSUME NEW c \in Actions, NEW effect \in EffectStates,
             StreamUnknown(c, effect)
      PROVE  ReopenedKept
  <2>1. /\ actAtt[c] \in Attempts /\ attState[actAtt[c]] # "absent"
        /\ attReq[actAtt[c]] \in Requests
    BY <1>9, PerformedAttempt DEF StreamUnknown, Observing, Idle
  <2> QED BY <1>9, <2>1 DEF IInv, TypeOK, ReopenedKept, Reopened, StreamUnknown,
     EndFrame, SetAttemptUnknown, Observing
<1>10. ASSUME NEW c \in Actions, NEW over, ToolStarted(c, over)
      PROVE  ReopenedKept
  <2>1. /\ actAtt[c] \in Attempts /\ attState[actAtt[c]] # "absent"
        /\ attReq[actAtt[c]] \in Requests
    BY <1>10, PerformedAttempt DEF ToolStarted, InBudget, Observing, Idle
  <2>2. CASE UNCHANGED <<attState, actionVars>>
    BY <1>10, <2>1, <2>2 DEF IInv, TypeOK, ReopenedKept, Reopened, ToolStarted,
       EventFrame, InBudget, Observing
  <2>3. ASSUME NEW s \in Actions,
               InsertAction(s, "attempt.stop", actAtt[c], 0),
               attState[actAtt[c]] \in {"running", "waiting_input"},
               attState' = [attState EXCEPT ![actAtt[c]] = "stopping"]
        PROVE  ReopenedKept
    BY <1>10, <2>1, <2>3 DEF IInv, TypeOK, ReopenedKept, Reopened, ToolStarted,
       EventFrame, InBudget, Observing, InsertAction, NextAction
  <2> QED BY <1>10, <2>2, <2>3 DEF ToolStarted, ChargeOutput
<1>11. ASSUME NEW c \in Actions, NEW over, NEW end,
             ToolCompleted(c, over, end)
      PROVE  ReopenedKept
  <2>1. /\ actAtt[c] \in Attempts /\ attState[actAtt[c]] # "absent"
        /\ attReq[actAtt[c]] \in Requests
    BY <1>11, PerformedAttempt DEF ToolCompleted, InBudget, Observing, Idle
  <2>2. CASE UNCHANGED <<attState, actionVars>>
    BY <1>11, <2>1, <2>2 DEF IInv, TypeOK, ReopenedKept, Reopened, ToolCompleted,
       EventFrame, InBudget, Observing
  <2>3. ASSUME NEW s \in Actions,
               InsertAction(s, "attempt.stop", actAtt[c], 0),
               attState[actAtt[c]] \in {"running", "waiting_input"},
               attState' = [attState EXCEPT ![actAtt[c]] = "stopping"]
        PROVE  ReopenedKept
    BY <1>11, <2>1, <2>3 DEF IInv, TypeOK, ReopenedKept, Reopened, ToolCompleted,
       EventFrame, InBudget, Observing, InsertAction, NextAction
  <2> QED BY <1>11, <2>2, <2>3 DEF ToolCompleted, ChargeOutput
<1>12. ASSUME NEW c \in Actions, OutputLimit(c)
      PROVE  ReopenedKept
  <2>1. /\ actAtt[c] \in Attempts /\ attState[actAtt[c]] # "absent"
        /\ attReq[actAtt[c]] \in Requests
    BY <1>12, PerformedAttempt DEF OutputLimit, InBudget, Observing, Idle
  <2>2. CASE UNCHANGED <<attState, actionVars>>
    BY <1>12, <2>1, <2>2 DEF IInv, TypeOK, ReopenedKept, Reopened, OutputLimit,
       EventFrame, InBudget, Observing
  <2>3. ASSUME NEW s \in Actions,
               InsertAction(s, "attempt.stop", actAtt[c], 0),
               attState[actAtt[c]] \in {"running", "waiting_input"},
               attState' = [attState EXCEPT ![actAtt[c]] = "stopping"]
        PROVE  ReopenedKept
    BY <1>12, <2>1, <2>3 DEF IInv, TypeOK, ReopenedKept, Reopened, OutputLimit,
       EventFrame, InBudget, Observing, InsertAction, NextAction
  <2> QED BY <1>12, <2>2, <2>3 DEF OutputLimit, ChargeOutput
<1>13. ASSUME NEW c \in Actions, EnterWaiting(c)
      PROVE  ReopenedKept
  <2>1. /\ actAtt[c] \in Attempts /\ attState[actAtt[c]] # "absent"
        /\ attReq[actAtt[c]] \in Requests
    BY <1>13, PerformedAttempt DEF EnterWaiting, Observing, Idle
  <2> QED BY <1>13, <2>1 DEF IInv, TypeOK, ReopenedKept, Reopened, EnterWaiting,
     EventFrame, Observing
<1>14. ASSUME NEW c \in Actions, NEW w \in Waits, NEW over,
             WaitRequested(c, w, over)
      PROVE  ReopenedKept
  <2>1. /\ actAtt[c] \in Attempts /\ attState[actAtt[c]] # "absent"
        /\ attReq[actAtt[c]] \in Requests
    BY <1>14, PerformedAttempt DEF WaitRequested, InBudget, Observing, Idle
  <2>2. CASE UNCHANGED <<attState, actionVars>>
    BY <1>14, <2>1, <2>2 DEF IInv, TypeOK, ReopenedKept, Reopened, WaitRequested,
       EventFrame, InBudget, Observing, NextWait
  <2>3. ASSUME NEW s \in Actions,
               InsertAction(s, "attempt.stop", actAtt[c], 0),
               attState[actAtt[c]] \in {"running", "waiting_input"},
               attState' = [attState EXCEPT ![actAtt[c]] = "stopping"]
        PROVE  ReopenedKept
    BY <1>14, <2>1, <2>3 DEF IInv, TypeOK, ReopenedKept, Reopened, WaitRequested,
       EventFrame, InBudget, Observing, InsertAction, NextAction, NextWait
  <2>4. CASE /\ attState' = [attState EXCEPT ![actAtt[c]] = "waiting_input"]
             /\ UNCHANGED <<attOver, actionVars>>
    BY <1>14, <2>1, <2>4 DEF IInv, TypeOK, ReopenedKept, Reopened, WaitRequested,
       EventFrame, InBudget, Observing, NextWait
  <2> QED BY <1>14, <2>2, <2>3, <2>4 DEF WaitRequested, ChargeOutput
<1>15. ASSUME NEW outcome \in TerminalStates, NEW effect \in EffectStates,
             NEW class, ReconcileApply(outcome, effect, class)
      PROVE  ReopenedKept
  <2>1. /\ reconciling \in Attempts /\ attState[reconciling] # "absent"
        /\ attReq[reconciling] \in Requests
    BY <1>15 DEF IInv, TypeOK, RowInv, ReconcileApply
  <2> QED BY <1>15, <2>1 DEF IInv, TypeOK, ReopenedKept, Reopened,
     ReconcileApply, EndFrame, ProjectTerminal, SetAttemptUnknown,
     TerminalStates, CancelStream
<1>16. CASE Restart
  <2>1. active # 0 => /\ active \in Attempts /\ attState[active] # "absent"
                      /\ attReq[active] \in Requests
    BY DEF IInv, TypeOK, RowInv, SlotInv, ActiveStates
  <2> QED BY <1>16, <2>1 DEF IInv, TypeOK, ReopenedKept, Reopened, Restart,
     RecoverActive, SetAttemptUnknown
<1>17. CASE UNCHANGED <<attState, attTerminal>>
  BY <1>17 DEF ReopenedKept, Reopened
<1>18. CASE CommandStep
  BY <1>18, <1>1, <1>17 DEF CommandStep, DialogCreate, MessageEnqueue,
     RequestCancel, QueueResume, AttemptRetry, MessageSteer, Respond
<1>19. CASE LoopStep
  BY <1>19, <1>2, <1>17 DEF LoopStep, PeekDispatch, BlockPolicy, DropCandidate
<1>20. ASSUME NEW c \in Actions, ClaimAction(c) PROVE ReopenedKept
  BY <1>20, <1>17 DEF ClaimAction
<1>21. ASSUME NEW c \in Actions, WorkerStep(c) PROVE ReopenedKept
  BY <1>21, <1>3, <1>4, <1>5, <1>6, <1>7, <1>17 DEF WorkerStep,
     RequeueDispatch, EnterDispatch, IssueTurn, StartReturns, CancelReturns,
     SteerReturns, RespondReturns, TransactionLost, FinishAction,
     DurableUnchanged
<1>22. ASSUME NEW c \in Actions, StreamEnds(c) PROVE ReopenedKept
  BY <1>22, <1>8, <1>9, <1>17 DEF StreamEnds, RegisterStream, StreamClosed,
     DurableUnchanged
<1>23. ASSUME NEW c \in Actions, StreamEvent(c) PROVE ReopenedKept
  BY <1>23, <1>10, <1>11, <1>12, <1>13, <1>14 DEF StreamEvent
<1>24. CASE ReconcileStep
  BY <1>24, StateValues, <1>15, <1>17 DEF ReconcileStep, ReconcileBegin,
     ReconcileNone, DurableUnchanged
<1>25. CASE ProviderStep
  BY <1>25, <1>17 DEF ProviderStep, ProviderStarts, ProviderEnds,
     DurableUnchanged
<1>26. CASE BarrierStep
  BY <1>26, <1>17 DEF BarrierStep, InstallHold, ReleaseHold,
     DeleteLogicalDialog, BeginSettings, SettingsSwap, SettingsRelease,
     SetSettingsReady, ProviderAuthStart, ProviderAuthCheck,
     ProviderAuthSettles, RowsUnchanged, SettingsFrame, AuthFrame
<1>27. CASE UNCHANGED vars
  BY <1>27, <1>17 DEF vars
<1> QED BY <1>18, <1>19, <1>20, <1>21, <1>22, <1>23, <1>24, <1>25, <1>26,
   <1>16, <1>27 DEF Next

\* The input of the attempt is executed again, or waits to be.
Superseded(b) ==
  /\ attState[b] # "absent"
  /\ \/ \E a \in Attempts : /\ a > b /\ attState[a] # "absent"
                            /\ MessageOfAttempt(a) = MessageOfAttempt(b)
     \/ \E r \in Requests : /\ reqStatus[r] = "queued"
                            /\ reqMsg[r] = MessageOfAttempt(b)

\* The attempt ended without success and with a settled effect; only a response
\* can have reopened it since.
Harmless(b) ==
  \/ attState[b] \in {"failed", "interrupted"} /\ attEffect[b] # "unknown"
  \/ Reopened(b)

SupersededInv == \A b \in Attempts : Superseded(b) => Harmless(b)

\* No attempt exists at first.
LEMMA SupersededInit == InitStore => SupersededInv
BY DEF InitStore, SupersededInv, Superseded

\* An attempt that is harmless stays so.
LEMMA HarmlessKept ==
  ASSUME IInv, ActInv, StageInv, RowsKept, SteerSlotInv, RejectedInv,
         [Next]_vars,
         NEW b \in Attempts, Harmless(b)
  PROVE  Harmless(b)'
<1>1. EndedKept /\ ReopenedKept
  BY EndedIsKept, ReopenedIsKept
<1>2. \A c \in Actions : actAtt[c] = b /\ actKind[c] = "respond" =>
        actAtt'[c] = b /\ actKind'[c] = "respond"
  <2> SUFFICES ASSUME NEW c \in Actions, actAtt[c] = b, actKind[c] = "respond"
               PROVE  actAtt'[c] = b /\ actKind'[c] = "respond"
    OBVIOUS
  <2>1. actStatus[c] # "absent"
    BY DEF ActInv
  <2> QED BY <2>1 DEF RowsKept
<1>3. CASE Reopened(b)
  BY <1>1, <1>2, <1>3 DEF Harmless, Reopened, ReopenedKept
<1>4. CASE attState[b] \in {"failed", "interrupted"} /\ attEffect[b] # "unknown"
  <2>1. CASE attState'[b] = attState[b] /\ attEffect'[b] = attEffect[b]
    BY <1>4, <2>1 DEF Harmless
  <2>2. ASSUME attState'[b] = "unknown",
               NEW c \in Actions, actKind[c] = "respond", actAtt[c] = b
        PROVE  Harmless(b)'
    <3>1. attTerminal[b]
      BY <1>4, <2>2 DEF RejectedInv, TerminalStates
    <3> QED BY <1>1, <1>2, <2>2, <3>1 DEF Harmless, Reopened, ReopenedKept
  <2> QED BY <1>1, <1>4, <2>1, <2>2 DEF EndedKept, TerminalStates
<1> QED BY <1>3, <1>4 DEF Harmless

\* attempt.retry and DispatchNext supersede only an attempt that is harmless.
LEMMA SupersededNext ==
  ASSUME IInv, RefInv, RefInv', ActInv, StageInv, RowsKept, SteerSlotInv,
         NewestInv, SingleInv, RejectedInv, SupersededInv, [Next]_vars
  PROVE  SupersededInv'
<1> SUFFICES ASSUME NEW b \in Attempts, Superseded(b)'
             PROVE  Harmless(b)'
  BY DEF SupersededInv
<1>1. ASSUME Superseded(b) PROVE Harmless(b)'
  BY <1>1, HarmlessKept DEF SupersededInv
<1>2. LeavesQueue
  BY QueueLeft
<1>3. CASE NoNewRequest /\ NoNewAttempt
  <2>1. attState[b] # "absent" /\ MessageOfAttempt(b)' = MessageOfAttempt(b)
    BY <1>3 DEF Superseded, NoNewRequest, NoNewAttempt, MessageOfAttempt
  <2>2. ASSUME NEW a \in Attempts, a > b, attState'[a] # "absent",
               MessageOfAttempt(a)' = MessageOfAttempt(b)'
        PROVE  Superseded(b)
    <3>1. attState[a] # "absent" /\ MessageOfAttempt(a)' = MessageOfAttempt(a)
      BY <1>3, <2>2 DEF NoNewRequest, NoNewAttempt, MessageOfAttempt
    <3> QED BY <2>1, <2>2, <3>1 DEF Superseded
  <2>3. ASSUME NEW r \in Requests, reqStatus'[r] = "queued",
               reqMsg'[r] = MessageOfAttempt(b)'
        PROVE  Superseded(b)
    <3>1. reqStatus[r] = "queued" /\ reqMsg'[r] = reqMsg[r]
      BY <1>2, <1>3, <2>3 DEF LeavesQueue, NoNewRequest, RefInv
    <3> QED BY <2>1, <2>3, <3>1 DEF Superseded
  <2> QED BY <1>1, <2>2, <2>3 DEF Superseded
<1>4. ASSUME NEW d \in Dialogs, NEW m \in Messages, NEW q \in Requests,
             MessageEnqueue(d, m, q)
      PROVE  Harmless(b)'
  <2>1. /\ reqMsg' = [reqMsg EXCEPT ![q] = m]
        /\ reqStatus' = [reqStatus EXCEPT ![q] = "queued"]
        /\ attState' = attState
        /\ msgDisp[m] = "absent"
    BY <1>4 DEF MessageEnqueue, NextMessage
  <2>2. \A a \in Attempts : attState[a] # "absent" =>
          MessageOfAttempt(a)' = MessageOfAttempt(a) /\ MessageOfAttempt(a) # m
    BY <2>1, AttemptMessage
  <2>3. attState[b] # "absent"
    BY <2>1 DEF Superseded
  <2>4. ASSUME NEW r \in Requests, reqStatus'[r] = "queued",
               reqMsg'[r] = MessageOfAttempt(b)'
        PROVE  reqStatus[r] = "queued" /\ reqMsg[r] = MessageOfAttempt(b)
    BY <2>1, <2>2, <2>3, <2>4 DEF IInv, TypeOK
  <2> QED BY <1>1, <2>1, <2>2, <2>3, <2>4 DEF Superseded
<1>5. ASSUME NEW a \in Attempts, NEW ack \in BOOLEAN, NEW q \in Requests,
             AttemptRetry(a, ack, q)
      PROVE  Harmless(b)'
  <2>1. /\ reqMsg' = [reqMsg EXCEPT ![q] = MessageOfAttempt(a)]
        /\ reqStatus' = [reqStatus EXCEPT ![q] = "queued"]
        /\ attState' = attState /\ attState[b] # "absent"
        /\ attState[a] \in {"failed", "interrupted"} /\ attEffect[a] # "unknown"
        /\ LatestAttempt(a)
    BY <1>5 DEF AttemptRetry, Retryable, Superseded
  <2>2. \A c \in Attempts : attState[c] # "absent" =>
          MessageOfAttempt(c)' = MessageOfAttempt(c)
    BY AttemptMessage
  <2>3. CASE b = a
    BY <2>1, <2>3, HarmlessKept DEF Harmless
  <2>4. CASE b # a /\ MessageOfAttempt(b) = MessageOfAttempt(a)
    <3>1. b < a
      BY <2>1, <2>4 DEF LatestAttempt, Attempts
    <3> QED BY <1>1, <2>1, <2>4, <3>1 DEF Superseded, Attempts
  <2>5. CASE MessageOfAttempt(b) # MessageOfAttempt(a)
    <3>1. ASSUME NEW r \in Requests, reqStatus'[r] = "queued",
                 reqMsg'[r] = MessageOfAttempt(b)'
          PROVE  reqStatus[r] = "queued" /\ reqMsg[r] = MessageOfAttempt(b)
      BY <2>1, <2>2, <2>5, <3>1 DEF IInv, TypeOK
    <3> QED BY <1>1, <2>1, <2>2, <3>1 DEF Superseded
  <2> QED BY <2>3, <2>4, <2>5
<1>6. ASSUME NEW r \in Requests, NEW a \in Attempts, NEW c \in Actions,
             CommitDispatch(r, a, c)
      PROVE  Harmless(b)'
  <2>1. /\ attState' = [attState EXCEPT ![a] = "dispatching"]
        /\ attReq' = [attReq EXCEPT ![a] = r]
        /\ reqStatus' = [reqStatus EXCEPT ![r] = "dispatching"]
        /\ reqMsg' = reqMsg
        /\ reqStatus[r] = "queued"
        /\ attState[a] = "absent"
    BY <1>6 DEF CommitDispatch, CandidateCurrent, QueueHead, Unheld, Queued,
       NextAttempt
  <2>2. MessageOfAttempt(a)' = reqMsg[r]
    BY <2>1 DEF IInv, TypeOK, MessageOfAttempt
  <2>3. \A e \in Attempts : e # a /\ attState'[e] # "absent" =>
          attState[e] # "absent" /\ MessageOfAttempt(e)' = MessageOfAttempt(e)
    BY <2>1, AttemptMessage DEF IInv, TypeOK
  <2>4. \A q \in Requests : reqStatus'[q] = "queued" =>
          q # r /\ reqStatus[q] = "queued"
    BY <2>1 DEF IInv, TypeOK
  <2>5. CASE b = a
    <3>1. \A e \in Attempts : attState'[e] # "absent" => e <= a
      BY <2>1, NewestNext DEF NewestInv, IInv, TypeOK
    <3>2. \A q \in Requests : reqStatus'[q] = "queued" => reqMsg'[q] # reqMsg[r]
      BY <2>1, <2>4 DEF SingleInv
    <3> QED BY <2>2, <2>5, <3>1, <3>2 DEF Superseded, Attempts
  <2>6. CASE b # a
    <3>1. attState[b] # "absent" /\ MessageOfAttempt(b)' = MessageOfAttempt(b)
      BY <2>3, <2>6 DEF Superseded
    <3>2. ASSUME NEW e \in Attempts, e > b, attState'[e] # "absent",
                 MessageOfAttempt(e)' = MessageOfAttempt(b)'
          PROVE  Superseded(b)
      BY <2>1, <2>2, <2>3, <3>1, <3>2 DEF Superseded
    <3>3. ASSUME NEW q \in Requests, reqStatus'[q] = "queued",
                 reqMsg'[q] = MessageOfAttempt(b)'
          PROVE  Superseded(b)
      BY <2>1, <2>4, <3>1, <3>3 DEF Superseded
    <3> QED BY <1>1, <3>2, <3>3 DEF Superseded
  <2> QED BY <2>5, <2>6
<1>7. NoNewRequest \/ NoNewAttempt
  BY RequestIsAdded, AttemptIsAdded DEF RequestAdded, AttemptAdded,
     NoNewRequest, CommitDispatch, MessageEnqueue, AttemptRetry, NoNewAttempt
<1> QED BY <1>3, <1>4, <1>5, <1>6, <1>7, RequestIsAdded, AttemptIsAdded
    DEF RequestAdded, AttemptAdded

\* The invariant of an input that is executed again.
RerunInv == NewestInv /\ SingleInv /\ RejectedInv /\ SupersededInv

\* attempt.retry and DispatchNext keep RerunInv, whatever late responses,
\* reconciliations and restarts happen to the earlier attempts.
THEOREM RerunInvariance == Spec => []RerunInv
<1>1. InitStore => RerunInv
  BY NewestInit, SingleInit, RejectedInit, SupersededInit DEF RerunInv
<1>2. IInv /\ RefInv /\ ActInv /\ StageInv /\ RowsInv /\ RerunInv /\ [Next]_vars
        => RerunInv'
  <2> SUFFICES ASSUME IInv, RefInv, ActInv, StageInv, RowsInv, RerunInv,
                      [Next]_vars
               PROVE  RerunInv'
    OBVIOUS
  <2>1. RowsKept /\ RefInv'
    BY RowsAreKept, RefNext
  <2> QED BY <2>1, NewestNext, SingleNext, RejectedNext, SupersededNext
      DEF RerunInv, RowsInv
<1> QED BY <1>1, <1>2, Invariance, RefInvariance, ActInvariance,
    StageInvariance, RowsInvariance, PTL DEF Spec

\* When the provider is asked for a turn of an input, every earlier attempt of
\* it has ended without success and with a settled effect: applyAttemptRetry
\* checked only the latest one, in an earlier transaction.
THEOREM RerunSettled == Spec => RerunOnlyAfterSettled
<1>1. ASSUME IInv, StageInv, RerunInv, [Next]_vars,
             NEW a \in Attempts, NEW b \in Attempts,
             Issues(a), b # a, attState[b] # "absent",
             MessageOfAttempt(b) = MessageOfAttempt(a)
      PROVE  attState[b] \in {"failed", "interrupted"} /\ attEffect[b] # "unknown"
  <2>1. PICK c \in Actions : actAtt[c] = a /\ pc[c] = "calling" /\ active = a
    BY <1>1, IssuedBy
  <2>2. a > b
    BY <1>1, <2>1 DEF RerunInv, NewestInv, Attempts
  <2>3. attState[a] # "absent" /\ attState[b] # "unknown"
    BY <1>1, <2>1 DEF IInv, SlotInv, ActiveStates
  <2>4. Harmless(b)
    BY <1>1, <2>2, <2>3 DEF RerunInv, SupersededInv, Superseded
  <2> QED BY <2>3, <2>4 DEF Harmless, Reopened
<1>2. IInv /\ StageInv /\ RerunInv /\ [Next]_vars
        => [\A a, b \in Attempts :
              /\ Issues(a) /\ b # a /\ attState[b] # "absent"
              /\ MessageOfAttempt(b) = MessageOfAttempt(a)
              => attState[b] \in {"failed", "interrupted"}
                 /\ attEffect[b] # "unknown"]_vars
  BY <1>1
<1> QED BY <1>2, Invariance, StageInvariance, RerunInvariance, PTL
    DEF Spec, RerunOnlyAfterSettled

-----------------------------------------------------------------------------
\* The driver of an attempt.

\* The attempt goes on, as far as the node knows.
Live(a) == attState[a] \in ActiveStates \ {"unknown"}

\* An attempt comes to life when it is added, and a terminal of its stream is
\* recorded only together with its end.
LifeKept ==
  /\ \A a \in Attempts : Live(a)' => Live(a) \/ attState[a] = "absent"
  /\ \A a \in Attempts : attTerminal'[a] =>
       attTerminal[a] \/ attState'[a] \in TerminalStates

\* No step revives an attempt that ended or became unknown.
LEMMA LifeIsKept ==
  ASSUME IInv, [Next]_vars
  PROVE  LifeKept
<1>1. ASSUME NEW a \in Attempts, NEW c \in Actions, NEW low,
             AttemptStop(a, c, low)
      PROVE  LifeKept
  BY <1>1 DEF IInv, TypeOK, LifeKept, Live, ActiveStates, AttemptStop,
     ControlState, InsertAction, NextAction
<1>2. ASSUME NEW r \in Requests, NEW a \in Attempts, NEW c \in Actions,
             CommitDispatch(r, a, c)
      PROVE  LifeKept
  BY <1>2 DEF IInv, TypeOK, LifeKept, Live, ActiveStates, CommitDispatch,
     InsertAction, NextAction, CandidateCurrent, QueueHead, Unheld, Queued,
     NextAttempt
<1>3. ASSUME NEW c \in Actions, MarkStarted(c)
      PROVE  LifeKept
  <2>1. /\ actAtt[c] \in Attempts /\ attState[actAtt[c]] # "absent"
        /\ attReq[actAtt[c]] \in Requests
    BY <1>3, PerformedAttempt DEF MarkStarted, Idle
  <2> QED BY <1>3, <2>1 DEF IInv, TypeOK, LifeKept, Live, ActiveStates,
     MarkStarted
<1>4. ASSUME NEW c \in Actions, MarkUnknown(c)
      PROVE  LifeKept
  <2>1. /\ actAtt[c] \in Attempts /\ attState[actAtt[c]] # "absent"
        /\ attReq[actAtt[c]] \in Requests
    BY <1>4, PerformedAttempt DEF MarkUnknown, Idle
  <2> QED BY <1>4, <2>1 DEF IInv, TypeOK, LifeKept, Live, ActiveStates,
     MarkUnknown, SetAttemptUnknown, OwnsSlot
<1>5. ASSUME NEW c \in Actions, RejectStart(c)
      PROVE  LifeKept
  <2>1. /\ actAtt[c] \in Attempts /\ attState[actAtt[c]] # "absent"
        /\ attReq[actAtt[c]] \in Requests
    BY <1>5, PerformedAttempt DEF RejectStart, Idle
  <2> QED BY <1>5, <2>1 DEF IInv, TypeOK, LifeKept, Live, ActiveStates,
     RejectStart, OwnsSlot
<1>6. ASSUME NEW c \in Actions, FinishSteer(c)
      PROVE  LifeKept
  <2>1. /\ actAtt[c] \in Attempts /\ attState[actAtt[c]] # "absent"
        /\ attReq[actAtt[c]] \in Requests
    BY <1>6, PerformedAttempt DEF FinishSteer, Outcomes, Idle
  <2> QED BY <1>6, <2>1 DEF IInv, TypeOK, LifeKept, Live, ActiveStates,
     FinishSteer, SetAttemptUnknown, FinishStep, Outcomes, OriginalRequest,
     SteerOutstanding
<1>7. ASSUME NEW c \in Actions, FinishResponse(c)
      PROVE  LifeKept
  <2>1. /\ actAtt[c] \in Attempts /\ attState[actAtt[c]] # "absent"
        /\ attReq[actAtt[c]] \in Requests
    BY <1>7, PerformedAttempt DEF FinishResponse, Outcomes, Idle
  <2> QED BY <1>7, <2>1 DEF IInv, TypeOK, LifeKept, Live, ActiveStates,
     FinishResponse, SetAttemptUnknown, FinishStep, Outcomes
<1>8. ASSUME NEW c \in Actions, NEW outcome \in TerminalStates,
             NEW effect \in EffectStates, NEW class,
             StreamTerminal(c, outcome, effect, class)
      PROVE  LifeKept
  <2>1. /\ actAtt[c] \in Attempts /\ attState[actAtt[c]] # "absent"
        /\ attReq[actAtt[c]] \in Requests
    BY <1>8, PerformedAttempt DEF StreamTerminal, Observing, Idle
  <2> QED BY <1>8, <2>1 DEF IInv, TypeOK, LifeKept, Live, ActiveStates,
     StreamTerminal, EndFrame, ProjectTerminal, SetAttemptUnknown,
     TerminalStates, Observing
<1>9. ASSUME NEW c \in Actions, NEW effect \in EffectStates,
             StreamUnknown(c, effect)
      PROVE  LifeKept
  <2>1. /\ actAtt[c] \in Attempts /\ attState[actAtt[c]] # "absent"
        /\ attReq[actAtt[c]] \in Requests
    BY <1>9, PerformedAttempt DEF StreamUnknown, Observing, Idle
  <2> QED BY <1>9, <2>1 DEF IInv, TypeOK, LifeKept, Live, ActiveStates,
     StreamUnknown, EndFrame, SetAttemptUnknown, Observing
<1>10. ASSUME NEW c \in Actions, NEW over, ToolStarted(c, over)
      PROVE  LifeKept
  <2>1. /\ actAtt[c] \in Attempts /\ attState[actAtt[c]] # "absent"
        /\ attReq[actAtt[c]] \in Requests
    BY <1>10, PerformedAttempt DEF ToolStarted, InBudget, Observing, Idle
  <2>2. CASE UNCHANGED <<attState, actionVars>>
    BY <1>10, <2>1, <2>2 DEF IInv, TypeOK, LifeKept, Live, ActiveStates,
       ToolStarted, EventFrame, InBudget, Observing
  <2>3. ASSUME NEW s \in Actions,
               InsertAction(s, "attempt.stop", actAtt[c], 0),
               attState[actAtt[c]] \in {"running", "waiting_input"},
               attState' = [attState EXCEPT ![actAtt[c]] = "stopping"]
        PROVE  LifeKept
    BY <1>10, <2>1, <2>3 DEF IInv, TypeOK, LifeKept, Live, ActiveStates,
       ToolStarted, EventFrame, InBudget, Observing, InsertAction, NextAction
  <2> QED BY <1>10, <2>2, <2>3 DEF ToolStarted, ChargeOutput
<1>11. ASSUME NEW c \in Actions, NEW over, NEW end,
             ToolCompleted(c, over, end)
      PROVE  LifeKept
  <2>1. /\ actAtt[c] \in Attempts /\ attState[actAtt[c]] # "absent"
        /\ attReq[actAtt[c]] \in Requests
    BY <1>11, PerformedAttempt DEF ToolCompleted, InBudget, Observing, Idle
  <2>2. CASE UNCHANGED <<attState, actionVars>>
    BY <1>11, <2>1, <2>2 DEF IInv, TypeOK, LifeKept, Live, ActiveStates,
       ToolCompleted, EventFrame, InBudget, Observing
  <2>3. ASSUME NEW s \in Actions,
               InsertAction(s, "attempt.stop", actAtt[c], 0),
               attState[actAtt[c]] \in {"running", "waiting_input"},
               attState' = [attState EXCEPT ![actAtt[c]] = "stopping"]
        PROVE  LifeKept
    BY <1>11, <2>1, <2>3 DEF IInv, TypeOK, LifeKept, Live, ActiveStates,
       ToolCompleted, EventFrame, InBudget, Observing, InsertAction,
       NextAction
  <2> QED BY <1>11, <2>2, <2>3 DEF ToolCompleted, ChargeOutput
<1>12. ASSUME NEW c \in Actions, OutputLimit(c)
      PROVE  LifeKept
  <2>1. /\ actAtt[c] \in Attempts /\ attState[actAtt[c]] # "absent"
        /\ attReq[actAtt[c]] \in Requests
    BY <1>12, PerformedAttempt DEF OutputLimit, InBudget, Observing, Idle
  <2>2. CASE UNCHANGED <<attState, actionVars>>
    BY <1>12, <2>1, <2>2 DEF IInv, TypeOK, LifeKept, Live, ActiveStates,
       OutputLimit, EventFrame, InBudget, Observing
  <2>3. ASSUME NEW s \in Actions,
               InsertAction(s, "attempt.stop", actAtt[c], 0),
               attState[actAtt[c]] \in {"running", "waiting_input"},
               attState' = [attState EXCEPT ![actAtt[c]] = "stopping"]
        PROVE  LifeKept
    BY <1>12, <2>1, <2>3 DEF IInv, TypeOK, LifeKept, Live, ActiveStates,
       OutputLimit, EventFrame, InBudget, Observing, InsertAction, NextAction
  <2> QED BY <1>12, <2>2, <2>3 DEF OutputLimit, ChargeOutput
<1>13. ASSUME NEW c \in Actions, EnterWaiting(c)
      PROVE  LifeKept
  <2>1. /\ actAtt[c] \in Attempts /\ attState[actAtt[c]] # "absent"
        /\ attReq[actAtt[c]] \in Requests
    BY <1>13, PerformedAttempt DEF EnterWaiting, Observing, Idle
  <2> QED BY <1>13, <2>1 DEF IInv, TypeOK, LifeKept, Live, ActiveStates,
     EnterWaiting, EventFrame, Observing
<1>14. ASSUME NEW c \in Actions, NEW w \in Waits, NEW over,
             WaitRequested(c, w, over)
      PROVE  LifeKept
  <2>1. /\ actAtt[c] \in Attempts /\ attState[actAtt[c]] # "absent"
        /\ attReq[actAtt[c]] \in Requests
    BY <1>14, PerformedAttempt DEF WaitRequested, InBudget, Observing, Idle
  <2>2. CASE UNCHANGED <<attState, actionVars>>
    BY <1>14, <2>1, <2>2 DEF IInv, TypeOK, LifeKept, Live, ActiveStates,
       WaitRequested, EventFrame, InBudget, Observing, NextWait
  <2>3. ASSUME NEW s \in Actions,
               InsertAction(s, "attempt.stop", actAtt[c], 0),
               attState[actAtt[c]] \in {"running", "waiting_input"},
               attState' = [attState EXCEPT ![actAtt[c]] = "stopping"]
        PROVE  LifeKept
    BY <1>14, <2>1, <2>3 DEF IInv, TypeOK, LifeKept, Live, ActiveStates,
       WaitRequested, EventFrame, InBudget, Observing, InsertAction,
       NextAction, NextWait
  <2>4. CASE /\ attState' = [attState EXCEPT ![actAtt[c]] = "waiting_input"]
             /\ UNCHANGED <<attOver, actionVars>>
    BY <1>14, <2>1, <2>4 DEF IInv, TypeOK, LifeKept, Live, ActiveStates,
       WaitRequested, EventFrame, InBudget, Observing, NextWait
  <2> QED BY <1>14, <2>2, <2>3, <2>4 DEF WaitRequested, ChargeOutput
<1>15. ASSUME NEW outcome \in TerminalStates, NEW effect \in EffectStates,
             NEW class, ReconcileApply(outcome, effect, class)
      PROVE  LifeKept
  <2>1. /\ reconciling \in Attempts /\ attState[reconciling] # "absent"
        /\ attReq[reconciling] \in Requests
    BY <1>15 DEF IInv, TypeOK, RowInv, ReconcileApply
  <2> QED BY <1>15, <2>1 DEF IInv, TypeOK, LifeKept, Live, ActiveStates,
     ReconcileApply, EndFrame, ProjectTerminal, SetAttemptUnknown,
     TerminalStates, CancelStream
<1>16. CASE Restart
  <2>1. active # 0 => /\ active \in Attempts /\ attState[active] # "absent"
                      /\ attReq[active] \in Requests
    BY DEF IInv, TypeOK, RowInv, SlotInv, ActiveStates
  <2> QED BY <1>16, <2>1 DEF IInv, TypeOK, LifeKept, Live, ActiveStates, Restart,
     RecoverActive, SetAttemptUnknown
<1>17. CASE UNCHANGED <<attState, attTerminal>>
  BY <1>17 DEF LifeKept, Live
<1>18. CASE CommandStep
  BY <1>18, <1>1, <1>17 DEF CommandStep, DialogCreate, MessageEnqueue,
     RequestCancel, QueueResume, AttemptRetry, MessageSteer, Respond
<1>19. CASE LoopStep
  BY <1>19, <1>2, <1>17 DEF LoopStep, PeekDispatch, BlockPolicy, DropCandidate
<1>20. ASSUME NEW c \in Actions, ClaimAction(c) PROVE LifeKept
  BY <1>20, <1>17 DEF ClaimAction
<1>21. ASSUME NEW c \in Actions, WorkerStep(c) PROVE LifeKept
  BY <1>21, <1>3, <1>4, <1>5, <1>6, <1>7, <1>17 DEF WorkerStep,
     RequeueDispatch, EnterDispatch, IssueTurn, StartReturns, CancelReturns,
     SteerReturns, RespondReturns, TransactionLost, FinishAction,
     DurableUnchanged
<1>22. ASSUME NEW c \in Actions, StreamEnds(c) PROVE LifeKept
  BY <1>22, <1>8, <1>9, <1>17 DEF StreamEnds, RegisterStream, StreamClosed,
     DurableUnchanged
<1>23. ASSUME NEW c \in Actions, StreamEvent(c) PROVE LifeKept
  BY <1>23, <1>10, <1>11, <1>12, <1>13, <1>14 DEF StreamEvent
<1>24. CASE ReconcileStep
  BY <1>24, StateValues, <1>15, <1>17 DEF ReconcileStep, ReconcileBegin,
     ReconcileNone, DurableUnchanged
<1>25. CASE ProviderStep
  BY <1>25, <1>17 DEF ProviderStep, ProviderStarts, ProviderEnds,
     DurableUnchanged
<1>26. CASE BarrierStep
  BY <1>26, <1>17 DEF BarrierStep, InstallHold, ReleaseHold,
     DeleteLogicalDialog, BeginSettings, SettingsSwap, SettingsRelease,
     SetSettingsReady, ProviderAuthStart, ProviderAuthCheck,
     ProviderAuthSettles, RowsUnchanged, SettingsFrame, AuthFrame
<1>27. CASE UNCHANGED vars
  BY <1>27, <1>17 DEF vars
<1> QED BY <1>18, <1>19, <1>20, <1>21, <1>22, <1>23, <1>24, <1>25, <1>26,
   <1>16, <1>27 DEF Next

\* A dispatch that was refused or whose outcome is unknown, and a terminal that
\* is recorded, have left no attempt alive.
OverInv ==
  /\ \A c \in Actions : /\ actKind[c] = "dispatch.start"
                        /\ pc[c] \in {"finish_rej", "finish_unk"}
                        => ~Live(actAtt[c])
  /\ \A a \in Attempts : attTerminal[a] =>
       ~Live(a) /\ attState[a] # "absent"

\* No attempt exists at first.
LEMMA OverInit == InitStore => OverInv
BY DEF InitStore, OverInv, Idle

\* When every transaction commits, a dispatch reaches finishAction with one of
\* these outcomes only after it has recorded it.
FinishRecorded ==
  \A c \in Actions :
    actKind'[c] = "dispatch.start" /\ pc'[c] \in {"finish_rej", "finish_unk"} =>
    \/ pc'[c] = pc[c]
    \/ actKind'[c] = actKind[c] /\ actAtt'[c] = actAtt[c] /\ ~Live(actAtt[c])'

\* MarkUnknown and RejectStart leave no live attempt in the slot.
LEMMA FinishIsRecorded ==
  ASSUME StoreMayFail = FALSE, IInv, ActInv, [Next]_vars
  PROVE  FinishRecorded
<1>1. ASSUME NEW a \in Attempts, NEW c \in Actions, NEW low,
             AttemptStop(a, c, low)
      PROVE  FinishRecorded
  BY <1>1 DEF IInv, TypeOK, RowInv, ActInv, FinishRecorded, Idle, AttemptStop,
     InsertAction, NextAction
<1>2. ASSUME NEW m \in Messages, NEW a \in Attempts, NEW c \in Actions,
             NEW low, MessageSteer(m, a, c, low)
      PROVE  FinishRecorded
  BY <1>2 DEF IInv, TypeOK, RowInv, ActInv, FinishRecorded, Idle, MessageSteer,
     InsertAction, NextAction
<1>3. ASSUME NEW w \in Waits, NEW c \in Actions, NEW low, Respond(w, c, low)
      PROVE  FinishRecorded
  BY <1>3 DEF IInv, TypeOK, RowInv, ActInv, FinishRecorded, Idle, Respond,
     InsertAction, NextAction
<1>4. ASSUME NEW r \in Requests, NEW a \in Attempts, NEW c \in Actions,
             CommitDispatch(r, a, c)
      PROVE  FinishRecorded
  BY <1>4 DEF IInv, TypeOK, RowInv, ActInv, FinishRecorded, Idle,
     CommitDispatch, InsertAction, NextAction
<1>5. ASSUME NEW c \in Actions, ClaimAction(c)
      PROVE  FinishRecorded
  BY <1>5 DEF IInv, TypeOK, RowInv, ActInv, FinishRecorded, Idle, ClaimAction
<1>6. ASSUME NEW c \in Actions, RequeueDispatch(c)
      PROVE  FinishRecorded
  BY <1>6 DEF IInv, TypeOK, RowInv, ActInv, FinishRecorded, Idle,
     RequeueDispatch
<1>7. ASSUME NEW c \in Actions, EnterDispatch(c)
      PROVE  FinishRecorded
  BY <1>7 DEF IInv, TypeOK, RowInv, ActInv, FinishRecorded, Idle, EnterDispatch,
     DurableUnchanged
<1>8. ASSUME NEW c \in Actions, StartReturns(c)
      PROVE  FinishRecorded
  BY <1>8 DEF IInv, TypeOK, RowInv, ActInv, FinishRecorded, Idle, StartReturns,
     DurableUnchanged
<1>9. ASSUME NEW c \in Actions, MarkStarted(c)
      PROVE  FinishRecorded
  BY <1>9 DEF IInv, TypeOK, RowInv, ActInv, FinishRecorded, Idle, MarkStarted
<1>10. ASSUME NEW c \in Actions, MarkUnknown(c)
      PROVE  FinishRecorded
  <2>1. /\ actAtt[c] \in Attempts /\ attState[actAtt[c]] # "absent"
        /\ attReq[actAtt[c]] \in Requests
    BY <1>10, PerformedAttempt DEF MarkUnknown, Idle
  <2> QED BY <1>10, <2>1 DEF IInv, TypeOK, RowInv, ActInv, FinishRecorded, Idle,
     Live, SlotInv, ActiveStates, TerminalStates, MarkUnknown,
     SetAttemptUnknown, OwnsSlot
<1>11. ASSUME NEW c \in Actions, RejectStart(c)
      PROVE  FinishRecorded
  <2>1. /\ actAtt[c] \in Attempts /\ attState[actAtt[c]] # "absent"
        /\ attReq[actAtt[c]] \in Requests
    BY <1>11, PerformedAttempt DEF RejectStart, Idle
  <2> QED BY <1>11, <2>1 DEF IInv, TypeOK, RowInv, ActInv, FinishRecorded, Idle,
     Live, SlotInv, ActiveStates, TerminalStates, RejectStart, OwnsSlot
<1>12. ASSUME NEW c \in Actions, CancelReturns(c)
      PROVE  FinishRecorded
  BY <1>12 DEF IInv, TypeOK, RowInv, ActInv, FinishRecorded, Idle, CancelReturns,
     DurableUnchanged
<1>13. ASSUME NEW c \in Actions, SteerReturns(c)
      PROVE  FinishRecorded
  BY <1>13 DEF IInv, TypeOK, RowInv, ActInv, FinishRecorded, Idle, SteerReturns,
     DurableUnchanged
<1>14. ASSUME NEW c \in Actions, RespondReturns(c)
      PROVE  FinishRecorded
  BY <1>14 DEF IInv, TypeOK, RowInv, ActInv, FinishRecorded, Idle,
     RespondReturns, DurableUnchanged
<1>15. ASSUME NEW c \in Actions, FinishSteer(c)
      PROVE  FinishRecorded
  BY <1>15 DEF IInv, TypeOK, RowInv, ActInv, FinishRecorded, Idle, FinishSteer,
     FinishStep, Outcomes
<1>16. ASSUME NEW c \in Actions, FinishResponse(c)
      PROVE  FinishRecorded
  BY <1>16 DEF IInv, TypeOK, RowInv, ActInv, FinishRecorded, Idle,
     FinishResponse, FinishStep, Outcomes
<1>17. ASSUME NEW c \in Actions, TransactionLost(c)
      PROVE  FinishRecorded
  BY <1>17 DEF TransactionLost
<1>18. ASSUME NEW c \in Actions, FinishAction(c)
      PROVE  FinishRecorded
  BY <1>18 DEF IInv, TypeOK, RowInv, ActInv, FinishRecorded, Idle, FinishAction
<1>19. ASSUME NEW c \in Actions, RegisterStream(c)
      PROVE  FinishRecorded
  BY <1>19 DEF IInv, TypeOK, RowInv, ActInv, FinishRecorded, Idle,
     RegisterStream, DurableUnchanged
<1>20. ASSUME NEW c \in Actions, StreamClosed(c)
      PROVE  FinishRecorded
  BY <1>20 DEF IInv, TypeOK, RowInv, ActInv, FinishRecorded, Idle, StreamClosed,
     DurableUnchanged
<1>21. ASSUME NEW c \in Actions, NEW outcome \in TerminalStates,
             NEW effect \in EffectStates, NEW class,
             StreamTerminal(c, outcome, effect, class)
      PROVE  FinishRecorded
  BY <1>21 DEF IInv, TypeOK, RowInv, ActInv, FinishRecorded, Idle, StreamTerminal
<1>22. ASSUME NEW c \in Actions, NEW effect \in EffectStates,
             StreamUnknown(c, effect)
      PROVE  FinishRecorded
  BY <1>22 DEF IInv, TypeOK, RowInv, ActInv, FinishRecorded, Idle, StreamUnknown
<1>23. ASSUME NEW outcome \in TerminalStates, NEW effect \in EffectStates,
             NEW class, ReconcileApply(outcome, effect, class)
      PROVE  FinishRecorded
  BY <1>23 DEF IInv, TypeOK, RowInv, ActInv, FinishRecorded, Idle,
     ReconcileApply, CancelStream
<1>24. CASE Restart
  BY <1>24 DEF IInv, TypeOK, RowInv, ActInv, FinishRecorded, Idle, Restart
<1>25. ASSUME NEW c \in Actions, NEW over, ToolStarted(c, over)
      PROVE  FinishRecorded
  <2>1. /\ actAtt[c] \in Attempts /\ attState[actAtt[c]] # "absent"
        /\ attReq[actAtt[c]] \in Requests
    BY <1>25, PerformedAttempt DEF ToolStarted, InBudget, Observing, Idle
  <2>2. CASE UNCHANGED <<attState, actionVars>>
    BY <1>25, <2>1, <2>2 DEF IInv, TypeOK, RowInv, ActInv, FinishRecorded, Idle,
       ToolStarted, EventFrame, InBudget, Observing
  <2>3. ASSUME NEW s \in Actions,
               InsertAction(s, "attempt.stop", actAtt[c], 0),
               attState[actAtt[c]] \in {"running", "waiting_input"},
               attState' = [attState EXCEPT ![actAtt[c]] = "stopping"]
        PROVE  FinishRecorded
    BY <1>25, <2>1, <2>3 DEF IInv, TypeOK, RowInv, ActInv, FinishRecorded, Idle,
       ToolStarted, EventFrame, InBudget, Observing, InsertAction, NextAction
  <2> QED BY <1>25, <2>2, <2>3 DEF ToolStarted, ChargeOutput
<1>26. ASSUME NEW c \in Actions, NEW over, NEW end,
             ToolCompleted(c, over, end)
      PROVE  FinishRecorded
  <2>1. /\ actAtt[c] \in Attempts /\ attState[actAtt[c]] # "absent"
        /\ attReq[actAtt[c]] \in Requests
    BY <1>26, PerformedAttempt DEF ToolCompleted, InBudget, Observing, Idle
  <2>2. CASE UNCHANGED <<attState, actionVars>>
    BY <1>26, <2>1, <2>2 DEF IInv, TypeOK, RowInv, ActInv, FinishRecorded, Idle,
       ToolCompleted, EventFrame, InBudget, Observing
  <2>3. ASSUME NEW s \in Actions,
               InsertAction(s, "attempt.stop", actAtt[c], 0),
               attState[actAtt[c]] \in {"running", "waiting_input"},
               attState' = [attState EXCEPT ![actAtt[c]] = "stopping"]
        PROVE  FinishRecorded
    BY <1>26, <2>1, <2>3 DEF IInv, TypeOK, RowInv, ActInv, FinishRecorded, Idle,
       ToolCompleted, EventFrame, InBudget, Observing, InsertAction,
       NextAction
  <2> QED BY <1>26, <2>2, <2>3 DEF ToolCompleted, ChargeOutput
<1>27. ASSUME NEW c \in Actions, OutputLimit(c)
      PROVE  FinishRecorded
  <2>1. /\ actAtt[c] \in Attempts /\ attState[actAtt[c]] # "absent"
        /\ attReq[actAtt[c]] \in Requests
    BY <1>27, PerformedAttempt DEF OutputLimit, InBudget, Observing, Idle
  <2>2. CASE UNCHANGED <<attState, actionVars>>
    BY <1>27, <2>1, <2>2 DEF IInv, TypeOK, RowInv, ActInv, FinishRecorded, Idle,
       OutputLimit, EventFrame, InBudget, Observing
  <2>3. ASSUME NEW s \in Actions,
               InsertAction(s, "attempt.stop", actAtt[c], 0),
               attState[actAtt[c]] \in {"running", "waiting_input"},
               attState' = [attState EXCEPT ![actAtt[c]] = "stopping"]
        PROVE  FinishRecorded
    BY <1>27, <2>1, <2>3 DEF IInv, TypeOK, RowInv, ActInv, FinishRecorded, Idle,
       OutputLimit, EventFrame, InBudget, Observing, InsertAction, NextAction
  <2> QED BY <1>27, <2>2, <2>3 DEF OutputLimit, ChargeOutput
<1>28. ASSUME NEW c \in Actions, NEW w \in Waits, NEW over,
             WaitRequested(c, w, over)
      PROVE  FinishRecorded
  <2>1. /\ actAtt[c] \in Attempts /\ attState[actAtt[c]] # "absent"
        /\ attReq[actAtt[c]] \in Requests
    BY <1>28, PerformedAttempt DEF WaitRequested, InBudget, Observing, Idle
  <2>2. CASE UNCHANGED <<attState, actionVars>>
    BY <1>28, <2>1, <2>2 DEF IInv, TypeOK, RowInv, ActInv, FinishRecorded, Idle,
       WaitRequested, EventFrame, InBudget, Observing, NextWait
  <2>3. ASSUME NEW s \in Actions,
               InsertAction(s, "attempt.stop", actAtt[c], 0),
               attState[actAtt[c]] \in {"running", "waiting_input"},
               attState' = [attState EXCEPT ![actAtt[c]] = "stopping"]
        PROVE  FinishRecorded
    BY <1>28, <2>1, <2>3 DEF IInv, TypeOK, RowInv, ActInv, FinishRecorded, Idle,
       WaitRequested, EventFrame, InBudget, Observing, InsertAction,
       NextAction, NextWait
  <2>4. CASE /\ attState' = [attState EXCEPT ![actAtt[c]] = "waiting_input"]
             /\ UNCHANGED <<attOver, actionVars>>
    BY <1>28, <2>1, <2>4 DEF IInv, TypeOK, RowInv, ActInv, FinishRecorded, Idle,
       WaitRequested, EventFrame, InBudget, Observing, NextWait
  <2> QED BY <1>28, <2>2, <2>3, <2>4 DEF WaitRequested, ChargeOutput
<1>29. CASE UNCHANGED <<actionVars, pc>>
  BY <1>29 DEF FinishRecorded
<1>30. CASE CommandStep
  BY <1>30, <1>1, <1>2, <1>3, <1>29 DEF CommandStep, DialogCreate,
     MessageEnqueue, RequestCancel, QueueResume, AttemptRetry
<1>31. CASE LoopStep
  BY <1>31, <1>4, <1>29 DEF LoopStep, PeekDispatch, BlockPolicy, DropCandidate
<1>32. ASSUME NEW c \in Actions, WorkerStep(c) PROVE FinishRecorded
  BY <1>32, <1>6, <1>7, <1>8, <1>9, <1>10, <1>11, <1>12, <1>13, <1>14, <1>15,
     <1>16, <1>17, <1>18, <1>29 DEF WorkerStep, IssueTurn, DurableUnchanged
<1>33. ASSUME NEW c \in Actions, StreamEnds(c) PROVE FinishRecorded
  BY <1>33, <1>19, <1>20, <1>21, <1>22 DEF StreamEnds
<1>34. ASSUME NEW c \in Actions, StreamEvent(c) PROVE FinishRecorded
  BY <1>34, <1>25, <1>26, <1>27, <1>28, <1>29 DEF StreamEvent, EnterWaiting,
     EventFrame
<1>35. CASE ReconcileStep
  BY <1>35, StateValues, <1>23, <1>29 DEF ReconcileStep, ReconcileBegin,
     ReconcileNone, DurableUnchanged
<1>36. CASE ProviderStep
  BY <1>36, <1>29 DEF ProviderStep, ProviderStarts, ProviderEnds,
     DurableUnchanged
<1>37. CASE BarrierStep
  BY <1>37, <1>29 DEF BarrierStep, InstallHold, ReleaseHold,
     DeleteLogicalDialog, BeginSettings, SettingsSwap, SettingsRelease,
     SetSettingsReady, ProviderAuthStart, ProviderAuthCheck,
     ProviderAuthSettles, RowsUnchanged, SettingsFrame, AuthFrame
<1>38. CASE UNCHANGED vars
  BY <1>38, <1>29 DEF vars
<1> QED BY <1>30, <1>31, <1>5, <1>32, <1>33, <1>34, <1>35, <1>36, <1>37,
   <1>24, <1>38 DEF Next

\* An outcome is kept until finishAction.
LEMMA OverNext ==
  ASSUME StoreMayFail = FALSE, IInv, ActInv, RowsKept, OverInv, [Next]_vars
  PROVE  OverInv'
<1>1. LifeKept /\ FinishRecorded
  BY LifeIsKept, FinishIsRecorded
<1>2. ASSUME NEW c \in Actions, actKind'[c] = "dispatch.start",
             pc'[c] \in {"finish_rej", "finish_unk"}
      PROVE  ~Live(actAtt[c])'
  <2>1. CASE pc'[c] = pc[c]
    <3>1. actStatus[c] # "absent" /\ actAtt[c] \in Attempts
          /\ attState[actAtt[c]] # "absent"
      BY <1>2, <2>1 DEF IInv, RowInv, Idle
    <3>2. actKind'[c] = actKind[c] /\ actAtt'[c] = actAtt[c]
      BY <3>1 DEF RowsKept
    <3>3. ~Live(actAtt[c])
      BY <1>2, <2>1, <3>2 DEF OverInv
    <3> QED BY <1>1, <3>1, <3>2, <3>3 DEF LifeKept, Live
  <2> QED BY <1>1, <1>2, <2>1 DEF FinishRecorded
<1>3. ASSUME NEW a \in Attempts, attTerminal'[a]
      PROVE  ~Live(a)' /\ attState'[a] # "absent"
  <2>1. CASE attTerminal[a]
    BY <1>1, <2>1 DEF LifeKept, OverInv, RowsKept
  <2>2. CASE attState'[a] \in TerminalStates
    BY <2>2 DEF Live, TerminalStates, ActiveStates
  <2> QED BY <1>1, <1>3, <2>1, <2>2 DEF LifeKept
<1> QED BY <1>2, <1>3 DEF OverInv

\* The dispatch is still to be claimed, or its goroutine starts the attempt or
\* reads its events.
Drives(c) ==
  /\ actKind[c] = "dispatch.start"
  /\ \/ actStatus[c] = "pending"
     \/ pc[c] \notin {Idle, "closing"}

\* A driver goes on until its attempt is over or unknown.
DriverKept ==
  \A c \in Actions : Drives(c) => Drives(c)' \/ ~Live(actAtt[c])'

\* A goroutine leaves an attempt only when it is over, unknown or with another.
LEMMA DriverIsKept ==
  ASSUME StoreMayFail = FALSE, IInv, ActInv, StageInv, OverInv, [Next]_vars
  PROVE  DriverKept
<1>1. ASSUME NEW a \in Attempts, NEW c \in Actions, NEW low,
             AttemptStop(a, c, low)
      PROVE  DriverKept
  BY <1>1 DEF IInv, TypeOK, RowInv, ActInv, DriverKept, Drives, Idle,
     AttemptStop, InsertAction, NextAction
<1>2. ASSUME NEW m \in Messages, NEW a \in Attempts, NEW c \in Actions,
             NEW low, MessageSteer(m, a, c, low)
      PROVE  DriverKept
  BY <1>2 DEF IInv, TypeOK, RowInv, ActInv, DriverKept, Drives, Idle,
     MessageSteer, InsertAction, NextAction
<1>3. ASSUME NEW w \in Waits, NEW c \in Actions, NEW low, Respond(w, c, low)
      PROVE  DriverKept
  BY <1>3 DEF IInv, TypeOK, RowInv, ActInv, DriverKept, Drives, Idle, Respond,
     InsertAction, NextAction
<1>4. ASSUME NEW r \in Requests, NEW a \in Attempts, NEW c \in Actions,
             CommitDispatch(r, a, c)
      PROVE  DriverKept
  BY <1>4 DEF IInv, TypeOK, RowInv, ActInv, DriverKept, Drives, Idle,
     CommitDispatch, InsertAction, NextAction
<1>5. ASSUME NEW c \in Actions, ClaimAction(c)
      PROVE  DriverKept
  BY <1>5 DEF IInv, TypeOK, RowInv, ActInv, DriverKept, Drives, Idle,
     ClaimAction, Claimable, LaneActions
<1>6. ASSUME NEW c \in Actions, RequeueDispatch(c)
      PROVE  DriverKept
  BY <1>6 DEF IInv, TypeOK, RowInv, ActInv, DriverKept, Drives, Idle,
     RequeueDispatch
<1>7. ASSUME NEW c \in Actions, EnterDispatch(c)
      PROVE  DriverKept
  BY <1>7 DEF IInv, TypeOK, RowInv, ActInv, DriverKept, Drives, Idle,
     EnterDispatch, DurableUnchanged
<1>8. ASSUME NEW c \in Actions, StartReturns(c)
      PROVE  DriverKept
  BY <1>8 DEF IInv, TypeOK, RowInv, ActInv, DriverKept, Drives, Idle,
     StartReturns, DurableUnchanged
<1>9. ASSUME NEW c \in Actions, MarkStarted(c)
      PROVE  DriverKept
  BY <1>9 DEF IInv, TypeOK, RowInv, ActInv, DriverKept, Drives, Idle,
     MarkStarted
<1>10. ASSUME NEW c \in Actions, MarkUnknown(c)
      PROVE  DriverKept
  BY <1>10 DEF IInv, TypeOK, RowInv, ActInv, DriverKept, Drives, Idle,
     MarkUnknown
<1>11. ASSUME NEW c \in Actions, RejectStart(c)
      PROVE  DriverKept
  BY <1>11 DEF IInv, TypeOK, RowInv, ActInv, DriverKept, Drives, Idle,
     RejectStart
<1>12. ASSUME NEW c \in Actions, CancelReturns(c)
      PROVE  DriverKept
  BY <1>12 DEF IInv, TypeOK, RowInv, ActInv, DriverKept, Drives, Idle,
     CancelReturns, DurableUnchanged
<1>13. ASSUME NEW c \in Actions, SteerReturns(c)
      PROVE  DriverKept
  BY <1>13 DEF IInv, TypeOK, RowInv, ActInv, DriverKept, Drives, Idle,
     SteerReturns, DurableUnchanged
<1>14. ASSUME NEW c \in Actions, RespondReturns(c)
      PROVE  DriverKept
  BY <1>14 DEF IInv, TypeOK, RowInv, ActInv, DriverKept, Drives, Idle,
     RespondReturns, DurableUnchanged
<1>15. ASSUME NEW c \in Actions, FinishSteer(c)
      PROVE  DriverKept
  BY <1>15 DEF IInv, TypeOK, RowInv, ActInv, DriverKept, Drives, Idle,
     FinishSteer, FinishStep, Outcomes
<1>16. ASSUME NEW c \in Actions, FinishResponse(c)
      PROVE  DriverKept
  BY <1>16 DEF IInv, TypeOK, RowInv, ActInv, DriverKept, Drives, Idle,
     FinishResponse, FinishStep, Outcomes
<1>17. ASSUME NEW c \in Actions, TransactionLost(c)
      PROVE  DriverKept
  BY <1>17 DEF TransactionLost
<1>18. ASSUME NEW c \in Actions, FinishAction(c)
      PROVE  DriverKept
  BY <1>18 DEF IInv, TypeOK, RowInv, ActInv, DriverKept, Drives, Idle,
     FinishAction, OverInv, Live
<1>19. ASSUME NEW c \in Actions, RegisterStream(c)
      PROVE  DriverKept
  BY <1>19 DEF IInv, TypeOK, RowInv, ActInv, DriverKept, Drives, Idle,
     RegisterStream, DurableUnchanged, StageInv, Live, ActiveStates, SlotInv,
     ReadSteps
<1>20. ASSUME NEW c \in Actions, StreamClosed(c)
      PROVE  DriverKept
  BY <1>20 DEF IInv, TypeOK, RowInv, ActInv, DriverKept, Drives, Idle,
     StreamClosed, DurableUnchanged
<1>21. ASSUME NEW c \in Actions, NEW outcome \in TerminalStates,
             NEW effect \in EffectStates, NEW class,
             StreamTerminal(c, outcome, effect, class)
      PROVE  DriverKept
  <2>1. /\ actAtt[c] \in Attempts /\ attState[actAtt[c]] # "absent"
        /\ attReq[actAtt[c]] \in Requests
    BY <1>21, PerformedAttempt DEF StreamTerminal, Observing, Idle
  <2> QED BY <1>21, <2>1 DEF IInv, TypeOK, RowInv, ActInv, DriverKept, Drives,
     Idle, Live, SlotInv, ActiveStates, StreamTerminal, EndFrame,
     ProjectTerminal, SetAttemptUnknown, TerminalStates, Observing, OverInv
<1>22. ASSUME NEW c \in Actions, NEW effect \in EffectStates,
             StreamUnknown(c, effect)
      PROVE  DriverKept
  <2>1. /\ actAtt[c] \in Attempts /\ attState[actAtt[c]] # "absent"
        /\ attReq[actAtt[c]] \in Requests
    BY <1>22, PerformedAttempt DEF StreamUnknown, Observing, Idle
  <2> QED BY <1>22, <2>1 DEF IInv, TypeOK, RowInv, ActInv, DriverKept, Drives,
     Idle, Live, SlotInv, ActiveStates, StreamUnknown, EndFrame,
     SetAttemptUnknown, Observing
<1>23. ASSUME NEW outcome \in TerminalStates, NEW effect \in EffectStates,
             NEW class, ReconcileApply(outcome, effect, class)
      PROVE  DriverKept
  <2>1. /\ reconciling \in Attempts /\ attState[reconciling] # "absent"
        /\ attReq[reconciling] \in Requests
    BY <1>23 DEF IInv, TypeOK, RowInv, ReconcileApply
  <2> QED BY <1>23, <2>1 DEF IInv, TypeOK, RowInv, ActInv, DriverKept, Drives,
     Idle, Live, SlotInv, ActiveStates, ReconcileApply, EndFrame,
     ProjectTerminal, SetAttemptUnknown, TerminalStates, CancelStream
<1>24. CASE Restart
  <2>1. \A c \in Actions : Drives(c) => actAtt'[c] \in Attempts
    BY <1>24 DEF IInv, RowInv, ActInv, Drives, Restart
  <2>2. \A a \in Attempts : ~Live(a)'
    <3>1. CASE active = 0
      <4>1. attState' = attState
        BY <1>24, <3>1 DEF Restart, RecoverActive
      <4> QED BY <3>1, <4>1, AttemptsPositive DEF IInv, SlotInv, Live
    <3>2. CASE active # 0 /\ attState[active] = "unknown"
      <4>1. attState' = attState
        BY <1>24, <3>2 DEF Restart, RecoverActive, SetAttemptUnknown
      <4> QED BY <3>2, <4>1 DEF IInv, SlotInv, Live
    <3>3. CASE active # 0 /\ attState[active] # "unknown"
      <4>1. attState' = [attState EXCEPT ![active] = "unknown"]
        BY <1>24, <3>3 DEF Restart, RecoverActive, SetAttemptUnknown
      <4> QED BY <3>3, <4>1 DEF IInv, TypeOK, SlotInv, Live
    <3> QED BY <3>1, <3>2, <3>3
  <2> QED BY <2>1, <2>2 DEF DriverKept
<1>25. ASSUME NEW c \in Actions, NEW over, ToolStarted(c, over)
      PROVE  DriverKept
  <2>1. /\ actAtt[c] \in Attempts /\ attState[actAtt[c]] # "absent"
        /\ attReq[actAtt[c]] \in Requests
    BY <1>25, PerformedAttempt DEF ToolStarted, InBudget, Observing, Idle
  <2>2. CASE UNCHANGED <<attState, actionVars>>
    BY <1>25, <2>1, <2>2 DEF IInv, TypeOK, RowInv, ActInv, DriverKept, Drives,
       Idle, ToolStarted, EventFrame, InBudget, Observing
  <2>3. ASSUME NEW s \in Actions,
               InsertAction(s, "attempt.stop", actAtt[c], 0),
               attState[actAtt[c]] \in {"running", "waiting_input"},
               attState' = [attState EXCEPT ![actAtt[c]] = "stopping"]
        PROVE  DriverKept
    BY <1>25, <2>1, <2>3 DEF IInv, TypeOK, RowInv, ActInv, DriverKept, Drives,
       Idle, ToolStarted, EventFrame, InBudget, Observing, InsertAction,
       NextAction
  <2> QED BY <1>25, <2>2, <2>3 DEF ToolStarted, ChargeOutput
<1>26. ASSUME NEW c \in Actions, NEW over, NEW end,
             ToolCompleted(c, over, end)
      PROVE  DriverKept
  <2>1. /\ actAtt[c] \in Attempts /\ attState[actAtt[c]] # "absent"
        /\ attReq[actAtt[c]] \in Requests
    BY <1>26, PerformedAttempt DEF ToolCompleted, InBudget, Observing, Idle
  <2>2. CASE UNCHANGED <<attState, actionVars>>
    BY <1>26, <2>1, <2>2 DEF IInv, TypeOK, RowInv, ActInv, DriverKept, Drives,
       Idle, ToolCompleted, EventFrame, InBudget, Observing
  <2>3. ASSUME NEW s \in Actions,
               InsertAction(s, "attempt.stop", actAtt[c], 0),
               attState[actAtt[c]] \in {"running", "waiting_input"},
               attState' = [attState EXCEPT ![actAtt[c]] = "stopping"]
        PROVE  DriverKept
    BY <1>26, <2>1, <2>3 DEF IInv, TypeOK, RowInv, ActInv, DriverKept, Drives,
       Idle, ToolCompleted, EventFrame, InBudget, Observing, InsertAction,
       NextAction
  <2> QED BY <1>26, <2>2, <2>3 DEF ToolCompleted, ChargeOutput
<1>27. ASSUME NEW c \in Actions, OutputLimit(c)
      PROVE  DriverKept
  <2>1. /\ actAtt[c] \in Attempts /\ attState[actAtt[c]] # "absent"
        /\ attReq[actAtt[c]] \in Requests
    BY <1>27, PerformedAttempt DEF OutputLimit, InBudget, Observing, Idle
  <2>2. CASE UNCHANGED <<attState, actionVars>>
    BY <1>27, <2>1, <2>2 DEF IInv, TypeOK, RowInv, ActInv, DriverKept, Drives,
       Idle, OutputLimit, EventFrame, InBudget, Observing
  <2>3. ASSUME NEW s \in Actions,
               InsertAction(s, "attempt.stop", actAtt[c], 0),
               attState[actAtt[c]] \in {"running", "waiting_input"},
               attState' = [attState EXCEPT ![actAtt[c]] = "stopping"]
        PROVE  DriverKept
    BY <1>27, <2>1, <2>3 DEF IInv, TypeOK, RowInv, ActInv, DriverKept, Drives,
       Idle, OutputLimit, EventFrame, InBudget, Observing, InsertAction,
       NextAction
  <2> QED BY <1>27, <2>2, <2>3 DEF OutputLimit, ChargeOutput
<1>28. ASSUME NEW c \in Actions, NEW w \in Waits, NEW over,
             WaitRequested(c, w, over)
      PROVE  DriverKept
  <2>1. /\ actAtt[c] \in Attempts /\ attState[actAtt[c]] # "absent"
        /\ attReq[actAtt[c]] \in Requests
    BY <1>28, PerformedAttempt DEF WaitRequested, InBudget, Observing, Idle
  <2>2. CASE UNCHANGED <<attState, actionVars>>
    BY <1>28, <2>1, <2>2 DEF IInv, TypeOK, RowInv, ActInv, DriverKept, Drives,
       Idle, WaitRequested, EventFrame, InBudget, Observing, NextWait
  <2>3. ASSUME NEW s \in Actions,
               InsertAction(s, "attempt.stop", actAtt[c], 0),
               attState[actAtt[c]] \in {"running", "waiting_input"},
               attState' = [attState EXCEPT ![actAtt[c]] = "stopping"]
        PROVE  DriverKept
    BY <1>28, <2>1, <2>3 DEF IInv, TypeOK, RowInv, ActInv, DriverKept, Drives,
       Idle, WaitRequested, EventFrame, InBudget, Observing, InsertAction,
       NextAction, NextWait
  <2>4. CASE /\ attState' = [attState EXCEPT ![actAtt[c]] = "waiting_input"]
             /\ UNCHANGED <<attOver, actionVars>>
    BY <1>28, <2>1, <2>4 DEF IInv, TypeOK, RowInv, ActInv, DriverKept, Drives,
       Idle, WaitRequested, EventFrame, InBudget, Observing, NextWait
  <2> QED BY <1>28, <2>2, <2>3, <2>4 DEF WaitRequested, ChargeOutput
<1>29. CASE UNCHANGED <<actionVars, pc>>
  BY <1>29 DEF DriverKept, Drives
<1>30. CASE CommandStep
  BY <1>30, <1>1, <1>2, <1>3, <1>29 DEF CommandStep, DialogCreate,
     MessageEnqueue, RequestCancel, QueueResume, AttemptRetry
<1>31. CASE LoopStep
  BY <1>31, <1>4, <1>29 DEF LoopStep, PeekDispatch, BlockPolicy, DropCandidate
<1>32. ASSUME NEW c \in Actions, WorkerStep(c) PROVE DriverKept
  BY <1>32, <1>6, <1>7, <1>8, <1>9, <1>10, <1>11, <1>12, <1>13, <1>14, <1>15,
     <1>16, <1>17, <1>18, <1>29 DEF WorkerStep, IssueTurn, DurableUnchanged
<1>33. ASSUME NEW c \in Actions, StreamEnds(c) PROVE DriverKept
  BY <1>33, <1>19, <1>20, <1>21, <1>22 DEF StreamEnds
<1>34. ASSUME NEW c \in Actions, StreamEvent(c) PROVE DriverKept
  BY <1>34, <1>25, <1>26, <1>27, <1>28, <1>29 DEF StreamEvent, EnterWaiting,
     EventFrame
<1>35. CASE ReconcileStep
  BY <1>35, StateValues, <1>23, <1>29 DEF ReconcileStep, ReconcileBegin,
     ReconcileNone, DurableUnchanged
<1>36. CASE ProviderStep
  BY <1>36, <1>29 DEF ProviderStep, ProviderStarts, ProviderEnds,
     DurableUnchanged
<1>37. CASE BarrierStep
  BY <1>37, <1>29 DEF BarrierStep, InstallHold, ReleaseHold,
     DeleteLogicalDialog, BeginSettings, SettingsSwap, SettingsRelease,
     SetSettingsReady, ProviderAuthStart, ProviderAuthCheck,
     ProviderAuthSettles, RowsUnchanged, SettingsFrame, AuthFrame
<1>38. CASE UNCHANGED vars
  BY <1>38, <1>29 DEF vars
<1> QED BY <1>30, <1>31, <1>5, <1>32, <1>33, <1>34, <1>35, <1>36, <1>37,
   <1>24, <1>38 DEF Next

\* No attempt exists at first.
LEMMA DriverInit == InitStore => AttemptHasDriver
BY DEF InitStore, AttemptHasDriver, ActiveStates

\* A new attempt has the dispatch that was inserted with it.
LEMMA DriverNext ==
  ASSUME StoreMayFail = FALSE, IInv, ActInv, StageInv, RowsKept, OverInv,
         AttemptHasDriver, [Next]_vars
  PROVE  AttemptHasDriver'
<1> SUFFICES ASSUME NEW a \in Attempts, Live(a)'
             PROVE  \E c \in Actions : Drives(c)' /\ actAtt'[c] = a
  BY DEF AttemptHasDriver, Live, Drives
<1>1. LifeKept /\ DriverKept /\ AttemptAdded
  BY LifeIsKept, DriverIsKept, AttemptIsAdded
<1>2. CASE Live(a)
  <2>1. PICK c \in Actions : Drives(c) /\ actAtt[c] = a
    BY <1>2 DEF AttemptHasDriver, Live, Drives
  <2>2. actStatus[c] # "absent"
    BY <2>1 DEF ActInv, Drives
  <2>3. actAtt'[c] = a
    BY <2>1, <2>2 DEF RowsKept
  <2> QED BY <1>1, <2>1, <2>3 DEF DriverKept
<1>3. CASE attState[a] = "absent"
  <2>1. PICK r \in Requests, b \in Attempts, c \in Actions :
          CommitDispatch(r, b, c)
    BY <1>1, <1>3 DEF AttemptAdded, NoNewAttempt, Live, ActiveStates
  <2>2. a = b
    BY <1>3, <2>1 DEF CommitDispatch, IInv, TypeOK, Live, ActiveStates
  <2>3. Drives(c)' /\ actAtt'[c] = b
    BY <2>1 DEF CommitDispatch, InsertAction, IInv, TypeOK, Drives
  <2> QED BY <2>2, <2>3
<1> QED BY <1>1, <1>2, <1>3 DEF LifeKept

-----------------------------------------------------------------------------
\* What is with the adapter.

\* The answer to a wait is still to be given, its outcome is still to be
\* recorded, or it stays unknown.
OpenResponse(c) ==
  /\ actKind[c] = "respond"
  /\ \/ actStatus[c] \in {"pending", "unknown"}
     \/ pc[c] \in {"claimed", "invalid", "finish_unk"} \cup Outcomes

\* A steer that is under way or stays unknown.
OpenSteer(c) ==
  LiveSteer(c) \/ (actKind[c] = "message.steer" /\ actStatus[c] = "unknown")

\* Whatever is with the adapter has an action that is open in this sense.
IntentInv ==
  /\ \A m \in Messages : msgDisp[m] = "steer_pending" =>
       \E c \in Actions : OpenSteer(c) /\ actObj[c] = m
  /\ \A w \in Waits : waitStatus[w] = "responding" =>
       \E c \in Actions : OpenResponse(c) /\ actObj[c] = w

\* Nothing is with the adapter at first.
LEMMA IntentInit == InitStore => IntentInv
BY DEF InitStore, IntentInv

\* An open action stays open until it settles what it is about.
OpenKept ==
  \A c \in Actions :
    /\ OpenSteer(c) => OpenSteer(c)' \/ msgDisp'[actObj[c]] # "steer_pending"
    /\ OpenResponse(c) => OpenResponse(c)' \/ waitStatus'[actObj[c]] # "responding"

\* The attempt of a steer under way is the one the unique index allows.
LEMMA IndexAllowed ==
  ASSUME IInv, SteerSlotInv, NEW c \in Actions, LiveSteer(c)
  PROVE  OneActiveIndexAllows(actAtt[c])
BY DEF IInv, SlotInv, SteerSlotInv, OneActiveIndexAllows, ActiveAttempts

\* finishSteer, finishApproval and finishInput settle what is outstanding.
LEMMA OpenIsKept ==
  ASSUME StoreMayFail = FALSE, IInv, ActInv, SteerSlotInv, [Next]_vars
  PROVE  OpenKept
<1>1. ASSUME NEW a \in Attempts, NEW c \in Actions, NEW low,
             AttemptStop(a, c, low)
      PROVE  OpenKept
  BY <1>1 DEF IInv, TypeOK, RowInv, ActInv, OpenKept, OpenSteer, OpenResponse,
     LiveSteer, Outcomes, Idle, AttemptStop, InsertAction, NextAction
<1>2. ASSUME NEW m \in Messages, NEW a \in Attempts, NEW c \in Actions,
             NEW low, MessageSteer(m, a, c, low)
      PROVE  OpenKept
  BY <1>2 DEF IInv, TypeOK, RowInv, ActInv, OpenKept, OpenSteer, OpenResponse,
     LiveSteer, Outcomes, Idle, MessageSteer, InsertAction, NextAction
<1>3. ASSUME NEW w \in Waits, NEW c \in Actions, NEW low, Respond(w, c, low)
      PROVE  OpenKept
  BY <1>3 DEF IInv, TypeOK, RowInv, ActInv, OpenKept, OpenSteer, OpenResponse,
     LiveSteer, Outcomes, Idle, Respond, InsertAction, NextAction
<1>4. ASSUME NEW r \in Requests, NEW a \in Attempts, NEW c \in Actions,
             CommitDispatch(r, a, c)
      PROVE  OpenKept
  BY <1>4 DEF IInv, TypeOK, RowInv, ActInv, OpenKept, OpenSteer, OpenResponse,
     LiveSteer, Outcomes, Idle, CommitDispatch, InsertAction, NextAction
<1>5. ASSUME NEW c \in Actions, ClaimAction(c)
      PROVE  OpenKept
  BY <1>5 DEF IInv, TypeOK, RowInv, ActInv, OpenKept, OpenSteer, OpenResponse,
     LiveSteer, Outcomes, Idle, ClaimAction, Claimable, LaneActions
<1>6. ASSUME NEW c \in Actions, RequeueDispatch(c)
      PROVE  OpenKept
  BY <1>6 DEF IInv, TypeOK, RowInv, ActInv, OpenKept, OpenSteer, OpenResponse,
     LiveSteer, Outcomes, Idle, RequeueDispatch
<1>7. ASSUME NEW c \in Actions, EnterDispatch(c)
      PROVE  OpenKept
  BY <1>7 DEF IInv, TypeOK, RowInv, ActInv, OpenKept, OpenSteer, OpenResponse,
     LiveSteer, Outcomes, Idle, EnterDispatch, DurableUnchanged
<1>8. ASSUME NEW c \in Actions, StartReturns(c)
      PROVE  OpenKept
  BY <1>8 DEF IInv, TypeOK, RowInv, ActInv, OpenKept, OpenSteer, OpenResponse,
     LiveSteer, Outcomes, Idle, StartReturns, DurableUnchanged
<1>9. ASSUME NEW c \in Actions, MarkStarted(c)
      PROVE  OpenKept
  BY <1>9 DEF IInv, TypeOK, RowInv, ActInv, OpenKept, OpenSteer, OpenResponse,
     LiveSteer, Outcomes, Idle, MarkStarted
<1>10. ASSUME NEW c \in Actions, MarkUnknown(c)
      PROVE  OpenKept
  BY <1>10 DEF IInv, TypeOK, RowInv, ActInv, OpenKept, OpenSteer, OpenResponse,
     LiveSteer, Outcomes, Idle, MarkUnknown
<1>11. ASSUME NEW c \in Actions, RejectStart(c)
      PROVE  OpenKept
  BY <1>11 DEF IInv, TypeOK, RowInv, ActInv, OpenKept, OpenSteer, OpenResponse,
     LiveSteer, Outcomes, Idle, RejectStart
<1>12. ASSUME NEW c \in Actions, CancelReturns(c)
      PROVE  OpenKept
  BY <1>12 DEF IInv, TypeOK, RowInv, ActInv, OpenKept, OpenSteer, OpenResponse,
     LiveSteer, Outcomes, Idle, CancelReturns, DurableUnchanged
<1>13. ASSUME NEW c \in Actions, SteerReturns(c)
      PROVE  OpenKept
  BY <1>13 DEF IInv, TypeOK, RowInv, ActInv, OpenKept, OpenSteer, OpenResponse,
     LiveSteer, Outcomes, Idle, SteerReturns, DurableUnchanged
<1>14. ASSUME NEW c \in Actions, RespondReturns(c)
      PROVE  OpenKept
  BY <1>14 DEF IInv, TypeOK, RowInv, ActInv, OpenKept, OpenSteer, OpenResponse,
     LiveSteer, Outcomes, Idle, RespondReturns, DurableUnchanged
<1>15. ASSUME NEW c \in Actions, FinishSteer(c)
      PROVE  OpenKept
  <2>1. /\ actAtt[c] \in Attempts /\ attState[actAtt[c]] # "absent"
        /\ attReq[actAtt[c]] \in Requests
    BY <1>15, PerformedAttempt DEF FinishSteer, Outcomes, Idle
  <2> QED BY <1>15, <2>1, IndexAllowed DEF IInv, TypeOK, RowInv, ActInv,
     OpenKept, OpenSteer, OpenResponse, LiveSteer, Outcomes, Idle,
     FinishSteer, SetAttemptUnknown, FinishStep, OriginalRequest,
     SteerOutstanding, ResponseStatus, SteerSlotInv
<1>16. ASSUME NEW c \in Actions, FinishResponse(c)
      PROVE  OpenKept
  <2>1. /\ actAtt[c] \in Attempts /\ attState[actAtt[c]] # "absent"
        /\ attReq[actAtt[c]] \in Requests
    BY <1>16, PerformedAttempt DEF FinishResponse, Outcomes, Idle
  <2> QED BY <1>16, <2>1 DEF IInv, TypeOK, RowInv, ActInv, OpenKept, OpenSteer,
     OpenResponse, LiveSteer, Outcomes, Idle, FinishResponse,
     SetAttemptUnknown, FinishStep, ResponseStatus, SteerSlotInv
<1>17. ASSUME NEW c \in Actions, TransactionLost(c)
      PROVE  OpenKept
  BY <1>17 DEF TransactionLost
<1>18. ASSUME NEW c \in Actions, FinishAction(c)
      PROVE  OpenKept
  BY <1>18 DEF IInv, TypeOK, RowInv, ActInv, OpenKept, OpenSteer, OpenResponse,
     LiveSteer, Outcomes, Idle, FinishAction
<1>19. ASSUME NEW c \in Actions, RegisterStream(c)
      PROVE  OpenKept
  BY <1>19 DEF IInv, TypeOK, RowInv, ActInv, OpenKept, OpenSteer, OpenResponse,
     LiveSteer, Outcomes, Idle, RegisterStream, DurableUnchanged
<1>20. ASSUME NEW c \in Actions, StreamClosed(c)
      PROVE  OpenKept
  BY <1>20 DEF IInv, TypeOK, RowInv, ActInv, OpenKept, OpenSteer, OpenResponse,
     LiveSteer, Outcomes, Idle, StreamClosed, DurableUnchanged
<1>21. ASSUME NEW c \in Actions, NEW outcome \in TerminalStates,
             NEW effect \in EffectStates, NEW class,
             StreamTerminal(c, outcome, effect, class)
      PROVE  OpenKept
  BY <1>21 DEF IInv, TypeOK, RowInv, ActInv, OpenKept, OpenSteer, OpenResponse,
     LiveSteer, Outcomes, Idle, StreamTerminal, EndFrame, Observing
<1>22. ASSUME NEW c \in Actions, NEW effect \in EffectStates,
             StreamUnknown(c, effect)
      PROVE  OpenKept
  BY <1>22 DEF IInv, TypeOK, RowInv, ActInv, OpenKept, OpenSteer, OpenResponse,
     LiveSteer, Outcomes, Idle, StreamUnknown, EndFrame, Observing
<1>23. ASSUME NEW outcome \in TerminalStates, NEW effect \in EffectStates,
             NEW class, ReconcileApply(outcome, effect, class)
      PROVE  OpenKept
  BY <1>23 DEF IInv, TypeOK, RowInv, ActInv, OpenKept, OpenSteer, OpenResponse,
     LiveSteer, Outcomes, Idle, ReconcileApply, EndFrame, CancelStream
<1>24. CASE Restart
  BY <1>24 DEF IInv, TypeOK, RowInv, ActInv, OpenKept, OpenSteer, OpenResponse,
     LiveSteer, Outcomes, Idle, Restart
<1>25. ASSUME NEW c \in Actions, NEW over, ToolStarted(c, over)
      PROVE  OpenKept
  <2>1. /\ actAtt[c] \in Attempts /\ attState[actAtt[c]] # "absent"
        /\ attReq[actAtt[c]] \in Requests
    BY <1>25, PerformedAttempt DEF ToolStarted, InBudget, Observing, Idle
  <2>2. CASE UNCHANGED <<attState, actionVars>>
    BY <1>25, <2>1, <2>2 DEF IInv, TypeOK, RowInv, ActInv, OpenKept, OpenSteer,
       OpenResponse, LiveSteer, Outcomes, Idle, ToolStarted, EventFrame,
       InBudget, Observing
  <2>3. ASSUME NEW s \in Actions,
               InsertAction(s, "attempt.stop", actAtt[c], 0),
               attState[actAtt[c]] \in {"running", "waiting_input"},
               attState' = [attState EXCEPT ![actAtt[c]] = "stopping"]
        PROVE  OpenKept
    BY <1>25, <2>1, <2>3 DEF IInv, TypeOK, RowInv, ActInv, OpenKept, OpenSteer,
       OpenResponse, LiveSteer, Outcomes, Idle, ToolStarted, EventFrame,
       InBudget, Observing, InsertAction, NextAction
  <2> QED BY <1>25, <2>2, <2>3 DEF ToolStarted, ChargeOutput
<1>26. ASSUME NEW c \in Actions, NEW over, NEW end,
             ToolCompleted(c, over, end)
      PROVE  OpenKept
  <2>1. /\ actAtt[c] \in Attempts /\ attState[actAtt[c]] # "absent"
        /\ attReq[actAtt[c]] \in Requests
    BY <1>26, PerformedAttempt DEF ToolCompleted, InBudget, Observing, Idle
  <2>2. CASE UNCHANGED <<attState, actionVars>>
    BY <1>26, <2>1, <2>2 DEF IInv, TypeOK, RowInv, ActInv, OpenKept, OpenSteer,
       OpenResponse, LiveSteer, Outcomes, Idle, ToolCompleted, EventFrame,
       InBudget, Observing
  <2>3. ASSUME NEW s \in Actions,
               InsertAction(s, "attempt.stop", actAtt[c], 0),
               attState[actAtt[c]] \in {"running", "waiting_input"},
               attState' = [attState EXCEPT ![actAtt[c]] = "stopping"]
        PROVE  OpenKept
    BY <1>26, <2>1, <2>3 DEF IInv, TypeOK, RowInv, ActInv, OpenKept, OpenSteer,
       OpenResponse, LiveSteer, Outcomes, Idle, ToolCompleted, EventFrame,
       InBudget, Observing, InsertAction, NextAction
  <2> QED BY <1>26, <2>2, <2>3 DEF ToolCompleted, ChargeOutput
<1>27. ASSUME NEW c \in Actions, OutputLimit(c)
      PROVE  OpenKept
  <2>1. /\ actAtt[c] \in Attempts /\ attState[actAtt[c]] # "absent"
        /\ attReq[actAtt[c]] \in Requests
    BY <1>27, PerformedAttempt DEF OutputLimit, InBudget, Observing, Idle
  <2>2. CASE UNCHANGED <<attState, actionVars>>
    BY <1>27, <2>1, <2>2 DEF IInv, TypeOK, RowInv, ActInv, OpenKept, OpenSteer,
       OpenResponse, LiveSteer, Outcomes, Idle, OutputLimit, EventFrame,
       InBudget, Observing
  <2>3. ASSUME NEW s \in Actions,
               InsertAction(s, "attempt.stop", actAtt[c], 0),
               attState[actAtt[c]] \in {"running", "waiting_input"},
               attState' = [attState EXCEPT ![actAtt[c]] = "stopping"]
        PROVE  OpenKept
    BY <1>27, <2>1, <2>3 DEF IInv, TypeOK, RowInv, ActInv, OpenKept, OpenSteer,
       OpenResponse, LiveSteer, Outcomes, Idle, OutputLimit, EventFrame,
       InBudget, Observing, InsertAction, NextAction
  <2> QED BY <1>27, <2>2, <2>3 DEF OutputLimit, ChargeOutput
<1>28. ASSUME NEW c \in Actions, NEW w \in Waits, NEW over,
             WaitRequested(c, w, over)
      PROVE  OpenKept
  <2>1. /\ actAtt[c] \in Attempts /\ attState[actAtt[c]] # "absent"
        /\ attReq[actAtt[c]] \in Requests
    BY <1>28, PerformedAttempt DEF WaitRequested, InBudget, Observing, Idle
  <2>2. CASE UNCHANGED <<attState, actionVars>>
    BY <1>28, <2>1, <2>2 DEF IInv, TypeOK, RowInv, ActInv, OpenKept, OpenSteer,
       OpenResponse, LiveSteer, Outcomes, Idle, WaitRequested, EventFrame,
       InBudget, Observing, NextWait
  <2>3. ASSUME NEW s \in Actions,
               InsertAction(s, "attempt.stop", actAtt[c], 0),
               attState[actAtt[c]] \in {"running", "waiting_input"},
               attState' = [attState EXCEPT ![actAtt[c]] = "stopping"]
        PROVE  OpenKept
    BY <1>28, <2>1, <2>3 DEF IInv, TypeOK, RowInv, ActInv, OpenKept, OpenSteer,
       OpenResponse, LiveSteer, Outcomes, Idle, WaitRequested, EventFrame,
       InBudget, Observing, InsertAction, NextAction, NextWait
  <2>4. CASE /\ attState' = [attState EXCEPT ![actAtt[c]] = "waiting_input"]
             /\ UNCHANGED <<attOver, actionVars>>
    BY <1>28, <2>1, <2>4 DEF IInv, TypeOK, RowInv, ActInv, OpenKept, OpenSteer,
       OpenResponse, LiveSteer, Outcomes, Idle, WaitRequested, EventFrame,
       InBudget, Observing, NextWait
  <2> QED BY <1>28, <2>2, <2>3, <2>4 DEF WaitRequested, ChargeOutput
<1>29. CASE UNCHANGED <<actionVars, pc>>
  BY <1>29 DEF OpenKept, OpenSteer, OpenResponse, LiveSteer
<1>30. CASE CommandStep
  BY <1>30, <1>1, <1>2, <1>3, <1>29 DEF CommandStep, DialogCreate,
     MessageEnqueue, RequestCancel, QueueResume, AttemptRetry
<1>31. CASE LoopStep
  BY <1>31, <1>4, <1>29 DEF LoopStep, PeekDispatch, BlockPolicy, DropCandidate
<1>32. ASSUME NEW c \in Actions, WorkerStep(c) PROVE OpenKept
  BY <1>32, <1>6, <1>7, <1>8, <1>9, <1>10, <1>11, <1>12, <1>13, <1>14, <1>15,
     <1>16, <1>17, <1>18, <1>29 DEF WorkerStep, IssueTurn, DurableUnchanged
<1>33. ASSUME NEW c \in Actions, StreamEnds(c) PROVE OpenKept
  BY <1>33, <1>19, <1>20, <1>21, <1>22 DEF StreamEnds
<1>34. ASSUME NEW c \in Actions, StreamEvent(c) PROVE OpenKept
  BY <1>34, <1>25, <1>26, <1>27, <1>28, <1>29 DEF StreamEvent, EnterWaiting,
     EventFrame
<1>35. CASE ReconcileStep
  BY <1>35, StateValues, <1>23, <1>29 DEF ReconcileStep, ReconcileBegin,
     ReconcileNone, DurableUnchanged
<1>36. CASE ProviderStep
  BY <1>36, <1>29 DEF ProviderStep, ProviderStarts, ProviderEnds,
     DurableUnchanged
<1>37. CASE BarrierStep
  BY <1>37, <1>29 DEF BarrierStep, InstallHold, ReleaseHold,
     DeleteLogicalDialog, BeginSettings, SettingsSwap, SettingsRelease,
     SetSettingsReady, ProviderAuthStart, ProviderAuthCheck,
     ProviderAuthSettles, RowsUnchanged, SettingsFrame, AuthFrame
<1>38. CASE UNCHANGED vars
  BY <1>38, <1>29 DEF vars
<1> QED BY <1>30, <1>31, <1>5, <1>32, <1>33, <1>34, <1>35, <1>36, <1>37,
   <1>24, <1>38 DEF Next

\* message.steer and the commands that answer a wait insert the action that is
\* open.
Outstanding ==
  /\ \A m \in Messages : msgDisp'[m] = "steer_pending" =>
       \/ msgDisp[m] = "steer_pending"
       \/ \E c \in Actions : OpenSteer(c)' /\ actObj'[c] = m
  /\ \A w \in Waits : waitStatus'[w] = "responding" =>
       \/ waitStatus[w] = "responding"
       \/ \E c \in Actions : OpenResponse(c)' /\ actObj'[c] = w

\* No other step hands a message or an answer to the adapter.
LEMMA OutstandingHasAction ==
  ASSUME IInv, [Next]_vars
  PROVE  Outstanding
<1>1. ASSUME NEW d \in Dialogs, NEW m \in Messages, NEW r \in Requests,
             MessageEnqueue(d, m, r)
      PROVE  Outstanding
  BY <1>1 DEF IInv, TypeOK, Outstanding, MessageEnqueue
<1>2. ASSUME NEW r \in Requests, NEW low, RequestCancel(r, low)
      PROVE  Outstanding
  BY <1>2 DEF IInv, TypeOK, Outstanding, RequestCancel
<1>3. ASSUME NEW m \in Messages, NEW a \in Attempts, NEW c \in Actions,
             NEW low, MessageSteer(m, a, c, low)
      PROVE  Outstanding
  BY <1>3 DEF IInv, TypeOK, Outstanding, MessageSteer, InsertAction, OpenSteer,
     OpenResponse, LiveSteer
<1>4. ASSUME NEW w \in Waits, NEW c \in Actions, NEW low, Respond(w, c, low)
      PROVE  Outstanding
  BY <1>4 DEF IInv, TypeOK, Outstanding, Respond, InsertAction, OpenSteer,
     OpenResponse, LiveSteer
<1>5. ASSUME NEW r \in Requests, NEW a \in Attempts, NEW c \in Actions,
             CommitDispatch(r, a, c)
      PROVE  Outstanding
  BY <1>5 DEF IInv, TypeOK, Outstanding, CommitDispatch, InsertAction
<1>6. ASSUME NEW c \in Actions, FinishSteer(c)
      PROVE  Outstanding
  BY <1>6 DEF IInv, TypeOK, Outstanding, FinishSteer, SteerOutstanding
<1>7. ASSUME NEW c \in Actions, FinishResponse(c)
      PROVE  Outstanding
  BY <1>7 DEF IInv, TypeOK, Outstanding, FinishResponse, ResponseStatus
<1>8. ASSUME NEW c \in Actions, NEW w \in Waits, NEW over,
             WaitRequested(c, w, over)
      PROVE  Outstanding
  BY <1>8 DEF IInv, TypeOK, Outstanding, WaitRequested, EventFrame,
     InsertAction, NextWait
<1>9. CASE UNCHANGED <<msgDisp, waitStatus>>
  BY <1>9 DEF Outstanding
<1>10. CASE CommandStep
  BY <1>10, <1>1, <1>2, <1>3, <1>4, <1>9 DEF CommandStep, DialogCreate,
     QueueResume, AttemptStop, AttemptRetry
<1>11. CASE LoopStep
  BY <1>11, <1>5, <1>9 DEF LoopStep, PeekDispatch, BlockPolicy, DropCandidate
<1>12. ASSUME NEW c \in Actions, ClaimAction(c) PROVE Outstanding
  BY <1>12, <1>9 DEF ClaimAction
<1>13. ASSUME NEW c \in Actions, WorkerStep(c) PROVE Outstanding
  BY <1>13, <1>6, <1>7, <1>9 DEF WorkerStep, RequeueDispatch, EnterDispatch,
     IssueTurn, StartReturns, MarkStarted, MarkUnknown, RejectStart,
     CancelReturns, SteerReturns, RespondReturns, TransactionLost,
     FinishAction, DurableUnchanged
<1>14. ASSUME NEW c \in Actions, StreamEnds(c) PROVE Outstanding
  BY <1>14, <1>9 DEF StreamEnds, RegisterStream, StreamClosed, StreamTerminal,
     StreamUnknown, DurableUnchanged, EndFrame
<1>15. ASSUME NEW c \in Actions, StreamEvent(c) PROVE Outstanding
  BY <1>15, <1>8, <1>9 DEF StreamEvent, ToolStarted, ToolCompleted,
     OutputLimit, EnterWaiting, EventFrame
<1>16. CASE ReconcileStep
  BY <1>16, <1>9 DEF ReconcileStep, ReconcileBegin, ReconcileApply,
     ReconcileNone, DurableUnchanged, EndFrame
<1>17. CASE ProviderStep
  BY <1>17, <1>9 DEF ProviderStep, ProviderStarts, ProviderEnds,
     DurableUnchanged
<1>18. CASE BarrierStep
  BY <1>18, <1>9 DEF BarrierStep, InstallHold, ReleaseHold,
     DeleteLogicalDialog, BeginSettings, SettingsSwap, SettingsRelease,
     SetSettingsReady, ProviderAuthStart, ProviderAuthCheck,
     ProviderAuthSettles, RowsUnchanged, SettingsFrame, AuthFrame
<1>19. CASE Restart
  BY <1>19, <1>9 DEF Restart
<1>20. CASE UNCHANGED vars
  BY <1>20, <1>9 DEF vars
<1> QED BY <1>10, <1>11, <1>12, <1>13, <1>14, <1>15, <1>16, <1>17, <1>18,
   <1>19, <1>20 DEF Next

\* What is with the adapter keeps an open action.
LEMMA IntentNext ==
  ASSUME StoreMayFail = FALSE, IInv, ActInv, SteerSlotInv, RowsKept, IntentInv,
         [Next]_vars
  PROVE  IntentInv'
<1>1. OpenKept /\ Outstanding
  BY OpenIsKept, OutstandingHasAction
<1>2. ASSUME NEW c \in Actions, OpenSteer(c) \/ OpenResponse(c)
      PROVE  actObj'[c] = actObj[c]
  <2>1. actStatus[c] # "absent"
    BY <1>2 DEF OpenSteer, OpenResponse, LiveSteer, ActInv
  <2> QED BY <2>1 DEF RowsKept
<1>3. ASSUME NEW m \in Messages, msgDisp'[m] = "steer_pending"
      PROVE  \E c \in Actions : OpenSteer(c)' /\ actObj'[c] = m
  <2>1. CASE msgDisp[m] = "steer_pending"
    <3>1. PICK c \in Actions : OpenSteer(c) /\ actObj[c] = m
      BY <2>1 DEF IntentInv
    <3> QED BY <1>1, <1>2, <1>3, <3>1 DEF OpenKept
  <2> QED BY <1>1, <1>3, <2>1 DEF Outstanding
<1>4. ASSUME NEW w \in Waits, waitStatus'[w] = "responding"
      PROVE  \E c \in Actions : OpenResponse(c)' /\ actObj'[c] = w
  <2>1. CASE waitStatus[w] = "responding"
    <3>1. PICK c \in Actions : OpenResponse(c) /\ actObj[c] = w
      BY <2>1 DEF IntentInv
    <3> QED BY <1>1, <1>2, <1>4, <3>1 DEF OpenKept
  <2> QED BY <1>1, <1>4, <2>1 DEF Outstanding
<1> QED BY <1>3, <1>4 DEF IntentInv

\* The inductive part of NothingIsStranded.
StrandInv == OverInv /\ AttemptHasDriver /\ IntentInv

\* When every transaction of a worker commits, an attempt that goes on has the
\* dispatch that drives it, one that was refused or is unknown is not taken for
\* alive, and what is with the adapter has an action that is open.
THEOREM StrandInvariance ==
  ASSUME StoreMayFail = FALSE
  PROVE  Spec => []StrandInv
<1>1. InitStore => StrandInv
  BY OverInit, DriverInit, IntentInit DEF StrandInv
<1>2. IInv /\ ActInv /\ StageInv /\ RowsInv /\ StrandInv /\ [Next]_vars
      => StrandInv'
  <2> SUFFICES ASSUME IInv, ActInv, StageInv, RowsInv, StrandInv, [Next]_vars
               PROVE  StrandInv'
    OBVIOUS
  <2>1. RowsKept
    BY RowsAreKept
  <2> QED BY <2>1, OverNext, DriverNext, IntentNext DEF StrandInv, RowsInv
<1> QED BY <1>1, <1>2, Invariance, ActInvariance, StageInvariance,
    RowsInvariance, PTL DEF Spec

\* Nothing waits for a goroutine that does not exist: performDispatch, the
\* requeue for a login, reconciliation and recoverStartup never leave an attempt
\* without its driver or a message or wait without its action.  (With a lost
\* transaction the code promises less, see TransactionLost.)
THEOREM NothingStranded ==
  ASSUME StoreMayFail = FALSE
  PROVE  Spec => []NothingIsStranded
<1>1. IInv /\ ActInv /\ StrandInv => NothingIsStranded
  <2> SUFFICES ASSUME IInv, ActInv, StrandInv PROVE IntentHasAction
    BY DEF NothingIsStranded, StrandInv
  <2>1. \A c \in Actions : OpenSteer(c) =>
          actKind[c] = "message.steer" /\ actStatus[c] \in Unresolved
    BY DEF OpenSteer, LiveSteer, ActInv, Outcomes, ReadSteps, Idle, Unresolved
  <2>2. \A c \in Actions : OpenResponse(c) =>
          actKind[c] = "respond" /\ actStatus[c] \in Unresolved
    BY DEF OpenResponse, ActInv, Outcomes, ReadSteps, Idle, Unresolved
  <2> QED BY <2>1, <2>2 DEF StrandInv, IntentInv, IntentHasAction
<1> QED BY <1>1, StrandInvariance, Invariance, ActInvariance, PTL

-----------------------------------------------------------------------------
\* The attempt of a steer.

\* The outcome of the steer is not settled.
OpenControl(c) == actKind[c] = "message.steer" /\ actStatus[c] \in Unresolved

\* The attempt a steer went to keeps the slot for as long as the outcome of the
\* steer is not settled: for ever, when it is unknown.
SteerHeldInv == \A c \in Actions : OpenControl(c) => active = actAtt[c]

\* No action exists at first.
LEMMA SteerHeldInit == InitStore => SteerHeldInv
BY DEF InitStore, SteerHeldInv, OpenControl

\* Its attempt is not ended by a terminal or by reconciliation.
LEMMA OpenControlUnresolved ==
  ASSUME IInv, ActInv, NEW c \in Actions, OpenControl(c)
  PROVE  actAtt[c] \in Attempts /\ UnresolvedControl(actAtt[c])
<1>1. actStatus[c] # "absent"
  BY DEF OpenControl, Unresolved
<1> QED BY <1>1 DEF IInv, RowInv, UnresolvedControl, OpenControl

\* The slot is not given up while the outcome of a steer is open.
LEMMA SteerHeldNext ==
  ASSUME IInv, ActInv, StageInv, SteerHeldInv, [Next]_vars
  PROVE  SteerHeldInv'
<1>1. ASSUME NEW a \in Attempts, NEW c \in Actions, NEW low,
             AttemptStop(a, c, low)
      PROVE  SteerHeldInv'
  BY <1>1 DEF IInv, TypeOK, RowInv, ActInv, SteerHeldInv, OpenControl,
     Unresolved, Outcomes, Idle, AttemptStop, ControlState, InsertAction,
     NextAction
<1>2. ASSUME NEW m \in Messages, NEW a \in Attempts, NEW c \in Actions,
             NEW low, MessageSteer(m, a, c, low)
      PROVE  SteerHeldInv'
  BY <1>2 DEF IInv, TypeOK, RowInv, ActInv, SteerHeldInv, OpenControl,
     Unresolved, Outcomes, Idle, MessageSteer, ControlState, InsertAction,
     NextAction
<1>3. ASSUME NEW w \in Waits, NEW c \in Actions, NEW low, Respond(w, c, low)
      PROVE  SteerHeldInv'
  BY <1>3 DEF IInv, TypeOK, RowInv, ActInv, SteerHeldInv, OpenControl,
     Unresolved, Outcomes, Idle, Respond, ControlState, InsertAction,
     NextAction
<1>4. ASSUME NEW r \in Requests, NEW a \in Attempts, NEW c \in Actions,
             CommitDispatch(r, a, c)
      PROVE  SteerHeldInv'
  BY <1>4, OpenControlUnresolved, AttemptsPositive DEF IInv, TypeOK, RowInv,
     ActInv, SteerHeldInv, OpenControl, Unresolved, Outcomes, Idle,
     CommitDispatch, InsertAction, NextAction, CandidateCurrent, QueueHead,
     Unheld, Queued, NextAttempt, SlotOpen
<1>5. ASSUME NEW c \in Actions, ClaimAction(c)
      PROVE  SteerHeldInv'
  BY <1>5 DEF IInv, TypeOK, RowInv, ActInv, SteerHeldInv, OpenControl,
     Unresolved, Outcomes, Idle, ClaimAction, Claimable, LaneActions
<1>6. ASSUME NEW c \in Actions, RequeueDispatch(c)
      PROVE  SteerHeldInv'
  BY <1>6 DEF IInv, TypeOK, RowInv, ActInv, SteerHeldInv, OpenControl,
     Unresolved, Outcomes, Idle, RequeueDispatch
<1>7. ASSUME NEW c \in Actions, MarkStarted(c)
      PROVE  SteerHeldInv'
  <2>1. /\ actAtt[c] \in Attempts /\ attState[actAtt[c]] # "absent"
        /\ attReq[actAtt[c]] \in Requests
    BY <1>7, PerformedAttempt DEF MarkStarted, Idle
  <2> QED BY <1>7, <2>1 DEF IInv, TypeOK, RowInv, ActInv, SteerHeldInv,
     OpenControl, Unresolved, Outcomes, Idle, MarkStarted
<1>8. ASSUME NEW c \in Actions, MarkUnknown(c)
      PROVE  SteerHeldInv'
  <2>1. /\ actAtt[c] \in Attempts /\ attState[actAtt[c]] # "absent"
        /\ attReq[actAtt[c]] \in Requests
    BY <1>8, PerformedAttempt DEF MarkUnknown, Idle
  <2> QED BY <1>8, <2>1 DEF IInv, TypeOK, RowInv, ActInv, SteerHeldInv,
     OpenControl, Unresolved, Outcomes, Idle, MarkUnknown, SetAttemptUnknown,
     OwnsSlot
<1>9. ASSUME NEW c \in Actions, RejectStart(c)
      PROVE  SteerHeldInv'
  <2>1. /\ actAtt[c] \in Attempts /\ attState[actAtt[c]] # "absent"
        /\ attReq[actAtt[c]] \in Requests
    BY <1>9, PerformedAttempt DEF RejectStart, Idle
  <2> QED BY <1>9, <2>1 DEF IInv, TypeOK, RowInv, ActInv, SteerHeldInv,
     OpenControl, Unresolved, Outcomes, Idle, StageInv, Early, RejectStart,
     OwnsSlot
<1>10. ASSUME NEW c \in Actions, FinishSteer(c)
      PROVE  SteerHeldInv'
  <2>1. /\ actAtt[c] \in Attempts /\ attState[actAtt[c]] # "absent"
        /\ attReq[actAtt[c]] \in Requests
    BY <1>10, PerformedAttempt DEF FinishSteer, Outcomes, Idle
  <2> QED BY <1>10, <2>1, OpenControlUnresolved, IndexGuardsSlot,
     AttemptsPositive DEF IInv, TypeOK, RowInv, ActInv, SteerHeldInv,
     OpenControl, Unresolved, Outcomes, Idle, FinishSteer, SetAttemptUnknown,
     FinishStep, OriginalRequest, SteerOutstanding
<1>11. ASSUME NEW c \in Actions, FinishResponse(c)
      PROVE  SteerHeldInv'
  <2>1. /\ actAtt[c] \in Attempts /\ attState[actAtt[c]] # "absent"
        /\ attReq[actAtt[c]] \in Requests
    BY <1>11, PerformedAttempt DEF FinishResponse, Outcomes, Idle
  <2> QED BY <1>11, <2>1, OpenControlUnresolved, IndexGuardsSlot,
     AttemptsPositive DEF IInv, TypeOK, RowInv, ActInv, SteerHeldInv,
     OpenControl, Unresolved, Outcomes, Idle, FinishResponse,
     SetAttemptUnknown, FinishStep
<1>12. ASSUME NEW c \in Actions, FinishAction(c)
      PROVE  SteerHeldInv'
  BY <1>12 DEF IInv, TypeOK, RowInv, ActInv, SteerHeldInv, OpenControl,
     Unresolved, Outcomes, Idle, FinishAction
<1>13. ASSUME NEW c \in Actions, NEW outcome \in TerminalStates,
             NEW effect \in EffectStates, NEW class,
             StreamTerminal(c, outcome, effect, class)
      PROVE  SteerHeldInv'
  <2>1. /\ actAtt[c] \in Attempts /\ attState[actAtt[c]] # "absent"
        /\ attReq[actAtt[c]] \in Requests
    BY <1>13, PerformedAttempt DEF StreamTerminal, Observing, Idle
  <2> QED BY <1>13, <2>1, OpenControlUnresolved DEF IInv, TypeOK, RowInv, ActInv,
     SteerHeldInv, OpenControl, Unresolved, Outcomes, Idle, StreamTerminal,
     EndFrame, ProjectTerminal, SetAttemptUnknown, TerminalStates, Observing
<1>14. ASSUME NEW c \in Actions, NEW effect \in EffectStates,
             StreamUnknown(c, effect)
      PROVE  SteerHeldInv'
  <2>1. /\ actAtt[c] \in Attempts /\ attState[actAtt[c]] # "absent"
        /\ attReq[actAtt[c]] \in Requests
    BY <1>14, PerformedAttempt DEF StreamUnknown, Observing, Idle
  <2> QED BY <1>14, <2>1 DEF IInv, TypeOK, RowInv, ActInv, SteerHeldInv,
     OpenControl, Unresolved, Outcomes, Idle, StreamUnknown, EndFrame,
     SetAttemptUnknown, Observing
<1>15. ASSUME NEW c \in Actions, NEW over, ToolStarted(c, over)
      PROVE  SteerHeldInv'
  <2>1. /\ actAtt[c] \in Attempts /\ attState[actAtt[c]] # "absent"
        /\ attReq[actAtt[c]] \in Requests
    BY <1>15, PerformedAttempt DEF ToolStarted, InBudget, Observing, Idle
  <2>2. CASE UNCHANGED <<attState, actionVars>>
    BY <1>15, <2>1, <2>2 DEF IInv, TypeOK, RowInv, ActInv, SteerHeldInv,
       OpenControl, Unresolved, Outcomes, Idle, ToolStarted, EventFrame,
       InBudget, Observing
  <2>3. ASSUME NEW s \in Actions,
               InsertAction(s, "attempt.stop", actAtt[c], 0),
               attState[actAtt[c]] \in {"running", "waiting_input"},
               attState' = [attState EXCEPT ![actAtt[c]] = "stopping"]
        PROVE  SteerHeldInv'
    BY <1>15, <2>1, <2>3 DEF IInv, TypeOK, RowInv, ActInv, SteerHeldInv,
       OpenControl, Unresolved, Outcomes, Idle, ToolStarted, EventFrame,
       InBudget, Observing, InsertAction, NextAction
  <2> QED BY <1>15, <2>2, <2>3 DEF ToolStarted, ChargeOutput
<1>16. ASSUME NEW c \in Actions, NEW over, NEW end,
             ToolCompleted(c, over, end)
      PROVE  SteerHeldInv'
  <2>1. /\ actAtt[c] \in Attempts /\ attState[actAtt[c]] # "absent"
        /\ attReq[actAtt[c]] \in Requests
    BY <1>16, PerformedAttempt DEF ToolCompleted, InBudget, Observing, Idle
  <2>2. CASE UNCHANGED <<attState, actionVars>>
    BY <1>16, <2>1, <2>2 DEF IInv, TypeOK, RowInv, ActInv, SteerHeldInv,
       OpenControl, Unresolved, Outcomes, Idle, ToolCompleted, EventFrame,
       InBudget, Observing
  <2>3. ASSUME NEW s \in Actions,
               InsertAction(s, "attempt.stop", actAtt[c], 0),
               attState[actAtt[c]] \in {"running", "waiting_input"},
               attState' = [attState EXCEPT ![actAtt[c]] = "stopping"]
        PROVE  SteerHeldInv'
    BY <1>16, <2>1, <2>3 DEF IInv, TypeOK, RowInv, ActInv, SteerHeldInv,
       OpenControl, Unresolved, Outcomes, Idle, ToolCompleted, EventFrame,
       InBudget, Observing, InsertAction, NextAction
  <2> QED BY <1>16, <2>2, <2>3 DEF ToolCompleted, ChargeOutput
<1>17. ASSUME NEW c \in Actions, OutputLimit(c)
      PROVE  SteerHeldInv'
  <2>1. /\ actAtt[c] \in Attempts /\ attState[actAtt[c]] # "absent"
        /\ attReq[actAtt[c]] \in Requests
    BY <1>17, PerformedAttempt DEF OutputLimit, InBudget, Observing, Idle
  <2>2. CASE UNCHANGED <<attState, actionVars>>
    BY <1>17, <2>1, <2>2 DEF IInv, TypeOK, RowInv, ActInv, SteerHeldInv,
       OpenControl, Unresolved, Outcomes, Idle, OutputLimit, EventFrame,
       InBudget, Observing
  <2>3. ASSUME NEW s \in Actions,
               InsertAction(s, "attempt.stop", actAtt[c], 0),
               attState[actAtt[c]] \in {"running", "waiting_input"},
               attState' = [attState EXCEPT ![actAtt[c]] = "stopping"]
        PROVE  SteerHeldInv'
    BY <1>17, <2>1, <2>3 DEF IInv, TypeOK, RowInv, ActInv, SteerHeldInv,
       OpenControl, Unresolved, Outcomes, Idle, OutputLimit, EventFrame,
       InBudget, Observing, InsertAction, NextAction
  <2> QED BY <1>17, <2>2, <2>3 DEF OutputLimit, ChargeOutput
<1>18. ASSUME NEW c \in Actions, NEW w \in Waits, NEW over,
             WaitRequested(c, w, over)
      PROVE  SteerHeldInv'
  <2>1. /\ actAtt[c] \in Attempts /\ attState[actAtt[c]] # "absent"
        /\ attReq[actAtt[c]] \in Requests
    BY <1>18, PerformedAttempt DEF WaitRequested, InBudget, Observing, Idle
  <2>2. CASE UNCHANGED <<attState, actionVars>>
    BY <1>18, <2>1, <2>2 DEF IInv, TypeOK, RowInv, ActInv, SteerHeldInv,
       OpenControl, Unresolved, Outcomes, Idle, WaitRequested, EventFrame,
       InBudget, Observing, NextWait
  <2>3. ASSUME NEW s \in Actions,
               InsertAction(s, "attempt.stop", actAtt[c], 0),
               attState[actAtt[c]] \in {"running", "waiting_input"},
               attState' = [attState EXCEPT ![actAtt[c]] = "stopping"]
        PROVE  SteerHeldInv'
    BY <1>18, <2>1, <2>3 DEF IInv, TypeOK, RowInv, ActInv, SteerHeldInv,
       OpenControl, Unresolved, Outcomes, Idle, WaitRequested, EventFrame,
       InBudget, Observing, InsertAction, NextAction, NextWait
  <2>4. CASE /\ attState' = [attState EXCEPT ![actAtt[c]] = "waiting_input"]
             /\ UNCHANGED <<attOver, actionVars>>
    BY <1>18, <2>1, <2>4 DEF IInv, TypeOK, RowInv, ActInv, SteerHeldInv,
       OpenControl, Unresolved, Outcomes, Idle, WaitRequested, EventFrame,
       InBudget, Observing, NextWait
  <2> QED BY <1>18, <2>2, <2>3, <2>4 DEF WaitRequested, ChargeOutput
<1>19. ASSUME NEW outcome \in TerminalStates, NEW effect \in EffectStates,
             NEW class, ReconcileApply(outcome, effect, class)
      PROVE  SteerHeldInv'
  <2>1. /\ reconciling \in Attempts /\ attState[reconciling] # "absent"
        /\ attReq[reconciling] \in Requests
    BY <1>19 DEF IInv, TypeOK, RowInv, ReconcileApply
  <2> QED BY <1>19, <2>1, OpenControlUnresolved DEF IInv, TypeOK, RowInv, ActInv,
     SteerHeldInv, OpenControl, Unresolved, Outcomes, Idle, ReconcileApply,
     EndFrame, ProjectTerminal, SetAttemptUnknown, TerminalStates,
     CancelStream
<1>20. CASE Restart
  <2>1. active # 0 => /\ active \in Attempts /\ attState[active] # "absent"
                      /\ attReq[active] \in Requests
    BY DEF IInv, TypeOK, RowInv, SlotInv, ActiveStates
  <2> QED BY <1>20, <2>1 DEF IInv, TypeOK, RowInv, ActInv, SteerHeldInv,
     OpenControl, Unresolved, Outcomes, Idle, Restart, RecoverActive,
     SetAttemptUnknown
<1>21. CASE UNCHANGED <<actionVars, active>>
  BY <1>21 DEF SteerHeldInv, OpenControl
<1>22. CASE CommandStep
  BY <1>22, <1>1, <1>2, <1>3, <1>21 DEF CommandStep, DialogCreate,
     MessageEnqueue, RequestCancel, QueueResume, AttemptRetry
<1>23. CASE LoopStep
  BY <1>23, <1>4, <1>21 DEF LoopStep, PeekDispatch, BlockPolicy, DropCandidate
<1>24. ASSUME NEW c \in Actions, WorkerStep(c) PROVE SteerHeldInv'
  BY <1>24, <1>6, <1>7, <1>8, <1>9, <1>10, <1>11, <1>12, <1>21 DEF WorkerStep,
     EnterDispatch, IssueTurn, StartReturns, CancelReturns, SteerReturns,
     RespondReturns, TransactionLost, DurableUnchanged
<1>25. ASSUME NEW c \in Actions, StreamEnds(c) PROVE SteerHeldInv'
  BY <1>25, <1>13, <1>14, <1>21 DEF StreamEnds, RegisterStream, StreamClosed,
     DurableUnchanged
<1>26. ASSUME NEW c \in Actions, StreamEvent(c) PROVE SteerHeldInv'
  BY <1>26, <1>15, <1>16, <1>17, <1>18, <1>21 DEF StreamEvent, EnterWaiting,
     EventFrame
<1>27. CASE ReconcileStep
  BY <1>27, StateValues, <1>19, <1>21 DEF ReconcileStep, ReconcileBegin,
     ReconcileNone, DurableUnchanged
<1>28. CASE ProviderStep
  BY <1>28, <1>21 DEF ProviderStep, ProviderStarts, ProviderEnds,
     DurableUnchanged
<1>29. CASE BarrierStep
  BY <1>29, <1>21 DEF BarrierStep, InstallHold, ReleaseHold,
     DeleteLogicalDialog, BeginSettings, SettingsSwap, SettingsRelease,
     SetSettingsReady, ProviderAuthStart, ProviderAuthCheck,
     ProviderAuthSettles, RowsUnchanged, SettingsFrame, AuthFrame
<1>30. CASE UNCHANGED vars
  BY <1>30, <1>21 DEF vars
<1> QED BY <1>22, <1>23, <1>5, <1>24, <1>25, <1>26, <1>27, <1>28, <1>29,
   <1>20, <1>30 DEF Next

\* An unknown attempt with such a steer stays unknown.
UnknownHeld ==
  \A c \in Actions : OpenControl(c) /\ attState[actAtt[c]] = "unknown" =>
    attState'[actAtt[c]] = "unknown"

\* Neither a terminal nor reconciliation settles it.
LEMMA UnknownIsHeld ==
  ASSUME IInv, ActInv, StageInv, SteerHeldInv, [Next]_vars
  PROVE  UnknownHeld
<1>1. ASSUME NEW a \in Attempts, NEW c \in Actions, NEW low,
             AttemptStop(a, c, low)
      PROVE  UnknownHeld
  BY <1>1 DEF IInv, TypeOK, RowInv, ActInv, SteerHeldInv, UnknownHeld,
     OpenControl, Unresolved, AttemptStop, ControlState, InsertAction,
     NextAction
<1>2. ASSUME NEW r \in Requests, NEW a \in Attempts, NEW c \in Actions,
             CommitDispatch(r, a, c)
      PROVE  UnknownHeld
  BY <1>2 DEF IInv, TypeOK, RowInv, ActInv, SteerHeldInv, UnknownHeld,
     OpenControl, Unresolved, CommitDispatch, InsertAction, NextAction,
     CandidateCurrent, QueueHead, Unheld, Queued, NextAttempt
<1>3. ASSUME NEW c \in Actions, MarkStarted(c)
      PROVE  UnknownHeld
  <2>1. /\ actAtt[c] \in Attempts /\ attState[actAtt[c]] # "absent"
        /\ attReq[actAtt[c]] \in Requests
    BY <1>3, PerformedAttempt DEF MarkStarted, Idle
  <2> QED BY <1>3, <2>1 DEF IInv, TypeOK, RowInv, ActInv, SteerHeldInv,
     UnknownHeld, OpenControl, Unresolved, MarkStarted
<1>4. ASSUME NEW c \in Actions, MarkUnknown(c)
      PROVE  UnknownHeld
  <2>1. /\ actAtt[c] \in Attempts /\ attState[actAtt[c]] # "absent"
        /\ attReq[actAtt[c]] \in Requests
    BY <1>4, PerformedAttempt DEF MarkUnknown, Idle
  <2> QED BY <1>4, <2>1 DEF IInv, TypeOK, RowInv, ActInv, SteerHeldInv,
     UnknownHeld, OpenControl, Unresolved, MarkUnknown, SetAttemptUnknown,
     OwnsSlot
<1>5. ASSUME NEW c \in Actions, RejectStart(c)
      PROVE  UnknownHeld
  <2>1. /\ actAtt[c] \in Attempts /\ attState[actAtt[c]] # "absent"
        /\ attReq[actAtt[c]] \in Requests
    BY <1>5, PerformedAttempt DEF RejectStart, Idle
  <2> QED BY <1>5, <2>1 DEF IInv, TypeOK, RowInv, ActInv, SteerHeldInv,
     UnknownHeld, OpenControl, Unresolved, StageInv, Early, RejectStart,
     OwnsSlot
<1>6. ASSUME NEW c \in Actions, FinishSteer(c)
      PROVE  UnknownHeld
  <2>1. /\ actAtt[c] \in Attempts /\ attState[actAtt[c]] # "absent"
        /\ attReq[actAtt[c]] \in Requests
    BY <1>6, PerformedAttempt DEF FinishSteer, Outcomes, Idle
  <2> QED BY <1>6, <2>1 DEF IInv, TypeOK, RowInv, ActInv, SteerHeldInv,
     UnknownHeld, OpenControl, Unresolved, FinishSteer, SetAttemptUnknown,
     FinishStep, Outcomes, OriginalRequest, SteerOutstanding
<1>7. ASSUME NEW c \in Actions, FinishResponse(c)
      PROVE  UnknownHeld
  <2>1. /\ actAtt[c] \in Attempts /\ attState[actAtt[c]] # "absent"
        /\ attReq[actAtt[c]] \in Requests
    BY <1>7, PerformedAttempt DEF FinishResponse, Outcomes, Idle
  <2> QED BY <1>7, <2>1 DEF IInv, TypeOK, RowInv, ActInv, SteerHeldInv,
     UnknownHeld, OpenControl, Unresolved, FinishResponse, SetAttemptUnknown,
     FinishStep, Outcomes
<1>8. ASSUME NEW c \in Actions, NEW outcome \in TerminalStates,
             NEW effect \in EffectStates, NEW class,
             StreamTerminal(c, outcome, effect, class)
      PROVE  UnknownHeld
  <2>1. /\ actAtt[c] \in Attempts /\ attState[actAtt[c]] # "absent"
        /\ attReq[actAtt[c]] \in Requests
    BY <1>8, PerformedAttempt DEF StreamTerminal, Observing, Idle
  <2> QED BY <1>8, <2>1, OpenControlUnresolved DEF IInv, TypeOK, RowInv, ActInv,
     SteerHeldInv, UnknownHeld, OpenControl, Unresolved, StreamTerminal,
     EndFrame, ProjectTerminal, SetAttemptUnknown, TerminalStates, Observing
<1>9. ASSUME NEW c \in Actions, NEW effect \in EffectStates,
             StreamUnknown(c, effect)
      PROVE  UnknownHeld
  <2>1. /\ actAtt[c] \in Attempts /\ attState[actAtt[c]] # "absent"
        /\ attReq[actAtt[c]] \in Requests
    BY <1>9, PerformedAttempt DEF StreamUnknown, Observing, Idle
  <2> QED BY <1>9, <2>1 DEF IInv, TypeOK, RowInv, ActInv, SteerHeldInv,
     UnknownHeld, OpenControl, Unresolved, StreamUnknown, EndFrame,
     SetAttemptUnknown, Observing
<1>10. ASSUME NEW c \in Actions, NEW over, ToolStarted(c, over)
      PROVE  UnknownHeld
  <2>1. /\ actAtt[c] \in Attempts /\ attState[actAtt[c]] # "absent"
        /\ attReq[actAtt[c]] \in Requests
    BY <1>10, PerformedAttempt DEF ToolStarted, InBudget, Observing, Idle
  <2>2. CASE UNCHANGED <<attState, actionVars>>
    BY <1>10, <2>1, <2>2 DEF IInv, TypeOK, RowInv, ActInv, SteerHeldInv,
       UnknownHeld, OpenControl, Unresolved, ToolStarted, EventFrame,
       InBudget, Observing
  <2>3. ASSUME NEW s \in Actions,
               InsertAction(s, "attempt.stop", actAtt[c], 0),
               attState[actAtt[c]] \in {"running", "waiting_input"},
               attState' = [attState EXCEPT ![actAtt[c]] = "stopping"]
        PROVE  UnknownHeld
    BY <1>10, <2>1, <2>3 DEF IInv, TypeOK, RowInv, ActInv, SteerHeldInv,
       UnknownHeld, OpenControl, Unresolved, ToolStarted, EventFrame,
       InBudget, Observing, InsertAction, NextAction
  <2> QED BY <1>10, <2>2, <2>3 DEF ToolStarted, ChargeOutput
<1>11. ASSUME NEW c \in Actions, NEW over, NEW end,
             ToolCompleted(c, over, end)
      PROVE  UnknownHeld
  <2>1. /\ actAtt[c] \in Attempts /\ attState[actAtt[c]] # "absent"
        /\ attReq[actAtt[c]] \in Requests
    BY <1>11, PerformedAttempt DEF ToolCompleted, InBudget, Observing, Idle
  <2>2. CASE UNCHANGED <<attState, actionVars>>
    BY <1>11, <2>1, <2>2 DEF IInv, TypeOK, RowInv, ActInv, SteerHeldInv,
       UnknownHeld, OpenControl, Unresolved, ToolCompleted, EventFrame,
       InBudget, Observing
  <2>3. ASSUME NEW s \in Actions,
               InsertAction(s, "attempt.stop", actAtt[c], 0),
               attState[actAtt[c]] \in {"running", "waiting_input"},
               attState' = [attState EXCEPT ![actAtt[c]] = "stopping"]
        PROVE  UnknownHeld
    BY <1>11, <2>1, <2>3 DEF IInv, TypeOK, RowInv, ActInv, SteerHeldInv,
       UnknownHeld, OpenControl, Unresolved, ToolCompleted, EventFrame,
       InBudget, Observing, InsertAction, NextAction
  <2> QED BY <1>11, <2>2, <2>3 DEF ToolCompleted, ChargeOutput
<1>12. ASSUME NEW c \in Actions, OutputLimit(c)
      PROVE  UnknownHeld
  <2>1. /\ actAtt[c] \in Attempts /\ attState[actAtt[c]] # "absent"
        /\ attReq[actAtt[c]] \in Requests
    BY <1>12, PerformedAttempt DEF OutputLimit, InBudget, Observing, Idle
  <2>2. CASE UNCHANGED <<attState, actionVars>>
    BY <1>12, <2>1, <2>2 DEF IInv, TypeOK, RowInv, ActInv, SteerHeldInv,
       UnknownHeld, OpenControl, Unresolved, OutputLimit, EventFrame,
       InBudget, Observing
  <2>3. ASSUME NEW s \in Actions,
               InsertAction(s, "attempt.stop", actAtt[c], 0),
               attState[actAtt[c]] \in {"running", "waiting_input"},
               attState' = [attState EXCEPT ![actAtt[c]] = "stopping"]
        PROVE  UnknownHeld
    BY <1>12, <2>1, <2>3 DEF IInv, TypeOK, RowInv, ActInv, SteerHeldInv,
       UnknownHeld, OpenControl, Unresolved, OutputLimit, EventFrame,
       InBudget, Observing, InsertAction, NextAction
  <2> QED BY <1>12, <2>2, <2>3 DEF OutputLimit, ChargeOutput
<1>13. ASSUME NEW c \in Actions, EnterWaiting(c)
      PROVE  UnknownHeld
  <2>1. /\ actAtt[c] \in Attempts /\ attState[actAtt[c]] # "absent"
        /\ attReq[actAtt[c]] \in Requests
    BY <1>13, PerformedAttempt DEF EnterWaiting, Observing, Idle
  <2> QED BY <1>13, <2>1 DEF IInv, TypeOK, RowInv, ActInv, SteerHeldInv,
     UnknownHeld, OpenControl, Unresolved, EnterWaiting, EventFrame, Observing
<1>14. ASSUME NEW c \in Actions, NEW w \in Waits, NEW over,
             WaitRequested(c, w, over)
      PROVE  UnknownHeld
  <2>1. /\ actAtt[c] \in Attempts /\ attState[actAtt[c]] # "absent"
        /\ attReq[actAtt[c]] \in Requests
    BY <1>14, PerformedAttempt DEF WaitRequested, InBudget, Observing, Idle
  <2>2. CASE UNCHANGED <<attState, actionVars>>
    BY <1>14, <2>1, <2>2 DEF IInv, TypeOK, RowInv, ActInv, SteerHeldInv,
       UnknownHeld, OpenControl, Unresolved, WaitRequested, EventFrame,
       InBudget, Observing, NextWait
  <2>3. ASSUME NEW s \in Actions,
               InsertAction(s, "attempt.stop", actAtt[c], 0),
               attState[actAtt[c]] \in {"running", "waiting_input"},
               attState' = [attState EXCEPT ![actAtt[c]] = "stopping"]
        PROVE  UnknownHeld
    BY <1>14, <2>1, <2>3 DEF IInv, TypeOK, RowInv, ActInv, SteerHeldInv,
       UnknownHeld, OpenControl, Unresolved, WaitRequested, EventFrame,
       InBudget, Observing, InsertAction, NextAction, NextWait
  <2>4. CASE /\ attState' = [attState EXCEPT ![actAtt[c]] = "waiting_input"]
             /\ UNCHANGED <<attOver, actionVars>>
    BY <1>14, <2>1, <2>4 DEF IInv, TypeOK, RowInv, ActInv, SteerHeldInv,
       UnknownHeld, OpenControl, Unresolved, WaitRequested, EventFrame,
       InBudget, Observing, NextWait
  <2> QED BY <1>14, <2>2, <2>3, <2>4 DEF WaitRequested, ChargeOutput
<1>15. ASSUME NEW outcome \in TerminalStates, NEW effect \in EffectStates,
             NEW class, ReconcileApply(outcome, effect, class)
      PROVE  UnknownHeld
  <2>1. /\ reconciling \in Attempts /\ attState[reconciling] # "absent"
        /\ attReq[reconciling] \in Requests
    BY <1>15 DEF IInv, TypeOK, RowInv, ReconcileApply
  <2> QED BY <1>15, <2>1, OpenControlUnresolved DEF IInv, TypeOK, RowInv, ActInv,
     SteerHeldInv, UnknownHeld, OpenControl, Unresolved, ReconcileApply,
     EndFrame, ProjectTerminal, SetAttemptUnknown, TerminalStates,
     CancelStream
<1>16. CASE Restart
  <2>1. active # 0 => /\ active \in Attempts /\ attState[active] # "absent"
                      /\ attReq[active] \in Requests
    BY DEF IInv, TypeOK, RowInv, SlotInv, ActiveStates
  <2> QED BY <1>16, <2>1 DEF IInv, TypeOK, RowInv, ActInv, SteerHeldInv,
     UnknownHeld, OpenControl, Unresolved, Restart, RecoverActive,
     SetAttemptUnknown
<1>17. CASE UNCHANGED attState
  BY <1>17 DEF UnknownHeld
<1>18. CASE CommandStep
  BY <1>18, <1>1, <1>17 DEF CommandStep, DialogCreate, MessageEnqueue,
     RequestCancel, QueueResume, AttemptRetry, MessageSteer, Respond
<1>19. CASE LoopStep
  BY <1>19, <1>2, <1>17 DEF LoopStep, PeekDispatch, BlockPolicy, DropCandidate
<1>20. ASSUME NEW c \in Actions, ClaimAction(c) PROVE UnknownHeld
  BY <1>20, <1>17 DEF ClaimAction
<1>21. ASSUME NEW c \in Actions, WorkerStep(c) PROVE UnknownHeld
  BY <1>21, <1>3, <1>4, <1>5, <1>6, <1>7, <1>17 DEF WorkerStep,
     RequeueDispatch, EnterDispatch, IssueTurn, StartReturns, CancelReturns,
     SteerReturns, RespondReturns, TransactionLost, FinishAction,
     DurableUnchanged
<1>22. ASSUME NEW c \in Actions, StreamEnds(c) PROVE UnknownHeld
  BY <1>22, <1>8, <1>9, <1>17 DEF StreamEnds, RegisterStream, StreamClosed,
     DurableUnchanged
<1>23. ASSUME NEW c \in Actions, StreamEvent(c) PROVE UnknownHeld
  BY <1>23, <1>10, <1>11, <1>12, <1>13, <1>14 DEF StreamEvent
<1>24. CASE ReconcileStep
  BY <1>24, StateValues, <1>15, <1>17 DEF ReconcileStep, ReconcileBegin,
     ReconcileNone, DurableUnchanged
<1>25. CASE ProviderStep
  BY <1>25, <1>17 DEF ProviderStep, ProviderStarts, ProviderEnds,
     DurableUnchanged
<1>26. CASE BarrierStep
  BY <1>26, <1>17 DEF BarrierStep, InstallHold, ReleaseHold,
     DeleteLogicalDialog, BeginSettings, SettingsSwap, SettingsRelease,
     SetSettingsReady, ProviderAuthStart, ProviderAuthCheck,
     ProviderAuthSettles, RowsUnchanged, SettingsFrame, AuthFrame
<1>27. CASE UNCHANGED vars
  BY <1>27, <1>17 DEF vars
<1> QED BY <1>18, <1>19, <1>20, <1>21, <1>22, <1>23, <1>24, <1>25, <1>26,
   <1>16, <1>27 DEF Next

-----------------------------------------------------------------------------
\* The steps of a steer.

\* The outcome of the steer is unknown, or about to be recorded as unknown.
LostSteer(c) ==
  /\ actKind[c] = "message.steer"
  /\ actStatus[c] = "unknown" \/ pc[c] = "finish_unk"

\* The adapter has answered that it took the message, or that it may have.
TookSteer(c) ==
  /\ actKind[c] = "message.steer"
  /\ pc[c] \in {"applied", "uncertain", "invalid"}

\* The step settles no steer and begins none.
SteersStand ==
  /\ UNCHANGED <<msgDisp, delivered>>
  /\ \A c \in Actions :
       /\ LiveSteer(c)' => LiveSteer(c)
       /\ LostSteer(c)' => LostSteer(c)
       /\ TookSteer(c) => TookSteer(c)'
       /\ actKind[c] = "message.steer" /\ actStatus[c] = "unknown"
          => actKind'[c] = "message.steer" /\ actStatus'[c] = "unknown"

\* The steps that matter to a steer when every transaction commits.
SteerStep ==
  \/ SteersStand
  \/ \E d \in Dialogs, m \in Messages, r \in Requests : MessageEnqueue(d, m, r)
  \/ \E r \in Requests, low \in StorageLow : RequestCancel(r, low)
  \/ \E m \in Messages, a \in Attempts, c \in Actions, low \in StorageLow :
       MessageSteer(m, a, c, low)
  \/ \E r \in Requests, a \in Attempts, c \in Actions : CommitDispatch(r, a, c)
  \/ \E c \in Actions : SteerReturns(c) \/ FinishSteer(c)
  \/ Restart

\* The other steps leave every steer as it stands.
LEMMA StepOfSteer ==
  ASSUME StoreMayFail = FALSE, IInv, ActInv, [Next]_vars
  PROVE  SteerStep
<1>1. ASSUME NEW d \in Dialogs, NEW m \in Messages, NEW r \in Requests,
             MessageEnqueue(d, m, r)
      PROVE  SteerStep
  BY <1>1 DEF SteerStep
<1>2. ASSUME NEW r \in Requests, NEW low \in StorageLow, RequestCancel(r, low)
      PROVE  SteerStep
  BY <1>2 DEF SteerStep
<1>3. ASSUME NEW a \in Attempts, NEW c \in Actions, NEW low \in StorageLow,
             AttemptStop(a, c, low)
      PROVE  SteerStep
  BY <1>3 DEF IInv, TypeOK, RowInv, ActInv, ReadSteps, SteerStep, SteersStand,
     LiveSteer, LostSteer, TookSteer, Outcomes, Idle, AttemptStop,
     InsertAction, NextAction
<1>4. ASSUME NEW m \in Messages, NEW a \in Attempts, NEW c \in Actions,
             NEW low \in StorageLow, MessageSteer(m, a, c, low)
      PROVE  SteerStep
  BY <1>4 DEF SteerStep
<1>5. ASSUME NEW w \in Waits, NEW c \in Actions, NEW low \in StorageLow,
             Respond(w, c, low)
      PROVE  SteerStep
  BY <1>5 DEF IInv, TypeOK, RowInv, ActInv, ReadSteps, SteerStep, SteersStand,
     LiveSteer, LostSteer, TookSteer, Outcomes, Idle, Respond, InsertAction,
     NextAction
<1>6. ASSUME NEW r \in Requests, NEW a \in Attempts, NEW c \in Actions,
             CommitDispatch(r, a, c)
      PROVE  SteerStep
  BY <1>6 DEF SteerStep
<1>7. ASSUME NEW c \in Actions, ClaimAction(c)
      PROVE  SteerStep
  BY <1>7 DEF IInv, TypeOK, RowInv, ActInv, ReadSteps, SteerStep, SteersStand,
     LiveSteer, LostSteer, TookSteer, Outcomes, Idle, ClaimAction, Claimable,
     LaneActions
<1>8. ASSUME NEW c \in Actions, RequeueDispatch(c)
      PROVE  SteerStep
  BY <1>8 DEF IInv, TypeOK, RowInv, ActInv, ReadSteps, SteerStep, SteersStand,
     LiveSteer, LostSteer, TookSteer, Outcomes, Idle, RequeueDispatch
<1>9. ASSUME NEW c \in Actions, EnterDispatch(c)
      PROVE  SteerStep
  BY <1>9 DEF IInv, TypeOK, RowInv, ActInv, ReadSteps, SteerStep, SteersStand,
     LiveSteer, LostSteer, TookSteer, Outcomes, Idle, EnterDispatch,
     DurableUnchanged
<1>10. ASSUME NEW c \in Actions, StartReturns(c)
      PROVE  SteerStep
  BY <1>10 DEF IInv, TypeOK, RowInv, ActInv, ReadSteps, SteerStep, SteersStand,
     LiveSteer, LostSteer, TookSteer, Outcomes, Idle, StartReturns,
     DurableUnchanged, GateInv
<1>11. ASSUME NEW c \in Actions, MarkStarted(c)
      PROVE  SteerStep
  BY <1>11 DEF IInv, TypeOK, RowInv, ActInv, ReadSteps, SteerStep, SteersStand,
     LiveSteer, LostSteer, TookSteer, Outcomes, Idle, MarkStarted,
     DurableUnchanged, GateInv
<1>12. ASSUME NEW c \in Actions, MarkUnknown(c)
      PROVE  SteerStep
  BY <1>12 DEF IInv, TypeOK, RowInv, ActInv, ReadSteps, SteerStep, SteersStand,
     LiveSteer, LostSteer, TookSteer, Outcomes, Idle, MarkUnknown
<1>13. ASSUME NEW c \in Actions, RejectStart(c)
      PROVE  SteerStep
  BY <1>13 DEF IInv, TypeOK, RowInv, ActInv, ReadSteps, SteerStep, SteersStand,
     LiveSteer, LostSteer, TookSteer, Outcomes, Idle, RejectStart
<1>14. ASSUME NEW c \in Actions, CancelReturns(c)
      PROVE  SteerStep
  BY <1>14 DEF IInv, TypeOK, RowInv, ActInv, ReadSteps, SteerStep, SteersStand,
     LiveSteer, LostSteer, TookSteer, Outcomes, Idle, CancelReturns,
     DurableUnchanged
<1>15. ASSUME NEW c \in Actions, SteerReturns(c)
      PROVE  SteerStep
  BY <1>15 DEF SteerStep
<1>16. ASSUME NEW c \in Actions, RespondReturns(c)
      PROVE  SteerStep
  BY <1>16 DEF IInv, TypeOK, RowInv, ActInv, ReadSteps, SteerStep, SteersStand,
     LiveSteer, LostSteer, TookSteer, Outcomes, Idle, RespondReturns,
     DurableUnchanged
<1>17. ASSUME NEW c \in Actions, FinishSteer(c)
      PROVE  SteerStep
  BY <1>17 DEF SteerStep
<1>18. ASSUME NEW c \in Actions, FinishResponse(c)
      PROVE  SteerStep
  BY <1>18 DEF IInv, TypeOK, RowInv, ActInv, ReadSteps, SteerStep, SteersStand,
     LiveSteer, LostSteer, TookSteer, Outcomes, Idle, FinishResponse,
     FinishStep
<1>19. ASSUME NEW c \in Actions, TransactionLost(c)
      PROVE  SteerStep
  BY <1>19 DEF TransactionLost
<1>20. ASSUME NEW c \in Actions, FinishAction(c)
      PROVE  SteerStep
  BY <1>20 DEF IInv, TypeOK, RowInv, ActInv, ReadSteps, SteerStep, SteersStand,
     LiveSteer, LostSteer, TookSteer, Outcomes, Idle, FinishAction
<1>21. ASSUME NEW c \in Actions, RegisterStream(c)
      PROVE  SteerStep
  BY <1>21 DEF IInv, TypeOK, RowInv, ActInv, ReadSteps, SteerStep, SteersStand,
     LiveSteer, LostSteer, TookSteer, Outcomes, Idle, RegisterStream,
     DurableUnchanged
<1>22. ASSUME NEW c \in Actions, StreamClosed(c)
      PROVE  SteerStep
  BY <1>22 DEF IInv, TypeOK, RowInv, ActInv, ReadSteps, SteerStep, SteersStand,
     LiveSteer, LostSteer, TookSteer, Outcomes, Idle, StreamClosed,
     DurableUnchanged
<1>23. ASSUME NEW c \in Actions, NEW outcome \in TerminalStates,
             NEW effect \in EffectStates, NEW class,
             StreamTerminal(c, outcome, effect, class)
      PROVE  SteerStep
  BY <1>23 DEF IInv, TypeOK, RowInv, ActInv, ReadSteps, SteerStep, SteersStand,
     LiveSteer, LostSteer, TookSteer, Outcomes, Idle, StreamTerminal,
     EndFrame, Observing
<1>24. ASSUME NEW c \in Actions, NEW effect \in EffectStates,
             StreamUnknown(c, effect)
      PROVE  SteerStep
  BY <1>24 DEF IInv, TypeOK, RowInv, ActInv, ReadSteps, SteerStep, SteersStand,
     LiveSteer, LostSteer, TookSteer, Outcomes, Idle, StreamUnknown, EndFrame,
     Observing
<1>25. ASSUME NEW outcome \in TerminalStates, NEW effect \in EffectStates,
             NEW class, ReconcileApply(outcome, effect, class)
      PROVE  SteerStep
  BY <1>25 DEF IInv, TypeOK, RowInv, ActInv, ReadSteps, SteerStep, SteersStand,
     LiveSteer, LostSteer, TookSteer, Outcomes, Idle, ReconcileApply,
     EndFrame, CancelStream
<1>26. CASE Restart
  BY <1>26 DEF SteerStep
<1>27. ASSUME NEW c \in Actions, NEW over, ToolStarted(c, over)
      PROVE  SteerStep
  <2>1. /\ actAtt[c] \in Attempts /\ attState[actAtt[c]] # "absent"
        /\ attReq[actAtt[c]] \in Requests
    BY <1>27, PerformedAttempt DEF ToolStarted, InBudget, Observing, Idle
  <2>2. CASE UNCHANGED <<attState, actionVars>>
    BY <1>27, <2>1, <2>2 DEF IInv, TypeOK, RowInv, ActInv, ReadSteps, SteerStep,
       SteersStand, LiveSteer, LostSteer, TookSteer, Outcomes, Idle,
       ToolStarted, EventFrame, InBudget, Observing
  <2>3. ASSUME NEW s \in Actions,
               InsertAction(s, "attempt.stop", actAtt[c], 0),
               attState[actAtt[c]] \in {"running", "waiting_input"},
               attState' = [attState EXCEPT ![actAtt[c]] = "stopping"]
        PROVE  SteerStep
    BY <1>27, <2>1, <2>3 DEF IInv, TypeOK, RowInv, ActInv, ReadSteps, SteerStep,
       SteersStand, LiveSteer, LostSteer, TookSteer, Outcomes, Idle,
       ToolStarted, EventFrame, InBudget, Observing, InsertAction, NextAction
  <2> QED BY <1>27, <2>2, <2>3 DEF ToolStarted, ChargeOutput
<1>28. ASSUME NEW c \in Actions, NEW over, NEW end,
             ToolCompleted(c, over, end)
      PROVE  SteerStep
  <2>1. /\ actAtt[c] \in Attempts /\ attState[actAtt[c]] # "absent"
        /\ attReq[actAtt[c]] \in Requests
    BY <1>28, PerformedAttempt DEF ToolCompleted, InBudget, Observing, Idle
  <2>2. CASE UNCHANGED <<attState, actionVars>>
    BY <1>28, <2>1, <2>2 DEF IInv, TypeOK, RowInv, ActInv, ReadSteps, SteerStep,
       SteersStand, LiveSteer, LostSteer, TookSteer, Outcomes, Idle,
       ToolCompleted, EventFrame, InBudget, Observing
  <2>3. ASSUME NEW s \in Actions,
               InsertAction(s, "attempt.stop", actAtt[c], 0),
               attState[actAtt[c]] \in {"running", "waiting_input"},
               attState' = [attState EXCEPT ![actAtt[c]] = "stopping"]
        PROVE  SteerStep
    BY <1>28, <2>1, <2>3 DEF IInv, TypeOK, RowInv, ActInv, ReadSteps, SteerStep,
       SteersStand, LiveSteer, LostSteer, TookSteer, Outcomes, Idle,
       ToolCompleted, EventFrame, InBudget, Observing, InsertAction,
       NextAction
  <2> QED BY <1>28, <2>2, <2>3 DEF ToolCompleted, ChargeOutput
<1>29. ASSUME NEW c \in Actions, OutputLimit(c)
      PROVE  SteerStep
  <2>1. /\ actAtt[c] \in Attempts /\ attState[actAtt[c]] # "absent"
        /\ attReq[actAtt[c]] \in Requests
    BY <1>29, PerformedAttempt DEF OutputLimit, InBudget, Observing, Idle
  <2>2. CASE UNCHANGED <<attState, actionVars>>
    BY <1>29, <2>1, <2>2 DEF IInv, TypeOK, RowInv, ActInv, ReadSteps, SteerStep,
       SteersStand, LiveSteer, LostSteer, TookSteer, Outcomes, Idle,
       OutputLimit, EventFrame, InBudget, Observing
  <2>3. ASSUME NEW s \in Actions,
               InsertAction(s, "attempt.stop", actAtt[c], 0),
               attState[actAtt[c]] \in {"running", "waiting_input"},
               attState' = [attState EXCEPT ![actAtt[c]] = "stopping"]
        PROVE  SteerStep
    BY <1>29, <2>1, <2>3 DEF IInv, TypeOK, RowInv, ActInv, ReadSteps, SteerStep,
       SteersStand, LiveSteer, LostSteer, TookSteer, Outcomes, Idle,
       OutputLimit, EventFrame, InBudget, Observing, InsertAction, NextAction
  <2> QED BY <1>29, <2>2, <2>3 DEF OutputLimit, ChargeOutput
<1>30. ASSUME NEW c \in Actions, NEW w \in Waits, NEW over,
             WaitRequested(c, w, over)
      PROVE  SteerStep
  <2>1. /\ actAtt[c] \in Attempts /\ attState[actAtt[c]] # "absent"
        /\ attReq[actAtt[c]] \in Requests
    BY <1>30, PerformedAttempt DEF WaitRequested, InBudget, Observing, Idle
  <2>2. CASE UNCHANGED <<attState, actionVars>>
    BY <1>30, <2>1, <2>2 DEF IInv, TypeOK, RowInv, ActInv, ReadSteps, SteerStep,
       SteersStand, LiveSteer, LostSteer, TookSteer, Outcomes, Idle,
       WaitRequested, EventFrame, InBudget, Observing, NextWait
  <2>3. ASSUME NEW s \in Actions,
               InsertAction(s, "attempt.stop", actAtt[c], 0),
               attState[actAtt[c]] \in {"running", "waiting_input"},
               attState' = [attState EXCEPT ![actAtt[c]] = "stopping"]
        PROVE  SteerStep
    BY <1>30, <2>1, <2>3 DEF IInv, TypeOK, RowInv, ActInv, ReadSteps, SteerStep,
       SteersStand, LiveSteer, LostSteer, TookSteer, Outcomes, Idle,
       WaitRequested, EventFrame, InBudget, Observing, InsertAction,
       NextAction, NextWait
  <2>4. CASE /\ attState' = [attState EXCEPT ![actAtt[c]] = "waiting_input"]
             /\ UNCHANGED <<attOver, actionVars>>
    BY <1>30, <2>1, <2>4 DEF IInv, TypeOK, RowInv, ActInv, ReadSteps, SteerStep,
       SteersStand, LiveSteer, LostSteer, TookSteer, Outcomes, Idle,
       WaitRequested, EventFrame, InBudget, Observing, NextWait
  <2> QED BY <1>30, <2>2, <2>3, <2>4 DEF WaitRequested, ChargeOutput
<1>31. CASE UNCHANGED <<actionVars, pc, msgDisp, delivered>>
  BY <1>31 DEF SteerStep, SteersStand, LiveSteer, LostSteer, TookSteer
<1>32. CASE CommandStep
  BY <1>32, <1>1, <1>2, <1>3, <1>4, <1>5, <1>31 DEF CommandStep, DialogCreate,
     QueueResume, AttemptRetry
<1>33. CASE LoopStep
  BY <1>33, <1>6, <1>31 DEF LoopStep, PeekDispatch, BlockPolicy, DropCandidate
<1>34. ASSUME NEW c \in Actions, WorkerStep(c) PROVE SteerStep
  BY <1>34, <1>8, <1>9, <1>10, <1>11, <1>12, <1>13, <1>14, <1>15, <1>16,
     <1>17, <1>18, <1>19, <1>20, <1>31 DEF WorkerStep, IssueTurn,
     DurableUnchanged
<1>35. ASSUME NEW c \in Actions, StreamEnds(c) PROVE SteerStep
  BY <1>35, <1>21, <1>22, <1>23, <1>24 DEF StreamEnds
<1>36. ASSUME NEW c \in Actions, StreamEvent(c) PROVE SteerStep
  BY <1>36, <1>27, <1>28, <1>29, <1>30, <1>31 DEF StreamEvent, EnterWaiting,
     EventFrame
<1>37. CASE ReconcileStep
  BY <1>37, StateValues, <1>25, <1>31 DEF ReconcileStep, ReconcileBegin,
     ReconcileNone, DurableUnchanged
<1>38. CASE ProviderStep
  BY <1>38, <1>31 DEF ProviderStep, ProviderStarts, ProviderEnds,
     DurableUnchanged
<1>39. CASE BarrierStep
  BY <1>39, <1>31 DEF BarrierStep, InstallHold, ReleaseHold,
     DeleteLogicalDialog, BeginSettings, SettingsSwap, SettingsRelease,
     SetSettingsReady, ProviderAuthStart, ProviderAuthCheck,
     ProviderAuthSettles, RowsUnchanged, SettingsFrame, AuthFrame
<1>40. CASE UNCHANGED vars
  BY <1>40, <1>31 DEF vars
<1> QED BY <1>32, <1>33, <1>7, <1>34, <1>35, <1>36, <1>37, <1>38, <1>39,
   <1>26, <1>40 DEF Next

\* A steer that is under way or whose outcome is unknown is open, and its rows
\* are kept.
LEMMA SteerRows ==
  ASSUME IInv, ActInv, ObjectInv, RowsKept,
         NEW c \in Actions, LiveSteer(c) \/ LostSteer(c)
  PROVE  /\ OpenControl(c) /\ actAtt[c] \in Attempts /\ actObj[c] \in Messages
         /\ msgDisp[actObj[c]] # "absent"
         /\ actKind'[c] = actKind[c] /\ actAtt'[c] = actAtt[c]
         /\ actObj'[c] = actObj[c]
<1>1. /\ actKind[c] = "message.steer"
      /\ actStatus[c] \in {"pending", "inflight", "unknown"}
  BY DEF LiveSteer, LostSteer, ActInv, Outcomes, ReadSteps, Idle
<1>2. OpenControl(c) /\ actStatus[c] # "absent"
  BY <1>1 DEF OpenControl, Unresolved
<1> QED BY <1>1, <1>2 DEF IInv, RowInv, RowsKept, ObjectInv, ObjectOk

\* What finishSteer does to its message and attempt.
LEMMA SteerFinished ==
  ASSUME IInv, ActInv, SteerSlotInv, NEW c \in Actions, FinishSteer(c)
  PROVE  /\ LiveSteer(c) /\ ~LiveSteer(c)'
         /\ UNCHANGED <<actionVars, delivered>>
         /\ \A d \in Actions : d # c => pc'[d] = pc[d]
         /\ pc'[c] = "finish_unk" <=> pc[c] = "uncertain"
         /\ \A m \in Messages : m # actObj[c] => msgDisp'[m] = msgDisp[m]
         /\ msgDisp[actObj[c]] # "steer_pending" => msgDisp' = msgDisp
         /\ msgDisp[actObj[c]] = "steer_pending" =>
              \/ /\ pc[c] \in {"fallback", "rejected"}
                 /\ msgDisp'[actObj[c]] = "queued"
              \/ /\ pc[c] \in {"applied", "uncertain"}
                 /\ msgDisp'[actObj[c]] \in {"applied", "unknown"}
                 /\ \E r \in Requests : /\ OriginalRequest(actObj[c], r)
                                        /\ reqStatus'[r] # "queued"
         /\ pc[c] = "uncertain" /\ msgDisp[actObj[c]] = "steer_pending" =>
              attState'[actAtt[c]] = "unknown"
<1>1. /\ LiveSteer(c) /\ actKind[c] = "message.steer" /\ pc[c] \in Outcomes
      /\ actObj[c] \in Messages
  BY DEF FinishSteer, LiveSteer, IInv, RowInv
<1>2. /\ actAtt[c] \in Attempts /\ attState[actAtt[c]] # "absent"
      /\ attReq[actAtt[c]] \in Requests /\ actStatus[c] = "inflight"
  BY <1>1, PerformedAttempt DEF Outcomes, Idle, ActInv, ReadSteps
<1>3. OneActiveIndexAllows(actAtt[c])
  BY <1>1, IndexAllowed
<1>4. /\ UNCHANGED <<actionVars, delivered>>
      /\ pc' = [pc EXCEPT ![c] = FinishStep(pc[c])]
  BY DEF FinishSteer
<1>5. pc'[c] = FinishStep(pc[c]) /\ \A d \in Actions : d # c => pc'[d] = pc[d]
  BY <1>4 DEF IInv, TypeOK
<1>6. /\ pc'[c] = "finish_unk" <=> pc[c] = "uncertain"
      /\ pc'[c] \in {"finish_ack", "finish_rej", "finish_unk"}
  BY <1>1, <1>5 DEF FinishStep, Outcomes
<1>7. ~LiveSteer(c)'
  BY <1>2, <1>4, <1>6 DEF LiveSteer, Outcomes
<1>8. CASE msgDisp[actObj[c]] # "steer_pending"
  BY <1>1, <1>3, <1>4, <1>5, <1>6, <1>7, <1>8 DEF FinishSteer, SteerOutstanding
<1>9. CASE msgDisp[actObj[c]] = "steer_pending" /\ pc[c] \in {"fallback", "rejected"}
  <2>1. msgDisp' = [msgDisp EXCEPT ![actObj[c]] = "queued"]
    BY <1>9 DEF FinishSteer, SteerOutstanding
  <2> QED BY <1>1, <1>4, <1>5, <1>6, <1>7, <1>9, <2>1 DEF IInv, TypeOK
<1>10. CASE msgDisp[actObj[c]] = "steer_pending" /\ pc[c] = "applied"
  <2>1. /\ msgDisp' = [msgDisp EXCEPT ![actObj[c]] = "applied"]
        /\ \E r \in Requests : /\ OriginalRequest(actObj[c], r)
                               /\ reqStatus' = [reqStatus EXCEPT ![r] = "completed"]
    BY <1>10 DEF FinishSteer, SteerOutstanding
  <2>2. \E r \in Requests : OriginalRequest(actObj[c], r) /\ reqStatus'[r] # "queued"
    BY <2>1 DEF IInv, TypeOK
  <2> QED BY <1>1, <1>4, <1>5, <1>6, <1>7, <1>10, <2>1, <2>2 DEF IInv, TypeOK
<1>11. CASE msgDisp[actObj[c]] = "steer_pending" /\ pc[c] = "uncertain"
  <2>1. PICK r \in Requests :
          /\ OriginalRequest(actObj[c], r)
          /\ SetAttemptUnknown(actAtt[c], "unknown",
                               [reqStatus EXCEPT ![r] = "unknown"])
    BY <1>3, <1>11 DEF FinishSteer, SteerOutstanding
  <2>2. msgDisp' = [msgDisp EXCEPT ![actObj[c]] = "unknown"]
    BY <1>3, <1>11 DEF FinishSteer, SteerOutstanding
  <2>3. reqStatus'[r] # "queued" /\ attState'[actAtt[c]] = "unknown"
    BY <1>2, <2>1 DEF SetAttemptUnknown, IInv, TypeOK
  <2> QED BY <1>1, <1>4, <1>5, <1>6, <1>7, <1>11, <2>1, <2>2, <2>3 DEF IInv, TypeOK
<1> QED BY <1>1, <1>8, <1>9, <1>10, <1>11 DEF Outcomes

\* What is known of the message of a steer.  When the outcome is lost, the
\* attempt is unknown or the message is settled.  While the steer is under way,
\* its message is not in the queue as if nothing had happened, there is no second
\* steer of it, and it was never started.
LostKnown ==
  \A c \in Actions : LostSteer(c) =>
    attState[actAtt[c]] = "unknown" \/ msgDisp[actObj[c]] \notin WaitingDisp

LiveUnqueued ==
  \A c \in Actions : LiveSteer(c) => msgDisp[actObj[c]] # "queued"

OneSteer ==
  \A c, d \in Actions :
    /\ LiveSteer(c) /\ (LiveSteer(d) \/ LostSteer(d))
    /\ actObj[c] = actObj[d] /\ msgDisp[actObj[c]] = "steer_pending"
    => c = d

LiveFresh ==
  \A c \in Actions : LiveSteer(c) =>
    /\ \A a \in Attempts : attState[a] # "absent" => MessageOfAttempt(a) # actObj[c]
    /\ \A r \in Requests : reqMsg[r] = actObj[c] /\ reqStatus[r] = "queued"
                           => msgDisp[actObj[c]] = "steer_pending"

SteerInv == LostKnown /\ LiveUnqueued /\ OneSteer /\ LiveFresh

\* No action exists at first.
LEMMA SteerInit == InitStore => SteerInv
BY DEF InitStore, SteerInv, LostKnown, LiveUnqueued, OneSteer, LiveFresh,
   LiveSteer, LostSteer, Idle, Outcomes

\* Where a steer under way comes from: message.steer, or it was under way before
\* and its message is the same as before or was cancelled.
LEMMA SteerOrigin ==
  ASSUME StoreMayFail = FALSE, IInv, ActInv, SteerSlotInv, ObjectInv, RowsKept,
         SteerInv, [Next]_vars, NEW c \in Actions, LiveSteer(c)'
  PROVE  \/ /\ LiveSteer(c)
            /\ msgDisp'[actObj[c]] \in {msgDisp[actObj[c]], "cancelled"}
         \/ \E m \in Messages, a \in Attempts, low \in StorageLow :
              MessageSteer(m, a, c, low)
<1>1. SteerStep
  BY StepOfSteer
<1>2. CASE SteersStand
  BY <1>2 DEF SteersStand
<1>3. ASSUME NEW d \in Dialogs, NEW m \in Messages, NEW r \in Requests,
             MessageEnqueue(d, m, r)
      PROVE  LiveSteer(c) /\ msgDisp'[actObj[c]] = msgDisp[actObj[c]]
  <2>1. LiveSteer(c)
    BY <1>3 DEF MessageEnqueue, LiveSteer
  <2>2. actObj[c] \in Messages /\ msgDisp[actObj[c]] # "absent"
    BY <2>1, SteerRows
  <2> QED BY <1>3, <2>1, <2>2 DEF MessageEnqueue, NextMessage, IInv, TypeOK
<1>4. ASSUME NEW r \in Requests, NEW low \in StorageLow, RequestCancel(r, low)
      PROVE  /\ LiveSteer(c)
             /\ msgDisp'[actObj[c]] \in {msgDisp[actObj[c]], "cancelled"}
  BY <1>4 DEF RequestCancel, LiveSteer, IInv, TypeOK, RowInv
<1>5. ASSUME NEW m \in Messages, NEW a \in Attempts, NEW d \in Actions,
             NEW low \in StorageLow, MessageSteer(m, a, d, low), d # c
      PROVE  LiveSteer(c) /\ msgDisp'[actObj[c]] = msgDisp[actObj[c]]
  <2>1. LiveSteer(c)
    BY <1>5 DEF MessageSteer, InsertAction, LiveSteer, IInv, TypeOK
  <2> QED BY <1>5, <2>1 DEF MessageSteer, IInv, TypeOK, SteerInv, LiveUnqueued
<1>6. ASSUME NEW r \in Requests, NEW a \in Attempts, NEW d \in Actions,
             CommitDispatch(r, a, d)
      PROVE  FALSE
  <2>1. LiveSteer(c) /\ active = 0
    BY <1>6 DEF CommitDispatch, CandidateCurrent, SlotOpen, InsertAction,
       LiveSteer, IInv, TypeOK
  <2> QED BY <2>1, LiveSteerUnresolved, AttemptsPositive DEF SteerSlotInv
<1>7. ASSUME NEW d \in Actions, SteerReturns(d)
      PROVE  LiveSteer(c) /\ msgDisp'[actObj[c]] = msgDisp[actObj[c]]
  BY <1>7 DEF SteerReturns, DurableUnchanged, LiveSteer, IInv, TypeOK
<1>8. ASSUME NEW d \in Actions, FinishSteer(d)
      PROVE  LiveSteer(c) /\ msgDisp'[actObj[c]] = msgDisp[actObj[c]]
  <2>1. /\ LiveSteer(d) /\ ~LiveSteer(d)' /\ UNCHANGED actionVars
        /\ \A e \in Actions : e # d => pc'[e] = pc[e]
        /\ \A m \in Messages : m # actObj[d] => msgDisp'[m] = msgDisp[m]
        /\ msgDisp[actObj[d]] # "steer_pending" => msgDisp' = msgDisp
    BY <1>8, SteerFinished
  <2>2. c # d /\ LiveSteer(c)
    BY <2>1 DEF LiveSteer
  <2>3. actObj[c] = actObj[d] => msgDisp[actObj[d]] # "steer_pending"
    BY <2>1, <2>2 DEF SteerInv, OneSteer
  <2>4. actObj[c] \in Messages
    BY <2>2, SteerRows
  <2> QED BY <2>1, <2>2, <2>3, <2>4
<1>9. ~Restart
  BY DEF Restart, LiveSteer, Idle, Outcomes
<1> QED BY <1>1, <1>2, <1>3, <1>4, <1>5, <1>6, <1>7, <1>8, <1>9 DEF SteerStep

\* How the outcome of a steer is lost: its answer was uncertain, or the node was
\* restarted.
LEMMA LostOrigin ==
  ASSUME StoreMayFail = FALSE, IInv, ActInv, SteerSlotInv, ObjectInv, RowsKept,
         [Next]_vars, NEW c \in Actions, LostSteer(c)'
  PROVE  \/ LostSteer(c)
         \/ FinishSteer(c) /\ LiveSteer(c) /\ pc[c] = "uncertain"
         \/ Restart /\ OpenControl(c)
<1>1. SteerStep
  BY StepOfSteer
<1>2. CASE SteersStand
  BY <1>2 DEF SteersStand
<1>3. ASSUME NEW d \in Dialogs, NEW m \in Messages, NEW r \in Requests,
             MessageEnqueue(d, m, r)
      PROVE  LostSteer(c)
  BY <1>3 DEF MessageEnqueue, LostSteer
<1>4. ASSUME NEW r \in Requests, NEW low \in StorageLow, RequestCancel(r, low)
      PROVE  LostSteer(c)
  BY <1>4 DEF RequestCancel, LostSteer
<1>5. ASSUME NEW m \in Messages, NEW a \in Attempts, NEW d \in Actions,
             NEW low \in StorageLow, MessageSteer(m, a, d, low)
      PROVE  LostSteer(c)
  BY <1>5 DEF MessageSteer, InsertAction, NextAction, LostSteer, IInv, TypeOK,
     RowInv, Idle
<1>6. ASSUME NEW r \in Requests, NEW a \in Attempts, NEW d \in Actions,
             CommitDispatch(r, a, d)
      PROVE  LostSteer(c)
  BY <1>6 DEF CommitDispatch, InsertAction, LostSteer, IInv, TypeOK
<1>7. ASSUME NEW d \in Actions, SteerReturns(d)
      PROVE  LostSteer(c)
  BY <1>7 DEF SteerReturns, DurableUnchanged, LostSteer, IInv, TypeOK
<1>8. ASSUME NEW d \in Actions, FinishSteer(d)
      PROVE  \/ LostSteer(c)
             \/ FinishSteer(c) /\ LiveSteer(c) /\ pc[c] = "uncertain"
  <2>1. /\ LiveSteer(d) /\ UNCHANGED actionVars
        /\ \A e \in Actions : e # d => pc'[e] = pc[e]
        /\ pc'[d] = "finish_unk" <=> pc[d] = "uncertain"
    BY <1>8, SteerFinished
  <2> QED BY <1>8, <2>1 DEF LostSteer
<1>9. CASE Restart
  BY <1>9 DEF Restart, LostSteer, OpenControl, Unresolved, Idle
<1> QED BY <1>1, <1>2, <1>3, <1>4, <1>5, <1>6, <1>7, <1>8, <1>9 DEF SteerStep

\* A request that is in the queue was there before, or is that of a new message
\* or a retry.
LEMMA QueuedBefore ==
  ASSUME IInv, RefInv, RefInv', RowsKept, LeavesQueue, [Next]_vars,
         NEW m \in Messages, msgDisp[m] # "absent",
         \A a \in Attempts : attState[a] # "absent" => MessageOfAttempt(a) # m,
         NEW r \in Requests, reqMsg'[r] = m, reqStatus'[r] = "queued"
  PROVE  reqMsg[r] = m /\ reqStatus[r] = "queued"
<1>1. RequestAdded
  BY RequestIsAdded
<1>2. reqMsg[r] # 0 => reqMsg[r] = m /\ reqStatus[r] = "queued"
  BY DEF RefInv, RowsKept, LeavesQueue
<1>3. CASE NoNewRequest
  BY <1>2, <1>3, MessagesPositive DEF NoNewRequest
<1>4. ASSUME NEW d \in Dialogs, NEW n \in Messages, NEW q \in Requests,
             MessageEnqueue(d, n, q)
      PROVE  reqMsg[r] = m /\ reqStatus[r] = "queued"
  <2>1. n # m /\ reqMsg' = [reqMsg EXCEPT ![q] = n]
    BY <1>4 DEF MessageEnqueue, NextMessage
  <2> QED BY <1>2, <2>1, MessagesPositive DEF IInv, TypeOK
<1>5. ASSUME NEW a \in Attempts, NEW ack \in BOOLEAN, NEW q \in Requests,
             AttemptRetry(a, ack, q)
      PROVE  reqMsg[r] = m /\ reqStatus[r] = "queued"
  <2>1. /\ reqMsg' = [reqMsg EXCEPT ![q] = MessageOfAttempt(a)]
        /\ attState[a] # "absent"
    BY <1>5 DEF AttemptRetry, Retryable
  <2> QED BY <1>2, <2>1, MessagesPositive DEF IInv, TypeOK
<1> QED BY <1>1, <1>3, <1>4, <1>5 DEF RequestAdded

\* request.cancel takes the last request of the message from the queue.
LEMMA CancelledLeaves ==
  ASSUME IInv, SingleInv, NEW q \in Requests, NEW low, RequestCancel(q, low),
         NEW r \in Requests, reqStatus[r] = "queued", reqMsg[r] = reqMsg[q]
  PROVE  reqStatus'[r] # "queued"
BY DEF SingleInv, RequestCancel, IInv, TypeOK

\* A steered message is cancelled by request.cancel.
LEMMA CancelledBy ==
  ASSUME StoreMayFail = FALSE, IInv, ActInv, SteerSlotInv, [Next]_vars,
         NEW m \in Messages, msgDisp[m] = "steer_pending",
         msgDisp'[m] = "cancelled"
  PROVE  \E q \in Requests, low \in StorageLow :
           RequestCancel(q, low) /\ reqMsg[q] = m
<1>1. SteerStep
  BY StepOfSteer
<1>2. ~SteersStand /\ ~Restart
  BY DEF SteersStand, Restart
<1>3. ASSUME NEW d \in Dialogs, NEW n \in Messages, NEW r \in Requests,
             MessageEnqueue(d, n, r)
      PROVE  FALSE
  BY <1>3 DEF MessageEnqueue, IInv, TypeOK
<1>4. ASSUME NEW r \in Requests, NEW low \in StorageLow, RequestCancel(r, low)
      PROVE  reqMsg[r] = m
  BY <1>4 DEF RequestCancel, IInv, TypeOK
<1>5. ASSUME NEW n \in Messages, NEW a \in Attempts, NEW d \in Actions,
             NEW low \in StorageLow, MessageSteer(n, a, d, low)
      PROVE  FALSE
  BY <1>5 DEF MessageSteer, IInv, TypeOK
<1>6. ASSUME NEW r \in Requests, NEW a \in Attempts, NEW d \in Actions,
             CommitDispatch(r, a, d)
      PROVE  FALSE
  BY <1>6 DEF CommitDispatch, IInv, TypeOK
<1>7. ASSUME NEW d \in Actions, SteerReturns(d) PROVE FALSE
  BY <1>7 DEF SteerReturns, DurableUnchanged
<1>8. ASSUME NEW d \in Actions, FinishSteer(d) PROVE FALSE
  BY <1>8, SteerFinished
<1> QED BY <1>1, <1>2, <1>3, <1>4, <1>5, <1>6, <1>7, <1>8 DEF SteerStep

\* A lost outcome stays accounted for.
LEMMA LostNext ==
  ASSUME StoreMayFail = FALSE, IInv, RefInv, ActInv, StageInv, SteerSlotInv,
         SteerHeldInv, ObjectInv, RowsKept, SteerInv, [Next]_vars
  PROVE  LostKnown'
<1> SUFFICES ASSUME NEW c \in Actions, LostSteer(c)'
             PROVE  \/ attState'[actAtt'[c]] = "unknown"
                    \/ msgDisp'[actObj'[c]] \notin WaitingDisp
  BY DEF LostKnown, WaitingDisp
<1>1. CASE LostSteer(c)
  <2>1. /\ OpenControl(c) /\ actAtt'[c] = actAtt[c] /\ actObj'[c] = actObj[c]
        /\ actObj[c] \in Messages /\ msgDisp[actObj[c]] # "absent"
    BY <1>1, SteerRows
  <2>2. CASE attState[actAtt[c]] = "unknown"
    BY <2>1, <2>2, UnknownIsHeld DEF UnknownHeld
  <2>3. CASE msgDisp[actObj[c]] \notin WaitingDisp
    BY <2>1, <2>3, QueueLeft DEF LeavesQueue
  <2> QED BY <1>1, <2>2, <2>3 DEF SteerInv, LostKnown
<1>2. CASE FinishSteer(c) /\ LiveSteer(c) /\ pc[c] = "uncertain"
  <2>1. /\ UNCHANGED actionVars
        /\ msgDisp[actObj[c]] # "steer_pending" => msgDisp' = msgDisp
        /\ msgDisp[actObj[c]] = "steer_pending" =>
             attState'[actAtt[c]] = "unknown"
    BY <1>2, SteerFinished
  <2>2. msgDisp[actObj[c]] # "queued"
    BY <1>2 DEF SteerInv, LiveUnqueued
  <2> QED BY <2>1, <2>2 DEF WaitingDisp
<1>3. CASE Restart /\ OpenControl(c)
  <2>1. active = actAtt[c] /\ actAtt[c] \in Attempts /\ actAtt[c] # 0
    BY <1>3, OpenControlUnresolved, AttemptsPositive DEF SteerHeldInv
  <2>2. attState'[actAtt[c]] = "unknown" /\ actAtt' = actAtt
    BY <1>3, <2>1 DEF Restart, RecoverActive, SetAttemptUnknown, IInv, TypeOK
  <2> QED BY <2>2
<1> QED BY <1>1, <1>2, <1>3, LostOrigin

\* A message is steered a second time only after the first steer fell back.
LEMMA OneSteerNext ==
  ASSUME StoreMayFail = FALSE, IInv, RefInv, ActInv, StageInv, SteerSlotInv,
         SteerHeldInv, ObjectInv, RowsKept, SteerInv, [Next]_vars
  PROVE  LiveUnqueued' /\ OneSteer'
<1>1. ASSUME NEW m \in Messages, NEW a \in Attempts, NEW c \in Actions,
             NEW low \in StorageLow, MessageSteer(m, a, c, low)
      PROVE  /\ actObj'[c] = m /\ msgDisp'[m] = "steer_pending"
             /\ msgDisp[m] = "queued" /\ pc' = pc /\ actStatus[c] = "absent"
             /\ active = a /\ attState[a] # "unknown"
             /\ \A d \in Actions : d # c => actObj'[d] = actObj[d]
  BY <1>1 DEF MessageSteer, InsertAction, NextAction, IInv, TypeOK
<1>2. LiveUnqueued'
  <2> SUFFICES ASSUME NEW c \in Actions, LiveSteer(c)'
               PROVE  msgDisp'[actObj'[c]] # "queued"
    BY DEF LiveUnqueued
  <2>1. CASE /\ LiveSteer(c)
             /\ msgDisp'[actObj[c]] \in {msgDisp[actObj[c]], "cancelled"}
    BY <2>1, SteerRows DEF SteerInv, LiveUnqueued
  <2>2. ASSUME NEW m \in Messages, NEW a \in Attempts, NEW low \in StorageLow,
               MessageSteer(m, a, c, low)
        PROVE  msgDisp'[actObj'[c]] # "queued"
    <3>1. actObj'[c] = m /\ msgDisp'[m] = "steer_pending"
      BY <1>1, <2>2
    <3> QED BY <3>1
  <2> QED BY <2>1, <2>2, SteerOrigin
<1>3. OneSteer'
  <2> SUFFICES ASSUME NEW c \in Actions, NEW d \in Actions, LiveSteer(c)',
                      LiveSteer(d)' \/ LostSteer(d)', actObj'[c] = actObj'[d],
                      msgDisp'[actObj'[c]] = "steer_pending", c # d
               PROVE  FALSE
    BY DEF OneSteer
  <2>1. ASSUME NEW m \in Messages, NEW a \in Attempts, NEW low \in StorageLow,
               MessageSteer(m, a, c, low)
        PROVE  FALSE
    <3>1. /\ actObj'[d] = m /\ actObj[d] = m /\ msgDisp[m] = "queued"
          /\ active = a /\ attState[a] # "unknown"
      BY <1>1, <2>1
    <3>2. LiveSteer(d)' => LiveSteer(d)
      BY <2>1 DEF MessageSteer, InsertAction, LiveSteer, IInv, TypeOK
    <3>3. LostSteer(d)' => LostSteer(d)
      BY <2>1 DEF MessageSteer, InsertAction, LostSteer, IInv, TypeOK
    <3>4. ~LiveSteer(d)
      BY <3>1 DEF SteerInv, LiveUnqueued
    <3>5. LostSteer(d)
      BY <3>2, <3>3, <3>4
    <3>6. attState[actAtt[d]] = "unknown"
      BY <3>1, <3>5 DEF SteerInv, LostKnown, WaitingDisp
    <3>7. active = actAtt[d]
      BY <3>5, SteerRows DEF SteerHeldInv
    <3> QED BY <3>1, <3>6, <3>7
  <2>2. CASE /\ LiveSteer(c)
             /\ msgDisp'[actObj[c]] \in {msgDisp[actObj[c]], "cancelled"}
    <3>1. actObj'[c] = actObj[c] /\ msgDisp[actObj[c]] = "steer_pending"
      BY <2>2, SteerRows
    <3>2. ASSUME LiveSteer(d) \/ LostSteer(d) PROVE FALSE
      <4>1. actObj'[d] = actObj[d]
        BY <3>2, SteerRows
      <4> QED BY <2>2, <3>1, <3>2, <4>1 DEF SteerInv, OneSteer
    <3>3. ASSUME NEW m \in Messages, NEW a \in Attempts, NEW low \in StorageLow,
                 MessageSteer(m, a, d, low)
          PROVE  FALSE
      <4>1. actObj'[d] = m /\ msgDisp[m] = "queued"
        BY <1>1, <3>3
      <4> QED BY <3>1, <4>1
    <3>4. ~Restart
      BY DEF Restart, LiveSteer, Idle, Outcomes
    <3>5. CASE LiveSteer(d)'
      BY <3>2, <3>3, <3>5, SteerOrigin
    <3>6. CASE LostSteer(d)'
      BY <3>2, <3>4, <3>6, LostOrigin
    <3> QED BY <3>5, <3>6
  <2> QED BY <2>1, <2>2, SteerOrigin
<1> QED BY <1>2, <1>3

\* The message of a steer under way is not started.
LEMMA FreshNext ==
  ASSUME StoreMayFail = FALSE, IInv, RefInv, RefInv', ActInv, SteerSlotInv,
         QueuedInv, SingleInv, ObjectInv, RowsKept, SteerInv, [Next]_vars
  PROVE  LiveFresh'
<1> SUFFICES ASSUME NEW c \in Actions, LiveSteer(c)'
             PROVE  /\ \A a \in Attempts : attState'[a] # "absent"
                                           => MessageOfAttempt(a)' # actObj'[c]
                    /\ \A r \in Requests :
                         reqMsg'[r] = actObj'[c] /\ reqStatus'[r] = "queued"
                         => msgDisp'[actObj'[c]] = "steer_pending"
  BY DEF LiveFresh
<1>1. LeavesQueue /\ AttemptAdded
  BY QueueLeft, AttemptIsAdded
<1>2. CASE /\ LiveSteer(c)
           /\ msgDisp'[actObj[c]] \in {msgDisp[actObj[c]], "cancelled"}
  <2>1. /\ actObj[c] \in Messages /\ actObj'[c] = actObj[c]
        /\ msgDisp[actObj[c]] # "absent"
    BY <1>2, SteerRows
  <2>2. \A a \in Attempts : attState[a] # "absent" => MessageOfAttempt(a) # actObj[c]
    BY <1>2 DEF SteerInv, LiveFresh
  <2>3. NoNewAttempt
    <3>1. ASSUME NEW r \in Requests, NEW a \in Attempts, NEW d \in Actions,
                 CommitDispatch(r, a, d)
          PROVE  FALSE
      <4>1. active = 0
        BY <3>1 DEF CommitDispatch, CandidateCurrent, SlotOpen
      <4> QED BY <1>2, <4>1, LiveSteerUnresolved, AttemptsPositive
          DEF SteerSlotInv
    <3> QED BY <1>1, <3>1 DEF AttemptAdded
  <2>4. \A a \in Attempts : attState'[a] # "absent"
                            => MessageOfAttempt(a)' # actObj[c]
    BY <2>2, <2>3, AttemptMessage DEF NoNewAttempt
  <2>5. ASSUME NEW r \in Requests, reqMsg'[r] = actObj[c],
               reqStatus'[r] = "queued"
        PROVE  msgDisp'[actObj[c]] = "steer_pending"
    <3>1. reqMsg[r] = actObj[c] /\ reqStatus[r] = "queued"
      BY <1>1, <2>1, <2>2, <2>5, QueuedBefore
    <3>2. msgDisp[actObj[c]] = "steer_pending"
      BY <1>2, <3>1 DEF SteerInv, LiveFresh
    <3>3. CASE msgDisp'[actObj[c]] = "cancelled"
      <4>1. PICK q \in Requests, low \in StorageLow :
              RequestCancel(q, low) /\ reqMsg[q] = actObj[c]
        BY <2>1, <3>2, <3>3, CancelledBy
      <4> QED BY <2>5, <3>1, <4>1, CancelledLeaves
    <3> QED BY <1>2, <3>2, <3>3
  <2> QED BY <2>1, <2>4, <2>5
<1>3. ASSUME NEW m \in Messages, NEW a \in Attempts, NEW low \in StorageLow,
             MessageSteer(m, a, c, low)
      PROVE  /\ \A b \in Attempts : attState'[b] # "absent"
                                    => MessageOfAttempt(b)' # actObj'[c]
             /\ msgDisp'[actObj'[c]] = "steer_pending"
  <2>1. /\ actObj'[c] = m /\ msgDisp'[m] = "steer_pending" /\ msgDisp[m] = "queued"
        /\ UNCHANGED <<attState, attReq, reqMsg>>
    BY <1>3 DEF MessageSteer, InsertAction, IInv, TypeOK
  <2>2. ASSUME NEW b \in Attempts, attState[b] # "absent"
        PROVE  MessageOfAttempt(b) # m
    <3>1. attReq[b] \in Requests /\ reqStatus[attReq[b]] # "queued"
      BY <2>2 DEF IInv, RowInv, RefInv
    <3> QED BY <2>1, <3>1 DEF QueuedInv, MessageOfAttempt
  <2> QED BY <2>1, <2>2 DEF MessageOfAttempt
<1> QED BY <1>2, <1>3, SteerOrigin

-----------------------------------------------------------------------------
\* A message that the provider took.

\* It is not in the queue as if nothing had happened, it was never started, and
\* while its request is in the queue the node knows that the adapter took it or
\* may have.
Accounted(m) ==
  /\ msgDisp[m] \notin {"absent", "queued"}
  /\ \A a \in Attempts : attState[a] # "absent" => MessageOfAttempt(a) # m
  /\ \A r \in Requests : reqMsg[r] = m /\ reqStatus[r] = "queued"
                         => msgDisp[m] = "steer_pending"
  /\ msgDisp[m] = "steer_pending" =>
       \E c \in Actions : /\ actKind[c] = "message.steer" /\ actObj[c] = m
                          /\ TookSteer(c) \/ actStatus[c] = "unknown"

DeliveredInv == \A m \in delivered : Accounted(m)

\* The provider took nothing at first.
LEMMA DeliveredInit == InitStore => DeliveredInv
BY DEF InitStore, DeliveredInv

\* The steer that accounts for a message is open, so its attempt has the slot.
LEMMA WitnessOpen ==
  ASSUME IInv, ActInv, RowsKept, NEW c \in Actions,
         actKind[c] = "message.steer", TookSteer(c) \/ actStatus[c] = "unknown"
  PROVE  /\ OpenControl(c)
         /\ LiveSteer(c) \/ LostSteer(c)
         /\ actKind'[c] = actKind[c] /\ actObj'[c] = actObj[c]
<1>1. /\ actStatus[c] \in {"inflight", "unknown"}
      /\ TookSteer(c) => LiveSteer(c)
  BY DEF TookSteer, LiveSteer, ActInv, Outcomes, ReadSteps, Idle
<1> QED BY <1>1 DEF OpenControl, Unresolved, LostSteer, RowsKept

\* A message that is taken is that of a steer under way.
LEMMA Taken ==
  ASSUME IInv, ActInv, ObjectInv, SteerInv, NEW c \in Actions, SteerReturns(c),
         delivered' # delivered
  PROVE  delivered' = delivered \cup {actObj[c]} /\ Accounted(actObj[c])'
<1>1. /\ actKind[c] = "message.steer" /\ pc[c] = "claimed" /\ LiveSteer(c)
      /\ delivered' = delivered \cup {actObj[c]}
      /\ UNCHANGED <<msgDisp, reqMsg, reqStatus, attReq, attState, actKind,
                     actObj, actStatus>>
      /\ \E step \in {"applied", "uncertain", "invalid"} :
           pc' = [pc EXCEPT ![c] = step]
  BY DEF SteerReturns, DurableUnchanged, LiveSteer
<1>2. TookSteer(c)'
  BY <1>1 DEF TookSteer, IInv, TypeOK
<1>3. msgDisp[actObj[c]] \notin {"absent", "queued"}
  BY <1>1 DEF ObjectInv, ObjectOk, SteerInv, LiveUnqueued
<1>4. /\ \A a \in Attempts : attState[a] # "absent"
                             => MessageOfAttempt(a) # actObj[c]
      /\ \A r \in Requests : reqMsg[r] = actObj[c] /\ reqStatus[r] = "queued"
                             => msgDisp[actObj[c]] = "steer_pending"
  BY <1>1 DEF SteerInv, LiveFresh
<1> QED BY <1>1, <1>2, <1>3, <1>4 DEF Accounted, MessageOfAttempt

\* What finishSteer leaves of a message that was taken.
LEMMA FinishedAccounted ==
  ASSUME IInv, ActInv, SteerSlotInv, QueuedInv, SingleInv, RowsKept, SteerInv,
         NEW m \in Messages, Accounted(m), NEW c \in Actions, FinishSteer(c),
         msgDisp'[m] # msgDisp[m]
  PROVE  /\ msgDisp'[m] \in {"applied", "unknown"}
         /\ \A r \in Requests : reqMsg[r] = m /\ reqStatus[r] = "queued"
                                => reqStatus'[r] # "queued"
<1>1. /\ LiveSteer(c) /\ m = actObj[c] /\ msgDisp[m] = "steer_pending"
      /\ \/ /\ pc[c] \in {"fallback", "rejected"} /\ msgDisp'[m] = "queued"
         \/ /\ pc[c] \in {"applied", "uncertain"}
            /\ msgDisp'[m] \in {"applied", "unknown"}
            /\ \E r \in Requests : /\ OriginalRequest(m, r)
                                   /\ reqStatus'[r] # "queued"
  BY SteerFinished
<1>2. PICK d \in Actions : /\ actKind[d] = "message.steer" /\ actObj[d] = m
                           /\ TookSteer(d) \/ actStatus[d] = "unknown"
  BY <1>1 DEF Accounted
<1>3. d = c
  BY <1>1, <1>2, WitnessOpen DEF SteerInv, OneSteer
<1>4. pc[c] \notin {"fallback", "rejected"}
  BY <1>1, <1>2, <1>3 DEF TookSteer, FinishSteer, Outcomes, ActInv, ReadSteps,
     Idle
<1>5. PICK q \in Requests : OriginalRequest(m, q) /\ reqStatus'[q] # "queued"
  BY <1>1, <1>4
<1>6. reqMsg[q] = m /\ reqStatus[q] = "queued"
  BY <1>1, <1>5 DEF OriginalRequest, QueuedInv
<1>7. \A r \in Requests : reqMsg[r] = m /\ reqStatus[r] = "queued" => r = q
  BY <1>6 DEF SingleInv
<1> QED BY <1>1, <1>4, <1>5, <1>7

\* The steer that accounts for a message does so until the message is settled.
LEMMA WitnessKept ==
  ASSUME StoreMayFail = FALSE, IInv, ActInv, SteerSlotInv, RowsKept,
         [Next]_vars, NEW c \in Actions, actKind[c] = "message.steer",
         TookSteer(c) \/ actStatus[c] = "unknown",
         msgDisp'[actObj[c]] = "steer_pending"
  PROVE  TookSteer(c)' \/ actStatus'[c] = "unknown"
<1>1. SteerStep
  BY StepOfSteer
<1>2. CASE SteersStand
  BY <1>2 DEF SteersStand
<1>3. ASSUME NEW d \in Dialogs, NEW n \in Messages, NEW r \in Requests,
             MessageEnqueue(d, n, r)
      PROVE  TookSteer(c)' \/ actStatus'[c] = "unknown"
  BY <1>3 DEF MessageEnqueue, TookSteer
<1>4. ASSUME NEW r \in Requests, NEW low \in StorageLow, RequestCancel(r, low)
      PROVE  TookSteer(c)' \/ actStatus'[c] = "unknown"
  BY <1>4 DEF RequestCancel, TookSteer
<1>5. ASSUME NEW n \in Messages, NEW a \in Attempts, NEW d \in Actions,
             NEW low \in StorageLow, MessageSteer(n, a, d, low)
      PROVE  TookSteer(c)' \/ actStatus'[c] = "unknown"
  BY <1>5 DEF MessageSteer, InsertAction, NextAction, TookSteer, IInv, TypeOK,
     ActInv
<1>6. ASSUME NEW r \in Requests, NEW a \in Attempts, NEW d \in Actions,
             CommitDispatch(r, a, d)
      PROVE  TookSteer(c)' \/ actStatus'[c] = "unknown"
  BY <1>6 DEF CommitDispatch, InsertAction, NextAction, TookSteer, IInv, TypeOK,
     ActInv
<1>7. ASSUME NEW d \in Actions, SteerReturns(d)
      PROVE  TookSteer(c)' \/ actStatus'[c] = "unknown"
  BY <1>7 DEF SteerReturns, DurableUnchanged, TookSteer, IInv, TypeOK
<1>8. ASSUME NEW d \in Actions, FinishSteer(d)
      PROVE  TookSteer(c)' \/ actStatus'[c] = "unknown"
  <2>1. /\ UNCHANGED actionVars
        /\ \A e \in Actions : e # d => pc'[e] = pc[e]
        /\ msgDisp[actObj[d]] = "steer_pending" =>
             msgDisp'[actObj[d]] # "steer_pending"
        /\ msgDisp[actObj[d]] # "steer_pending" => msgDisp' = msgDisp
    BY <1>8, SteerFinished
  <2>2. c # d \/ actStatus[c] = "unknown"
    BY <2>1
  <2> QED BY <2>1, <2>2 DEF TookSteer
<1>9. CASE Restart
  <2>1. actStatus[c] \in {"inflight", "unknown"}
    BY DEF TookSteer, ActInv, ReadSteps, Idle
  <2> QED BY <1>9, <2>1 DEF Restart
<1> QED BY <1>1, <1>2, <1>3, <1>4, <1>5, <1>6, <1>7, <1>8, <1>9 DEF SteerStep

\* What becomes of the disposition of a message that was taken.
LEMMA TakenDisposition ==
  ASSUME StoreMayFail = FALSE, IInv, ActInv, SteerSlotInv, [Next]_vars,
         NEW m \in Messages, Accounted(m)
  PROVE  \/ msgDisp'[m] = msgDisp[m]
         \/ \E c \in Actions : FinishSteer(c)
         \/ /\ msgDisp'[m] = "cancelled"
            /\ \E q \in Requests, low \in StorageLow :
                 RequestCancel(q, low) /\ reqMsg[q] = m
<1>1. SteerStep
  BY StepOfSteer
<1>2. CASE SteersStand \/ Restart
  BY <1>2 DEF SteersStand, Restart
<1>3. ASSUME NEW d \in Dialogs, NEW n \in Messages, NEW r \in Requests,
             MessageEnqueue(d, n, r)
      PROVE  msgDisp'[m] = msgDisp[m]
  BY <1>3 DEF MessageEnqueue, NextMessage, Accounted, IInv, TypeOK
<1>4. ASSUME NEW r \in Requests, NEW low \in StorageLow, RequestCancel(r, low)
      PROVE  \/ msgDisp'[m] = msgDisp[m]
             \/ msgDisp'[m] = "cancelled" /\ reqMsg[r] = m
  BY <1>4 DEF RequestCancel, IInv, TypeOK
<1>5. ASSUME NEW n \in Messages, NEW a \in Attempts, NEW d \in Actions,
             NEW low \in StorageLow, MessageSteer(n, a, d, low)
      PROVE  msgDisp'[m] = msgDisp[m]
  BY <1>5 DEF MessageSteer, Accounted, IInv, TypeOK
<1>6. ASSUME NEW r \in Requests, NEW a \in Attempts, NEW d \in Actions,
             CommitDispatch(r, a, d)
      PROVE  msgDisp'[m] = msgDisp[m]
  BY <1>6 DEF CommitDispatch, Accounted, IInv, TypeOK
<1>7. ASSUME NEW d \in Actions, SteerReturns(d)
      PROVE  msgDisp'[m] = msgDisp[m]
  BY <1>7 DEF SteerReturns, DurableUnchanged
<1> QED BY <1>1, <1>2, <1>3, <1>4, <1>5, <1>6, <1>7 DEF SteerStep

\* Who takes messages.
LEMMA TakenBy ==
  ASSUME StoreMayFail = FALSE, IInv, ActInv, SteerSlotInv, [Next]_vars
  PROVE  delivered' = delivered \/ \E c \in Actions : SteerReturns(c)
BY StepOfSteer, SteerFinished DEF SteerStep, SteersStand, Restart,
   MessageEnqueue, RequestCancel, MessageSteer, CommitDispatch

\* A message that was taken is never started.
LEMMA DeliveredNext ==
  ASSUME StoreMayFail = FALSE, IInv, RefInv, RefInv', ActInv, SteerSlotInv,
         SteerHeldInv, QueuedInv, SingleInv, ObjectInv, RowsKept, SteerInv,
         DeliveredInv, [Next]_vars
  PROVE  DeliveredInv'
<1>1. LeavesQueue /\ AttemptAdded
  BY QueueLeft, AttemptIsAdded
<1>2. ASSUME NEW m \in Messages, Accounted(m)
      PROVE  Accounted(m)'
  <2>1. \A a \in Attempts : attState'[a] # "absent" => MessageOfAttempt(a)' # m
    <3>1. CASE NoNewAttempt
      BY <1>2, <3>1, AttemptMessage DEF NoNewAttempt, Accounted
    <3>2. ASSUME NEW r \in Requests, NEW b \in Attempts, NEW d \in Actions,
                 CommitDispatch(r, b, d), NEW a \in Attempts,
                 attState'[a] # "absent"
          PROVE  MessageOfAttempt(a)' # m
      <4>1. /\ active = 0 /\ reqStatus[r] = "queued" /\ reqMsg' = reqMsg
            /\ attState' = [attState EXCEPT ![b] = "dispatching"]
            /\ attReq' = [attReq EXCEPT ![b] = r]
        BY <3>2 DEF CommitDispatch, CandidateCurrent, SlotOpen, QueueHead,
           Unheld, Queued
      <4>2. CASE a # b
        BY <1>2, <3>2, <4>1, <4>2, AttemptMessage DEF Accounted, IInv, TypeOK
      <4>3. CASE a = b
        <5>1. SUFFICES ASSUME reqMsg[r] = m PROVE FALSE
          BY <4>1, <4>3 DEF MessageOfAttempt, IInv, TypeOK
        <5>2. PICK c \in Actions :
                /\ actKind[c] = "message.steer" /\ actObj[c] = m
                /\ TookSteer(c) \/ actStatus[c] = "unknown"
          BY <1>2, <4>1, <5>1 DEF Accounted
        <5>3. OpenControl(c)
          BY <5>2, WitnessOpen
        <5> QED BY <4>1, <5>3, OpenControlUnresolved, AttemptsPositive
            DEF SteerHeldInv
      <4> QED BY <4>2, <4>3
    <3> QED BY <1>1, <3>1, <3>2 DEF AttemptAdded
  <2>2. /\ msgDisp'[m] \notin {"absent", "queued"}
        /\ \A r \in Requests : reqMsg'[r] = m /\ reqStatus'[r] = "queued"
                               => msgDisp'[m] = "steer_pending"
        /\ msgDisp'[m] = "steer_pending" => msgDisp[m] = "steer_pending"
    <3>1. ASSUME NEW r \in Requests, reqMsg'[r] = m, reqStatus'[r] = "queued"
          PROVE  /\ reqMsg[r] = m /\ reqStatus[r] = "queued"
                 /\ msgDisp[m] = "steer_pending"
      BY <1>1, <1>2, <3>1, QueuedBefore DEF Accounted
    <3>2. CASE msgDisp'[m] = msgDisp[m]
      BY <1>2, <3>1, <3>2 DEF Accounted
    <3>3. ASSUME NEW c \in Actions, FinishSteer(c), msgDisp'[m] # msgDisp[m]
          PROVE  /\ msgDisp'[m] \in {"applied", "unknown"}
                 /\ \A r \in Requests : reqMsg[r] = m /\ reqStatus[r] = "queued"
                                        => reqStatus'[r] # "queued"
      BY <1>2, <3>3, FinishedAccounted
    <3>4. ASSUME NEW q \in Requests, NEW low \in StorageLow,
                 RequestCancel(q, low), reqMsg[q] = m
          PROVE  \A r \in Requests : reqMsg[r] = m /\ reqStatus[r] = "queued"
                                     => reqStatus'[r] # "queued"
      BY <3>4, CancelledLeaves
    <3> QED BY <1>2, <3>1, <3>2, <3>3, <3>4, TakenDisposition
  <2>3. ASSUME msgDisp'[m] = "steer_pending"
        PROVE  \E c \in Actions : /\ actKind'[c] = "message.steer"
                                  /\ actObj'[c] = m
                                  /\ TookSteer(c)' \/ actStatus'[c] = "unknown"
    <3>1. PICK c \in Actions : /\ actKind[c] = "message.steer" /\ actObj[c] = m
                               /\ TookSteer(c) \/ actStatus[c] = "unknown"
      BY <1>2, <2>2, <2>3 DEF Accounted
    <3> QED BY <2>3, <3>1, WitnessKept, WitnessOpen
  <2> QED BY <2>1, <2>2, <2>3 DEF Accounted
<1>3. delivered \subseteq Messages
  BY DEF IInv, TypeOK
<1>4. CASE delivered' = delivered
  BY <1>2, <1>3, <1>4 DEF DeliveredInv
<1>5. ASSUME NEW c \in Actions, SteerReturns(c), delivered' # delivered
      PROVE  DeliveredInv'
  <2>1. delivered' = delivered \cup {actObj[c]} /\ Accounted(actObj[c])'
    BY <1>5, Taken
  <2>2. \A m \in delivered : Accounted(m)'
    BY <1>2, <1>3 DEF DeliveredInv
  <2>3. actObj' = actObj
    BY <1>5 DEF SteerReturns, DurableUnchanged
  <2> QED BY <2>1, <2>2, <2>3 DEF DeliveredInv
<1> QED BY <1>4, <1>5, TakenBy

\* The invariant of steers and of what the provider took.
TakenInv == SteerHeldInv /\ SteerInv /\ DeliveredInv

\* When every transaction of a worker commits, an unsettled steer keeps its
\* attempt in the slot, a message has one steer at a time, and a message that was
\* taken is accounted for.
THEOREM TakenInvariance ==
  ASSUME StoreMayFail = FALSE
  PROVE  Spec => []TakenInv
<1>1. InitStore => TakenInv
  BY SteerHeldInit, SteerInit, DeliveredInit DEF TakenInv
<1>2. /\ IInv /\ RefInv /\ ActInv /\ StageInv /\ RowsInv /\ ObjectInv
      /\ RerunInv /\ TakenInv /\ [Next]_vars
      => TakenInv'
  <2> SUFFICES ASSUME IInv, RefInv, ActInv, StageInv, RowsInv, ObjectInv,
                      RerunInv, TakenInv, [Next]_vars
               PROVE  TakenInv'
    OBVIOUS
  <2>1. RowsKept /\ RefInv'
    BY RowsAreKept, RefNext
  <2>2. SteerHeldInv'
    BY SteerHeldNext DEF TakenInv
  <2>3. SteerInv'
    BY <2>1, LostNext, OneSteerNext, FreshNext
       DEF TakenInv, SteerInv, RowsInv, RerunInv
  <2>4. DeliveredInv'
    BY <2>1, DeliveredNext DEF TakenInv, RowsInv, RerunInv
  <2> QED BY <2>2, <2>3, <2>4 DEF TakenInv
<1> QED BY <1>1, <1>2, Invariance, RefInvariance, ActInvariance,
    StageInvariance, RowsInvariance, ObjectInvariance, RerunInvariance, PTL
    DEF Spec

\* A message the provider took as a steer is never also started as a turn,
\* whatever the adapter answered, whoever stopped, cancelled, reconciled or
\* retried meanwhile, and wherever the node was restarted; provided that the
\* transactions of finishSteer commit.
THEOREM SteeredOnce ==
  ASSUME StoreMayFail = FALSE
  PROVE  Spec => []SteeredNeverStarted
<1>1. IInv /\ TakenInv => SteeredNeverStarted
  BY DEF IInv, TypeOK, TakenInv, DeliveredInv, Accounted, SteeredNeverStarted
<1> QED BY <1>1, TakenInvariance, Invariance, PTL
=============================================================================
