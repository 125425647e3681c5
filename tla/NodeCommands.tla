----------------------------- MODULE NodeCommands -----------------------------
(***************************************************************************)
(* The commands of harness-wire-v2 (runtime/command.go,                    *)
(* runtime/command_handlers.go, runtime/control_handlers.go).              *)
(*                                                                         *)
(* Each action is SubmitCommand for one kind of command that is admitted:  *)
(* object isolation, the covering hold, the storage rules, the handler and *)
(* the control action the transaction inserts.  A rejected command leaves  *)
(* the state as it is.                                                     *)
(***************************************************************************)
EXTENDS NodeStore

\* Whether the free space may be found below the admission floor when a
\* control command arrives: {FALSE}, or BOOLEAN.
CONSTANT StorageLow

ASSUME StorageAssumption == StorageLow \subseteq BOOLEAN

\* A control command that finds storage low records it; nothing removes the
\* reason again.
ControlState(low, newReasons) ==
  /\ readiness' = IF low THEN "blocked" ELSE readiness
  /\ reasons'   = newReasons \cup (IF low THEN {"storage_unavailable"} ELSE {})

-----------------------------------------------------------------------------
\* dialog.create adds a dialog row; Dialogs are the rows it may add, so what
\* is left of it is the StateVersion++ every other component notices.
DialogCreate ==
  /\ NodeScope \notin holds
  /\ cand # 0
  /\ BumpStateVersion
  /\ UNCHANGED <<messageVars, requestVars, attemptVars, toolVars, waitVars,
                 actionVars, adminVars, slotVars, queueVars, pc, gate, barrier,
                 settingsOk, auth, reconciling, providerVars>>

\* message.enqueue: a message and its request, at the end of the queue.
MessageEnqueue(d, m, r) ==
  /\ d \notin deleted
  /\ ~Held(d)
  /\ QueueHasRoom
  /\ NextMessage(m) /\ NextRequest(r)
  /\ msgDialog' = [msgDialog EXCEPT ![m] = d]
  /\ msgDisp'   = [msgDisp EXCEPT ![m] = "queued"]
  /\ reqMsg'    = [reqMsg EXCEPT ![r] = m]
  /\ reqStatus' = [reqStatus EXCEPT ![r] = "queued"]
  /\ pending'   = pending + 1
  /\ BumpStateVersion
  /\ UNCHANGED <<attemptVars, toolVars, waitVars, actionVars, adminVars,
                 slotVars, paused, pc, gate, barrier, settingsOk, auth,
                 reconciling, providerVars>>

\* request.cancel.  Only the request's status is examined: the message may be
\* queued, steer_pending, or applied (a queued retry).
RequestCancel(r, low) ==
  /\ reqStatus[r] = "queued"
  /\ DialogOf(r) \notin deleted
  /\ reqStatus' = [reqStatus EXCEPT ![r] = "cancelled"]
  /\ msgDisp'   = [msgDisp EXCEPT ![reqMsg[r]] = "cancelled"]
  /\ pending'   = pending - 1
  /\ ControlState(low, reasons)
  /\ BumpStateVersion
  /\ UNCHANGED <<msgDialog, reqMsg, attemptVars, toolVars, waitVars, actionVars,
                 adminVars, active, occupancy, paused, pc, gate, barrier,
                 settingsOk, auth, reconciling, providerVars>>

\* queue.resume clears the manual pause, and only that.
QueueResume(low) ==
  /\ NodeScope \notin holds
  /\ paused' = FALSE
  /\ ControlState(low, reasons \ {"operator_pause"})
  /\ BumpStateVersion
  /\ UNCHANGED <<messageVars, requestVars, attemptVars, toolVars, waitVars,
                 actionVars, adminVars, active, occupancy, pending, pc, gate,
                 barrier, settingsOk, auth, reconciling, providerVars>>

\* attempt.stop pauses the queue and records the intent to cancel.
AttemptStop(a, c, low) ==
  /\ active = a
  /\ attState[a] \in {"dispatching", "running", "waiting_input", "stopping"}
  /\ attState' = [attState EXCEPT ![a] = "stopping"]
  /\ paused' = TRUE
  /\ ControlState(low, reasons \cup {"operator_pause"})
  /\ InsertAction(c, "attempt.stop", a, 0)
  /\ BumpStateVersion
  /\ UNCHANGED <<messageVars, requestVars, attReq, attEffect, attTerminal,
                 toolVars, waitVars, adminVars, active, occupancy, pending, pc,
                 gate, barrier, settingsOk, auth, reconciling, providerVars>>

-----------------------------------------------------------------------------
\* attempt.retry.

LatestRequest(r) ==
  \A q \in Requests : reqMsg[q] = reqMsg[r] => q <= r

\* Generations of one input grow with the attempt's number.
LatestAttempt(a) ==
  \A b \in Attempts : /\ attState[b] # "absent"
                      /\ MessageOfAttempt(b) = MessageOfAttempt(a)
                      => b <= a

\* The latest request and attempt of m failed without any effect.
FailedWithoutEffect(m) ==
  \E a \in Attempts : /\ attState[a] \in {"failed", "interrupted"}
                      /\ MessageOfAttempt(a) = m
                      /\ LatestAttempt(a)
                      /\ LatestRequest(attReq[a])
                      /\ reqStatus[attReq[a]] \in {"failed", "interrupted"}
                      /\ attEffect[a] = "none"

\* Every later original input of the dialog is part of the failed tail.
FailedTail(m) ==
  \A n \in Messages : msgDialog[n] = msgDialog[m] /\ n > m
                      => FailedWithoutEffect(n)

\* Mutant of Retryable: a completed attempt too.
RetryableEnded(a) == attState[a] \in TerminalStates

\* applyAttemptRetry accepts an attempt that ended without success.
Retryable(a) == attState[a] \in {"failed", "interrupted"}

AttemptRetry(a, ack, r) ==
  /\ Retryable(a)
  /\ DialogOfAttempt(a) \notin deleted
  /\ ~Held(DialogOfAttempt(a))
  /\ \/ attEffect[a] = "none"
     \/ attEffect[a] = "known" /\ ack
  /\ LatestRequest(attReq[a]) /\ LatestAttempt(a)
  /\ FailedTail(MessageOfAttempt(a))
  /\ QueueHasRoom
  /\ \A q \in Requests : reqMsg[q] = MessageOfAttempt(a)
        => reqStatus[q] \notin {"queued", "dispatching", "active", "unknown"}
  /\ NextRequest(r)
  /\ reqMsg'    = [reqMsg EXCEPT ![r] = MessageOfAttempt(a)]
  /\ reqStatus' = [reqStatus EXCEPT ![r] = "queued"]
  /\ pending'   = pending + 1
  /\ BumpStateVersion
  /\ UNCHANGED <<messageVars, attemptVars, toolVars, waitVars, actionVars,
                 adminVars, slotVars, paused, pc, gate, barrier, settingsOk,
                 auth, reconciling, providerVars>>

-----------------------------------------------------------------------------
\* message.steer marks a queued message for delivery into the running turn.
MessageSteer(m, a, c, low) ==
  /\ active = a
  /\ attState[a] \in {"running", "waiting_input"}
  /\ DialogOfAttempt(a) = msgDialog[m]
  /\ msgDialog[m] \notin deleted
  /\ msgDisp[m] = "queued"
  /\ msgDisp' = [msgDisp EXCEPT ![m] = "steer_pending"]
  /\ ControlState(low, reasons)
  /\ InsertAction(c, "message.steer", a, m)
  /\ BumpStateVersion
  /\ UNCHANGED <<msgDialog, requestVars, attemptVars, toolVars, waitVars,
                 adminVars, active, occupancy, queueVars, pc, gate, barrier,
                 settingsOk, auth, reconciling, providerVars>>

\* approval.respond and input.respond.  Neither looks at the state of the
\* attempt: a wait left pending by an attempt that ended can be answered.
Respond(w, c, low) ==
  /\ waitStatus[w] = "pending"
  /\ DialogOfAttempt(waitAtt[w]) \notin deleted
  /\ waitStatus' = [waitStatus EXCEPT ![w] = "responding"]
  /\ ControlState(low, reasons)
  /\ InsertAction(c, "respond", waitAtt[w], w)
  /\ UNCHANGED <<messageVars, requestVars, attemptVars, toolVars, waitAtt,
                 adminVars, active, occupancy, queueVars, processVars,
                 providerVars>>
=============================================================================
