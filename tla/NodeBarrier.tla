----------------------------- MODULE NodeBarrier -----------------------------
(***************************************************************************)
(* What may close a node, or a dialog of it, for new work while the rest   *)
(* goes on: administrative holds and the proof that a scope is quiescent   *)
(* (runtime/hold.go), the logical deletion of a dialog                     *)
(* (runtime/logical_delete.go), the change of settings                     *)
(* (runtime/settings_fence.go) and provider login                          *)
(* (runtime/provider_auth.go).                                             *)
(*                                                                         *)
(* Each of them takes startGate, and none of them waits for it inside a    *)
(* transaction, so an operation of this module is one step with the gate   *)
(* free, except the swap of settings, which keeps the gate.                *)
(***************************************************************************)
EXTENDS NodeObserve

RowsUnchanged ==
  UNCHANGED <<messageVars, requestVars, attemptVars, toolVars, waitVars,
              actionVars, slotVars, queueVars>>

InScope(scope, a) == attState[a] # "absent"
                     /\ (scope = NodeScope \/ DialogOfAttempt(a) = scope)

-----------------------------------------------------------------------------
\* Mutant of StartInProgress: no check.
NoStartInProgress(scope) == FALSE

\* A dispatch of the scope is between its commit and its start.
StartInProgress(scope) ==
  \E a \in Attempts, c \in Actions :
     /\ InScope(scope, a)
     /\ attState[a] = "dispatching"
     /\ actKind[c] = "dispatch.start" /\ actAtt[c] = a
     /\ actStatus[c] \in {"pending", "inflight"}

Conflicts(scope, other) ==
  scope = NodeScope \/ other = NodeScope \/ scope = other

\* InstallHold does not advance StateVersion.
InstallHold(scope) ==
  /\ gate = Free
  /\ scope \notin deleted
  /\ ~StartInProgress(scope)
  /\ \A other \in holds : ~Conflicts(scope, other)
  /\ holds' = holds \cup {scope}
  /\ RowsUnchanged
  /\ UNCHANGED <<deleted, processVars, providerVars>>

ReleaseHold(scope) ==
  /\ gate = Free
  /\ scope \in holds
  /\ holds' = holds \ {scope}
  /\ RowsUnchanged
  /\ UNCHANGED <<deleted, processVars, providerVars>>

\* Mutant of Settled: only the effects of attempts.
SettledRows(scope) ==
  \A a \in Attempts : InScope(scope, a) => attEffect[a] # "unknown"

\* The controls, tool calls and waits of the attempts of a scope are settled.
Settled(scope) ==
  /\ \A c \in Actions : actAtt[c] # 0 /\ InScope(scope, actAtt[c])
                        => actStatus[c] \in {"acknowledged", "rejected"}
  /\ \A a \in Attempts : InScope(scope, a)
                         => /\ attEffect[a] # "unknown"
                            /\ attTool[a] \notin {"running", "uncertain"}
  /\ \A w \in Waits : waitAtt[w] # 0 /\ InScope(scope, waitAtt[w])
                      => waitStatus[w] = "resolved"

\* QuiescenceProof: queued requests may stay parked, nothing else is open.
Quiescent(scope) ==
  /\ ActiveIn(scope) = {}
  /\ \A r \in Requests : reqStatus[r] \in {"dispatching", "active", "unknown"}
                         => scope # NodeScope /\ DialogOf(r) # scope
  /\ Settled(scope)

\* applyDialogDelete: every request of the dialog is over, no attempt of it is
\* active, and its effects and controls are settled.
Deletable(d) ==
  /\ d \notin deleted
  /\ \A r \in Requests : reqStatus[r] # "absent" /\ DialogOf(r) = d
        => reqStatus[r] \in TerminalStates \cup {"cancelled"}
  /\ ActiveIn(d) = {}
  /\ Settled(d)

\* DeleteLogicalDialog: the tombstone and the release of the hold that
\* protected the deletion, in one transaction.
DeleteLogicalDialog(d) ==
  /\ gate = Free
  /\ d \in holds
  /\ Deletable(d)
  /\ deleted' = deleted \cup {d}
  /\ holds' = holds \ {d}
  /\ BumpStateVersion
  /\ RowsUnchanged
  /\ UNCHANGED <<pc, gate, barrier, settingsOk, auth, reconciling,
                 providerVars>>

-----------------------------------------------------------------------------
\* BeginSettingsChange closes admission, waits for the slot, and keeps
\* startGate until the caller has swapped the provider.

SettingsFrame ==
  /\ RowsUnchanged
  /\ UNCHANGED <<adminVars, cand, pc, auth, reconciling, providerVars>>

BeginSettings ==
  /\ gate = Free
  /\ barrier = "open"
  /\ auth # "pending"
  /\ barrier' = "waiting"
  /\ SettingsFrame /\ UNCHANGED <<gate, settingsOk>>

SettingsSwap ==
  /\ gate = Free
  /\ barrier = "waiting"
  /\ NodeIdle
  /\ gate' = Settings
  /\ barrier' = "swapping"
  /\ SettingsFrame /\ UNCHANGED settingsOk

\* The wait is given up, or the swap is done and its release function called.
SettingsRelease ==
  /\ \/ barrier = "waiting" /\ gate = Free
     \/ barrier = "swapping"
  /\ gate' = Free
  /\ barrier' = "open"
  /\ SettingsFrame /\ UNCHANGED settingsOk

\* SetSettingsReady: the settings service reports whether settings applied.
SetSettingsReady(ready) ==
  /\ settingsOk # ready
  /\ settingsOk' = ready
  /\ SettingsFrame /\ UNCHANGED <<gate, barrier>>

-----------------------------------------------------------------------------
\* Provider login.

AuthFrame ==
  /\ RowsUnchanged
  /\ UNCHANGED <<adminVars, cand, pc, gate, barrier, settingsOk, reconciling,
                 providerVars>>

\* ProviderAuthStart and ProviderAuthLogout, refused while the slot is busy.
ProviderAuthStart(to) ==
  /\ gate = Free
  /\ barrier = "open"
  /\ NodeIdle
  /\ auth # "pending"
  /\ auth' = to
  /\ AuthFrame

\* ProviderAuthCheck, which does not ask whether the slot is busy.
ProviderAuthCheck(to) ==
  /\ gate = Free
  /\ barrier = "open"
  /\ auth # "pending"
  /\ auth' = to
  /\ AuthFrame

\* A pending operation completes, expires or is cancelled.
ProviderAuthSettles(to) ==
  /\ auth = "pending"
  /\ auth' = to
  /\ AuthFrame
=============================================================================
