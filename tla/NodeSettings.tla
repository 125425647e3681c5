---------------------------- MODULE NodeSettings ----------------------------
(***************************************************************************)
(* The settings service of a node (internal/nodesettings/service.go): a    *)
(* draft, the settings that were last applied, and the receipts of apply   *)
(* commands, kept in one file that every change replaces as a whole.       *)
(*                                                                         *)
(* Apply stores a receipt and starts runApply, a goroutine that waits for  *)
(* the node's fence (BeginSettingsChange, module NodeBarrier), restarts    *)
(* the native process with the draft, confirms it in the file, and undoes  *)
(* it when the file cannot be written.                                     *)
(*                                                                         *)
(* Writing the file has three outcomes (persistLocked): it is durable; it  *)
(* failed before the rename and nothing changed; or the rename happened    *)
(* and the directory could not be synchronised, so that the new file is    *)
(* read back now and may be gone after a loss of power.                    *)
(***************************************************************************)
EXTENDS Integers, FiniteSets

CONSTANTS
  Commands,     \* ids of apply commands
  Configs,      \* contents a draft may have
  Base,         \* the settings of a node that never applied any
  MaxRevision   \* bound on draft revisions

\* What the constants have to be; the module that puts this one to work assumes it.
SettingsAssumption ==
  /\ MaxRevision \in Nat
  /\ Base \notin Configs
  /\ "down" \notin Configs /\ Base # "down"
  /\ "nobody" \notin Commands

VARIABLES
  mem,      \* service.state
  disk,     \* the file as it is read now
  durable,  \* what the file may hold after a loss of power
  pc,       \* where the goroutine runApply of a command stands
  draftOf,  \* the draft runApply was given
  prevOf,   \* the applied settings runApply read before it began
  holder,   \* the command whose runApply holds the node's settings fence
  ready,    \* ~settingsNotReady of the node
  native,   \* the settings the native process runs with, or "down"
  calls     \* how often the provider was asked to apply a command's draft

vars == <<mem, disk, durable, pc, draftOf, prevOf, holder, ready, native, calls>>

storeVars  == <<mem, disk, durable>>
workerVars == <<pc, draftOf, prevOf>>
nodeVars   == <<holder, ready, native, calls>>

Nobody   == "nobody"
Down     == "down"
Settings == Configs \cup {Base}

\* persistedState: every receipt has the revision it targets.
States ==
  [draftRev   : 0..MaxRevision,
   draft      : Settings,
   appliedRev : 0..MaxRevision,
   applied    : Settings,
   status     : [Commands -> {"none", "running", "succeeded", "failed"}],
   target     : [Commands -> 0..MaxRevision]]

\* The steps of runApply.  "orphan" marks a receipt whose write was
\* indeterminate: Apply returned without starting the goroutine.
Working == {"begun", "checked", "waiting", "fenced", "stopping", "applied",
            "failing", "broken"}
Undoing == {"undo", "reverted", "unreverted"}
Steps   == Working \cup Undoing
           \cup {"idle", "orphan", "confirmed", "doubtful", "done"}

TypeOK ==
  /\ mem \in States /\ disk \in States
  /\ durable \subseteq States
  /\ pc \in [Commands -> Steps]
  /\ draftOf \in [Commands -> Settings]
  /\ prevOf \in [Commands -> Settings]
  /\ holder \in Commands \cup {Nobody}
  /\ ready \in BOOLEAN
  /\ native \in Settings \cup {Down}
  /\ calls \in [Commands -> Nat]

-----------------------------------------------------------------------------
\* The file.

Outcomes == {"ok", "failed", "indeterminate"}

\* persistLocked of state s.
Persist(s, outcome) ==
  /\ disk' = IF outcome = "failed" THEN disk ELSE s
  /\ durable' = CASE outcome = "ok"     -> {s}
                  [] outcome = "failed" -> durable
                  [] OTHER              -> durable \cup {s}

NewState ==
  [draftRev |-> 0, draft |-> Base, appliedRev |-> 0, applied |-> Base,
   status |-> [c \in Commands |-> "none"], target |-> [c \in Commands |-> 0]]

\* Open of a new data directory, then RestoreApplied, which has nothing to do.
Init ==
  /\ mem = NewState /\ disk = NewState /\ durable = {NewState}
  /\ pc = [c \in Commands |-> "idle"]
  /\ draftOf = [c \in Commands |-> Base]
  /\ prevOf = [c \in Commands |-> Base]
  /\ holder = Nobody
  /\ ready = TRUE
  /\ native = Base
  /\ calls = [c \in Commands |-> 0]

-----------------------------------------------------------------------------
\* Commands.

Drafted(config) == [mem EXCEPT !.draft = config, !.draftRev = @ + 1]

\* Update: an indeterminate write is read back, so the draft stays.
Update(config, outcome) ==
  /\ mem.draftRev < MaxRevision
  /\ Persist(Drafted(config), outcome)
  /\ mem' = IF outcome = "failed" THEN mem ELSE Drafted(config)
  /\ UNCHANGED <<workerVars, nodeVars>>

\* Apply of a command that has no receipt; for another one the receipt is
\* returned as it is and nothing changes.  runApply is started only when the
\* receipt is surely in the file.
Apply(c, outcome) ==
  LET next == [mem EXCEPT !.status[c] = "running", !.target[c] = mem.draftRev]
  IN
  /\ mem.status[c] = "none"
  /\ mem.draftRev > 0
  /\ \A other \in Commands : mem.status[other] # "running"
  /\ Persist(next, outcome)
  /\ mem' = IF outcome = "failed" THEN mem ELSE next
  /\ IF outcome = "ok"
     THEN /\ pc' = [pc EXCEPT ![c] = "begun"]
          /\ draftOf' = [draftOf EXCEPT ![c] = mem.draft]
     ELSE /\ pc' = [pc EXCEPT ![c] = IF outcome = "failed" THEN @ ELSE "orphan"]
          /\ UNCHANGED draftOf
  /\ UNCHANGED <<prevOf, nodeVars>>

-----------------------------------------------------------------------------
\* runApply.

\* Adapter.ApplySettings, asked for a configuration: it runs, or the process is
\* as before, or the rollback inside the adapter failed and nothing runs.
ApplySettings(config, result) ==
  /\ result \in {"ok", "down"} => native # Down
  /\ native' = CASE result = "ok"   -> config
                 [] result = "down" -> Down
                 [] OTHER           -> native

\* The applied settings are remembered and the draft passes PreflightSettings,
\* or not.
Preflight(c) ==
  /\ pc[c] = "begun"
  /\ prevOf' = [prevOf EXCEPT ![c] = mem.applied]
  /\ \E step \in {"checked", "failing"} : pc' = [pc EXCEPT ![c] = step]
  /\ UNCHANGED <<storeVars, draftOf, nodeVars>>

\* phase("waiting") and phase("stopping"): the file is written.
Phase(c, outcome) ==
  /\ pc[c] \in {"checked", "fenced"}
  /\ Persist(mem, outcome)
  /\ pc' = [pc EXCEPT ![c] =
              IF outcome # "ok" THEN "failing"
              ELSE IF pc[c] = "checked" THEN "waiting" ELSE "stopping"]
  /\ UNCHANGED <<mem, draftOf, prevOf, nodeVars>>

\* BeginSettingsChange returns with the fence closed, or with an error: the
\* time is over, a login is pending.  It blocks while startGate is held.
BeginSettingsChange(c) ==
  /\ pc[c] = "waiting" /\ holder = Nobody
  /\ \/ pc' = [pc EXCEPT ![c] = "fenced"] /\ holder' = c
     \/ pc' = [pc EXCEPT ![c] = "failing"] /\ UNCHANGED holder
  /\ UNCHANGED <<storeVars, draftOf, prevOf, ready, native, calls>>

Swap(c) ==
  /\ pc[c] = "stopping"
  /\ calls' = [calls EXCEPT ![c] = @ + 1]
  /\ \E result \in {"ok", "restored", "down"} :
       /\ ApplySettings(draftOf[c], result)
       /\ pc' = [pc EXCEPT ![c] = CASE result = "ok"       -> "applied"
                                    [] result = "restored" -> "failing"
                                    [] OTHER               -> "broken"]
  /\ UNCHANGED <<storeVars, draftOf, prevOf, holder, ready>>

\* The draft becomes the applied settings, in memory and in the file.  When
\* the file could not be written they are taken back in memory; the receipt
\* still says "succeeded" until the last write of runApply.
Confirm(c, outcome) ==
  LET next == [mem EXCEPT !.status[c] = "succeeded", !.applied = draftOf[c],
                          !.appliedRev = mem.target[c]]
  IN
  /\ pc[c] = "applied"
  /\ Persist(next, outcome)
  /\ mem' = IF outcome = "ok" THEN next
            ELSE [mem EXCEPT !.status[c] = "succeeded"]
  /\ pc' = [pc EXCEPT ![c] = IF outcome = "ok" THEN "confirmed" ELSE "undo"]
  /\ UNCHANGED <<draftOf, prevOf, nodeVars>>

\* The native process is restarted with the settings from before.
Undo(c) ==
  /\ pc[c] = "undo"
  /\ \E result \in {"ok", "restored", "down"} :
       /\ ApplySettings(prevOf[c], result)
       /\ pc' = [pc EXCEPT ![c] = IF result = "ok" THEN "reverted"
                                  ELSE "unreverted"]
  /\ UNCHANGED <<storeVars, draftOf, prevOf, holder, ready, calls>>

\* The receipt says "failed", and the file is written once more.
Fail(c, outcome) ==
  LET next == [mem EXCEPT !.status[c] = "failed"] IN
  /\ pc[c] \in {"failing", "broken", "reverted", "unreverted"}
  /\ Persist(next, outcome)
  /\ mem' = next
  /\ pc' = [pc EXCEPT ![c] =
              IF @ \in {"broken", "unreverted"} \/ outcome # "ok"
              THEN "doubtful" ELSE "done"]
  /\ UNCHANGED <<draftOf, prevOf, nodeVars>>

\* Mutants of Finish: the doubt is not reported; the fence stays closed.
FinishUnreported(c) ==
  /\ pc[c] \in {"confirmed", "doubtful", "done"}
  /\ ready' = (pc[c] = "confirmed" \/ ready)
  /\ holder' = IF holder = c THEN Nobody ELSE holder
  /\ pc' = [pc EXCEPT ![c] = "idle"]
  /\ UNCHANGED <<storeVars, draftOf, prevOf, native, calls>>

\* Mutant of Finish: the fence is kept unless the settings are confirmed.
FinishFenced(c) ==
  /\ pc[c] \in {"confirmed", "doubtful", "done"}
  /\ ready' = CASE pc[c] = "confirmed" -> TRUE
               [] pc[c] = "doubtful"  -> FALSE
               [] OTHER               -> ready
  /\ holder' = IF pc[c] = "confirmed" THEN Nobody ELSE holder
  /\ pc' = [pc EXCEPT ![c] = "idle"]
  /\ UNCHANGED <<storeVars, draftOf, prevOf, native, calls>>

\* markReady, then the deferred release of the fence, when runApply got it.
Finish(c) ==
  /\ pc[c] \in {"confirmed", "doubtful", "done"}
  /\ ready' = CASE pc[c] = "confirmed" -> TRUE
               [] pc[c] = "doubtful"  -> FALSE
               [] OTHER               -> ready
  /\ holder' = IF holder = c THEN Nobody ELSE holder
  /\ pc' = [pc EXCEPT ![c] = "idle"]
  /\ UNCHANGED <<storeVars, draftOf, prevOf, native, calls>>

-----------------------------------------------------------------------------
\* Startup.

\* Mutant of Recovered: the operation is dropped.
RecoveredDropped(s) ==
  [s EXCEPT !.status = [c \in Commands |-> IF s.status[c] = "running"
                                           THEN "none" ELSE s.status[c]]]

\* Open: an operation nobody runs any more has failed.
Recovered(s) ==
  [s EXCEPT !.status = [c \in Commands |-> IF s.status[c] = "running"
                                           THEN "failed" ELSE s.status[c]]]

\* The process ends, with or without a loss of power, and is started again.
\* RestoreApplied takes the confirmed settings, never the draft.  Open writes
\* the file only if it recovered an operation, and the process does not come
\* up unless that write succeeds.
Restart(s, powerLost, restored) ==
  /\ s \in durable
  /\ powerLost \/ s = disk
  /\ mem' = Recovered(s) /\ disk' = Recovered(s)
  /\ durable' = IF powerLost \/ Recovered(s) # s THEN {Recovered(s)} ELSE durable
  /\ pc' = [c \in Commands |-> "idle"]
  /\ holder' = Nobody
  /\ ready' = (s.appliedRev = 0 \/ restored)
  /\ native' \in IF s.appliedRev = 0 THEN {Base}
                ELSE IF restored THEN {s.applied} ELSE {Base, Down}
  /\ UNCHANGED <<draftOf, prevOf, calls>>

-----------------------------------------------------------------------------
Worker(c) ==
  \/ Preflight(c)
  \/ \E outcome \in Outcomes : Phase(c, outcome)
  \/ BeginSettingsChange(c)
  \/ Swap(c)
  \/ \E outcome \in Outcomes : Confirm(c, outcome)
  \/ Undo(c)
  \/ \E outcome \in Outcomes : Fail(c, outcome)
  \/ Finish(c)

Next ==
  \/ \E config \in Configs, outcome \in Outcomes : Update(config, outcome)
  \/ \E c \in Commands, outcome \in Outcomes : Apply(c, outcome)
  \/ \E c \in Commands : Worker(c)
  \/ \E s \in durable, powerLost, restored \in BOOLEAN :
       Restart(s, powerLost, restored)

Spec == Init /\ [][Next]_vars

-----------------------------------------------------------------------------
\* While the node accepts work and no swap is going on, the native process runs
\* exactly the settings the service reports as applied, and these are the ones
\* the file would restore: whatever runApply, its undo, the writes of the file
\* and restarts did before (runApply, RestoreApplied, markReady).
ReadyRunsApplied ==
  ready /\ holder = Nobody => native = mem.applied /\ disk.applied = mem.applied

\* The draft of a command is given to the provider at most once, also when the
\* receipt was lost or the process restarted and the client sends the command
\* again (Apply, Commands and CommandPayloads of persistedState).
CommandAppliesOnce == \A c \in Commands : calls[c] <= 1

\* An operation that runApply took up gets a verdict, whatever it waits for
\* and whatever fails on its way.
OperationEnds ==
  \A c \in Commands :
    pc[c] \in Working ~> mem.status[c] # "running" /\ pc[c] = "idle"
=============================================================================
