----------------------------- MODULE MCDurable ------------------------------
(***************************************************************************)
(* Two components that keep their state in one file, which every change    *)
(* replaces as a whole and a restart reads back: dispatch with the native  *)
(* mapping, and the settings service (MCDurable.cfg). They share no state; *)
(* each behaviour, named by part, is one of three, and the variables of    *)
(* the other component stay as they began.                                 *)
(*                                                                         *)
(* The mapping has two parts: from the start, attempts meet a write that   *)
(* fails, a crash and a second native process, with one attempt, one       *)
(* message and one process less than the bounds and a single policy; and   *)
(* after a restart that found two ended attempts, the next one takes the   *)
(* next message or retries the first, under the dialog's policy or         *)
(* another, with the same faults.                                          *)
(***************************************************************************)
EXTENDS CodexMapping

CONSTANTS Commands, Configs, Base, MaxRevision   \* NodeSettings

VARIABLES
  part,
  mem, disk, durable, worker, draftOf, prevOf, holder, ready, native, calls  \* NodeSettings

Service == INSTANCE NodeSettings WITH pc <- worker

ASSUME PartsAssumption ==
  /\ MappingAssumption
  /\ MaxAttempts >= 2 /\ MaxSeq >= 2 /\ MaxProcesses >= 1 /\ Policies # {}
  /\ Service!SettingsAssumption

serviceVars ==
  <<mem, disk, durable, worker, draftOf, prevOf, holder, ready, native, calls>>

Policy == CHOOSE p \in Policies : TRUE

\* The mapping of two attempts that ended in the first process.
EndedRecord(a, kind) ==
  [state |-> "terminal", kind |-> kind, seq |-> a, policy |-> Policy, thread |-> 1,
   turn |-> a, gen |-> 1, proof |-> {}]
TwoEnded ==
  [gen |-> 1,
   att |-> [a \in Attempts |->
              CASE a = 1 -> EndedRecord(1, "start") [] a = 2 -> EndedRecord(2, "resume")
                [] OTHER -> NoAttempt],
   dlg |-> [thread |-> 1, seq |-> 2, policy |-> Policy]]

Reopened ==
  /\ contents = TwoEnded /\ files = {TwoEnded} /\ poisoned = FALSE
  /\ up = FALSE /\ exitOwed = FALSE
  /\ live = {} /\ outcome = [a \in Attempts |-> "running"]
  /\ bound = [a \in Attempts |-> 0]
  /\ byThread = [a \in Attempts |-> 0] /\ byTurn = [a \in Attempts |-> 0]
  /\ pc = "idle" /\ cur = 0 /\ owes = 0 /\ said = [a \in Attempts |-> "nothing"]
  /\ turn = [a \in Attempts |-> IF a \in {1, 2} THEN "done" ELSE "none"] /\ noted = {1, 2}
  /\ sends = [a \in Attempts |-> IF a \in {1, 2} THEN 1 ELSE 0]
  /\ faults = 0 /\ crashes = 0

PartsInit ==
  /\ \/ part \in {"faults", "settings"} /\ Init
     \/ part = "tail" /\ Reopened
  /\ Service!Init

\* What the part from the start keeps to.
Smaller ==
  /\ contents.gen < MaxProcesses
  /\ ~Exists(MaxAttempts)
  /\ \A a \in Attempts :
       Exists(a) => contents.att[a].seq < MaxSeq /\ contents.att[a].policy = Policy

MappingPart ==
  /\ part \in {"faults", "tail"} /\ Next
  /\ part = "faults" => Smaller'
  /\ UNCHANGED <<part, serviceVars>>

SettingsPart == part = "settings" /\ Service!Next /\ UNCHANGED <<part, vars>>

PartsNext == MappingPart \/ SettingsPart

partsVars == <<part, vars, serviceVars>>

\* Every call of dispatch has a deadline (operationContext), a handler of the
\* reader runs to its end, and runApply is never abandoned while the process
\* lives; each of its calls has a deadline too.
Fairness ==
  /\ WF_partsVars(DispatchStep /\ UNCHANGED <<part, serviceVars>>)
  /\ WF_partsVars(FinishRecords /\ UNCHANGED <<part, serviceVars>>)
  /\ \A c \in Commands :
       WF_partsVars(part = "settings" /\ Service!Worker(c) /\ UNCHANGED <<part, vars>>)

PartsSpec == PartsInit /\ [][PartsNext]_partsVars /\ Fairness

-----------------------------------------------------------------------------
\* A node that is ready and not being changed runs the settings it reports as
\* applied, and these are the ones its file would restore (NodeSettings: runApply,
\* RestoreApplied, markReady).
ReadyRunsApplied == Service!ReadyRunsApplied

\* The draft of a command is given to the provider at most once, through lost
\* receipts, failed writes and restarts (NodeSettings: Apply).
CommandAppliesOnce == Service!CommandAppliesOnce

\* An operation that runApply took up gets a verdict (NodeSettings).
OperationEnds == Service!OperationEnds
=============================================================================
