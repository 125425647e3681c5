---------------------------- MODULE CodexMapping ----------------------------
(***************************************************************************)
(* The Codex adapter's dispatch of an attempt and the native mapping that  *)
(* makes it survive a crash (adapters/codex/adapter.go, store.go,          *)
(* failed_tail_retry.go).                                                  *)
(*                                                                         *)
(* dispatch runs under dispatchMu: it records an intent, asks the native   *)
(* process for a thread, records the answer, verifies the thread, records  *)
(* that a turn is about to be asked for, asks for it and records that it   *)
(* is active. The goroutine that reads the native process binds turns and  *)
(* ends attempts at the same time. The mapping is one file that each       *)
(* change replaces as a whole; when its directory could not be             *)
(* synchronised the new file is visible but may be gone after a loss of    *)
(* power, and the store refuses every change until it is reopened.         *)
(*                                                                         *)
(* One dialog is modelled: dialogs share nothing but the process. Its      *)
(* attempts are numbered in the order of their generations. A thread or a  *)
(* turn has the number of the attempt it was made for; 0 is none.          *)
(***************************************************************************)
EXTENDS Integers, FiniteSets

CONSTANTS
  MaxAttempts,   \* attempts of the dialog
  MaxSeq,        \* message sequences a context boundary may have
  Policies,      \* hashes of effective policies
  MaxProcesses,  \* bound on the processes started
  MaxFaults,     \* bound on writes of the mapping that fail
  MaxCrashes     \* bound on crashes of the node

\* What the constants have to be; the modules that put this one to work assume it.
MappingAssumption ==
  /\ MaxAttempts \in Nat /\ MaxSeq \in Nat
  /\ MaxProcesses \in Nat /\ MaxFaults \in Nat /\ MaxCrashes \in Nat
  /\ "none" \notin Policies

Attempts == 1..MaxAttempts

VARIABLES
  contents,  \* store.contents: what the adapter reads
  files,     \* the mappings a restart may find
  poisoned,  \* store.poisoned
  up,        \* the native process runs and the session is ready
  exitOwed,  \* the session ended and handleExit has not run
  live,      \* keys of adapter.attempts
  outcome,   \* what runtime.reconcile reports of a live attempt
  bound,     \* native.turnID
  byThread,  \* adapter.byThread: the attempt a thread's notices belong to
  byTurn,    \* adapter.byTurn
  pc,        \* where dispatch stands
  cur,       \* the attempt it dispatches
  owes,      \* the attempt whose terminal the reader has yet to record
  said,      \* what Start or Resume answered last for an attempt
  turn,      \* the native turn of an attempt
  noted,     \* turns whose turn/started was read
  sends,     \* how often turn/start was sent for an attempt
  faults,    \* writes that failed
  crashes    \* crashes of the node

storeVars  == <<contents, files, poisoned, faults>>
memVars    == <<live, outcome, bound, byThread, byTurn>>
callVars   == <<pc, cur, said>>
nativeVars == <<turn, noted, sends>>
procVars   == <<up, exitOwed>>
vars == <<contents, files, poisoned, up, exitOwed, live, outcome, bound, byThread, byTurn,
          pc, cur, owes, said, turn, noted, sends, faults, crashes>>

AttemptStates == {"none", "thread_dispatching", "thread_acknowledged",
                  "turn_dispatching", "active", "terminal"}

\* persistedAttempt and persistedDialog; a record that is not in the file has
\* state "none", a dialog that is not has thread 0.
Mapped ==
  [state : AttemptStates, kind : {"none", "start", "resume"}, seq : 0..MaxSeq,
   policy : Policies \cup {"none"}, thread : 0..MaxAttempts, turn : 0..MaxAttempts,
   gen : 0..MaxProcesses, proof : SUBSET Attempts]

Dialogs == [thread : 0..MaxAttempts, seq : 0..MaxSeq, policy : Policies \cup {"none"}]

MappingStates == [gen : 0..MaxProcesses, att : [Attempts -> Mapped], dlg : Dialogs]

NoAttempt ==
  [state |-> "none", kind |-> "none", seq |-> 0, policy |-> "none",
   thread |-> 0, turn |-> 0, gen |-> 0, proof |-> {}]

Empty ==
  [gen |-> 0, att |-> [a \in Attempts |-> NoAttempt],
   dlg |-> [thread |-> 0, seq |-> 0, policy |-> "none"]]

Init ==
  /\ contents = Empty /\ files = {Empty} /\ poisoned = FALSE
  /\ up = FALSE /\ exitOwed = FALSE
  /\ live = {} /\ outcome = [a \in Attempts |-> "running"]
  /\ bound = [a \in Attempts |-> 0]
  /\ byThread = [t \in Attempts |-> 0] /\ byTurn = [u \in Attempts |-> 0]
  /\ pc = "idle" /\ cur = 0 /\ owes = 0
  /\ said = [a \in Attempts |-> "nothing"]
  /\ turn = [a \in Attempts |-> "none"] /\ noted = {}
  /\ sends = [a \in Attempts |-> 0]
  /\ faults = 0 /\ crashes = 0

-----------------------------------------------------------------------------
(* The store *)

\* commitCandidateLocked on a store that is not poisoned: the file is durable.
Committed(candidate) ==
  /\ ~poisoned
  /\ contents' = candidate
  /\ files' = {candidate}
  /\ UNCHANGED <<poisoned, faults>>

\* A change that returns an error: the store is poisoned, the write failed before
\* the rename, or the directory was not synchronised after it.
NotCommitted(candidate) ==
  \/ poisoned /\ UNCHANGED storeVars
  \/ /\ ~poisoned /\ faults < MaxFaults
     /\ faults' = faults + 1
     /\ \/ UNCHANGED <<contents, files, poisoned>>
        \/ /\ contents' = candidate
           /\ files' = files \cup {candidate}
           /\ poisoned' = TRUE

Exists(a) == contents.att[a].state # "none"

SetAttempt(a, record) == [contents EXCEPT !.att[a] = record]

\* validFailedTail: every attempt from the boundary on is covered by the proof and
\* ended on the dialog's thread, and one of them is an older try of the same message.
ValidFailedTail(a, s, p, proof) ==
  /\ proof # {}
  /\ contents.dlg.thread # 0 /\ s < contents.dlg.seq /\ contents.dlg.policy = p
  /\ \A x \in proof :
       /\ contents.att[x].state = "terminal"
       /\ contents.att[x].thread = contents.dlg.thread
       /\ contents.att[x].policy = p
       /\ contents.att[x].seq \in s..contents.dlg.seq
       /\ contents.att[x].seq = s => x < a
  /\ \A y \in Attempts \ {a} : Exists(y) /\ contents.att[y].seq >= s => y \in proof
  /\ \E x \in proof : contents.att[x].seq = s

\* putIntent.
Intent(a, kind, s, p, thread, proof) ==
  SetAttempt(a, [state |-> "thread_dispatching", kind |-> kind, seq |-> s, policy |-> p,
                 thread |-> thread, turn |-> 0, gen |-> contents.gen, proof |-> proof])

\* acknowledgeThread.
ThreadAcknowledged(a, thread) ==
  SetAttempt(a, [contents.att[a] EXCEPT !.thread = thread, !.state = "thread_acknowledged"])

\* beginTurn.
TurnIntended(a) == SetAttempt(a, [contents.att[a] EXCEPT !.state = "turn_dispatching"])

\* The checks of activate against the dialog, which may have changed meanwhile.
DialogAccepts(a) ==
  LET intent == contents.att[a]
  IN contents.dlg.thread # 0 =>
       /\ contents.dlg.thread = intent.thread
       /\ intent.seq < contents.dlg.seq
            => ValidFailedTail(a, intent.seq, intent.policy, intent.proof)

\* Mutant of Activated: the boundary follows the attempt.
ActivatedKeepsNoBoundary(a) ==
  LET intent == contents.att[a]
  IN [contents EXCEPT
        !.att[a] = [intent EXCEPT !.turn = a, !.state = "active"],
        !.dlg = [thread |-> intent.thread, policy |-> intent.policy, seq |-> intent.seq]]

\* activate: the dialog's boundary never goes back.
Activated(a) ==
  LET intent == contents.att[a]
  IN [contents EXCEPT
        !.att[a] = [intent EXCEPT !.turn = a, !.state = "active"],
        !.dlg = [thread |-> intent.thread, policy |-> intent.policy,
                 seq |-> IF contents.dlg.seq > intent.seq THEN contents.dlg.seq ELSE intent.seq]]

\* terminal: nothing to do unless the attempt is active; its error is ignored by
\* every caller.
RecordTerminal(a) ==
  IF contents.att[a].state = "active"
  THEN LET candidate == SetAttempt(a, [contents.att[a] EXCEPT !.state = "terminal"])
       IN Committed(candidate) \/ NotCommitted(candidate)
  ELSE UNCHANGED storeVars

-----------------------------------------------------------------------------
(* Start, Resume and dispatch *)

FailUnknown(a) ==
  outcome' = [outcome EXCEPT ![a] = IF @ = "running" THEN "unknown" ELSE @]

\* What a dispatch that ends with an error or a failure leaves.
GiveUp ==
  /\ pc' = "idle" /\ cur' = 0
  /\ said' = [said EXCEPT ![cur] = "unknown"]

\* Resume: the dialog has a thread, the boundary is new or the attempt retries its
\* failed tail, and the policy is the dialog's.
MayResume(a, s, p, proof) ==
  /\ contents.dlg.thread # 0
  /\ s < contents.dlg.seq => ValidFailedTail(a, s, p, proof)
  /\ contents.dlg.policy = p

\* Mutant of Refused: an attempt that was about to ask for its turn is dispatched again.
RefusedWithoutTurn(a) == Exists(a) /\ contents.att[a].state # "turn_dispatching"

\* An attempt the mapping knows is never dispatched again.
Refused(a) == Exists(a)

\* The rest of dispatch up to the first call: the intent is recorded, then the
\* attempt becomes visible to the reader.
Intend(a, kind, s, p, thread, proof) ==
  LET candidate == Intent(a, kind, s, p, thread, proof)
  IN \/ /\ Committed(candidate)
        /\ live' = live \cup {a}
        /\ outcome' = [outcome EXCEPT ![a] = "running"]
        /\ bound' = [bound EXCEPT ![a] = 0]
        /\ pc' = "thread" /\ cur' = a
        /\ UNCHANGED <<byThread, byTurn, said>>
     \/ /\ NotCommitted(candidate)
        /\ said' = [said EXCEPT ![a] = "unknown"]
        /\ UNCHANGED <<memVars, pc, cur>>

\* The node dispatches into a free slot, attempts in the order of their generations.
NodeDispatches(a) ==
  /\ \A x \in live : outcome[x] # "running"
  /\ \A x \in Attempts : Exists(x) => x <= a

Start(a) ==
  /\ pc = "idle" /\ NodeDispatches(a) /\ contents.gen >= 1 /\ ~Refused(a)
  /\ contents.dlg.thread = 0
  /\ \E s \in 1..MaxSeq, p \in Policies : Intend(a, "start", s, p, 0, {})
  /\ UNCHANGED <<procVars, nativeVars, owes, crashes>>

Resume(a) ==
  /\ pc = "idle" /\ NodeDispatches(a) /\ contents.gen >= 1 /\ ~Refused(a)
  /\ \E s \in 1..MaxSeq, p \in Policies, proof \in SUBSET (Attempts \ {a}) :
       /\ MayResume(a, s, p, proof)
       \* The node proves a failed tail only where it needs one.
       /\ proof # {} => s < contents.dlg.seq
       /\ Intend(a, "resume", s, p, contents.dlg.thread, proof)
  /\ UNCHANGED <<procVars, nativeVars, owes, crashes>>

\* A dispatch of an attempt the mapping knows says started only for a live one.
Repeat(a) ==
  /\ pc = "idle" /\ Exists(a)
  /\ said' = [said EXCEPT ![a] =
       IF contents.att[a].state = "active" /\ a \in live /\ outcome[a] = "running"
       THEN "started" ELSE "unknown"]
  /\ UNCHANGED <<storeVars, procVars, memVars, pc, cur, nativeVars, owes, crashes>>

\* Mutant of CallFailed: only a process that is up fails a call.
CallFailedWhileUp ==
  /\ pc \in {"thread", "verify", "sent"} /\ up
  /\ FailUnknown(cur)
  /\ GiveUp
  /\ UNCHANGED <<storeVars, procVars, live, bound, byThread, byTurn, nativeVars, owes, crashes>>

\* A call of the native process failed, timed out, or its answer was not accepted.
CallFailed ==
  /\ pc \in {"thread", "verify", "sent"}
  /\ FailUnknown(cur)
  /\ GiveUp
  /\ UNCHANGED <<storeVars, procVars, live, bound, byThread, byTurn, nativeVars, owes, crashes>>

\* thread/start or thread/resume was answered: the answer is recorded and the
\* thread's notices are the attempt's from now on.
ThreadReply ==
  /\ pc = "thread" /\ up
  /\ LET thread == IF contents.att[cur].kind = "start" THEN cur ELSE contents.att[cur].thread
         candidate == ThreadAcknowledged(cur, thread)
     IN \/ /\ Committed(candidate)
           /\ byThread' = [byThread EXCEPT ![thread] = cur]
           /\ pc' = "verify"
           /\ UNCHANGED <<outcome, cur, said>>
        \/ /\ NotCommitted(candidate)
           /\ FailUnknown(cur)
           /\ GiveUp
           /\ UNCHANGED byThread
  /\ UNCHANGED <<procVars, live, bound, byTurn, nativeVars, owes, crashes>>

\* verifyThreadFeatures and verifyMCPInventory agree (module CodexVerify).
Verified ==
  /\ pc = "verify" /\ up
  /\ pc' = "begin"
  /\ UNCHANGED <<storeVars, procVars, memVars, cur, said, nativeVars, owes, crashes>>

BeginTurn ==
  /\ pc = "begin"
  /\ LET candidate == TurnIntended(cur)
     IN \/ /\ Committed(candidate)
           /\ pc' = "send"
           /\ UNCHANGED <<outcome, cur, said>>
        \/ /\ NotCommitted(candidate)
           /\ FailUnknown(cur)
           /\ GiveUp
  /\ UNCHANGED <<procVars, live, bound, byThread, byTurn, nativeVars, owes, crashes>>

\* turn/start is written; the native process begins the turn, or never reads it.
SendTurn ==
  /\ pc = "send"
  /\ sends' = [sends EXCEPT ![cur] = @ + 1]
  /\ \/ up /\ turn' = [turn EXCEPT ![cur] = "running"]
     \/ UNCHANGED turn
  /\ pc' = "sent"
  /\ UNCHANGED <<storeVars, procVars, memVars, cur, said, noted, owes, crashes>>

\* bindTurn: an attempt has one turn and a turn one attempt.
BindTurn(a, u) ==
  /\ bound' = [bound EXCEPT ![a] = IF @ \in {0, u} THEN u ELSE @]
  /\ byTurn' = [byTurn EXCEPT ![u] = IF bound[a] \in {0, u} /\ @ = 0 THEN a ELSE @]

Binds(a, u) == bound[a] \in {0, u} /\ byTurn[u] \in {0, a}

\* turn/start was answered.
TurnReply ==
  /\ pc = "sent" /\ turn[cur] # "none"
  /\ BindTurn(cur, cur)
  /\ IF Binds(cur, cur)
     THEN pc' = "activate" /\ UNCHANGED <<outcome, cur, said>>
     ELSE FailUnknown(cur) /\ GiveUp
  /\ UNCHANGED <<storeVars, procVars, live, byThread, nativeVars, owes, crashes>>

ActivateStore ==
  /\ pc = "activate"
  /\ \/ /\ DialogAccepts(cur)
        /\ Committed(Activated(cur))
        /\ pc' = "activated"
        /\ UNCHANGED <<outcome, cur, said>>
     \/ /\ \/ ~DialogAccepts(cur) /\ UNCHANGED storeVars
           \/ DialogAccepts(cur) /\ NotCommitted(Activated(cur))
        /\ FailUnknown(cur)
        /\ GiveUp
  /\ UNCHANGED <<procVars, live, bound, byThread, byTurn, nativeVars, owes, crashes>>

\* runtime.activate, and the terminal of an attempt that ended before the mapping
\* knew that it was active.
Return ==
  /\ pc = "activated"
  /\ IF outcome[cur] = "running" THEN UNCHANGED storeVars ELSE RecordTerminal(cur)
  /\ pc' = "idle" /\ cur' = 0
  /\ said' = [said EXCEPT ![cur] = "started"]
  /\ UNCHANGED <<procVars, memVars, nativeVars, owes, crashes>>

-----------------------------------------------------------------------------
(* The goroutine that reads the native process *)

\* turn/started: the turn belongs to the attempt its thread was last given to.
NoticeStarted(u) ==
  /\ up /\ owes = 0 /\ turn[u] = "running" /\ u \notin noted
  /\ noted' = noted \cup {u}
  /\ LET a == byThread[contents.att[u].thread]
     IN IF contents.att[u].thread = 0 \/ a = 0 THEN UNCHANGED memVars
        ELSE /\ BindTurn(a, u)
             /\ IF Binds(a, u) THEN UNCHANGED outcome ELSE FailUnknown(a)
             /\ UNCHANGED <<live, byThread>>
  /\ UNCHANGED <<storeVars, procVars, callVars, turn, sends, owes, crashes>>

\* finish up to runtime.finish. The outcome is unknown when a tool or an answer of
\* the attempt is still open.
Finished(a, result) ==
  /\ outcome' = [outcome EXCEPT ![a] = IF @ = "running" THEN result ELSE @]
  /\ owes' = a

\* turn/completed of a turn.
NoticeCompleted(u) ==
  /\ up /\ owes = 0 /\ turn[u] = "running" /\ u \in noted
  /\ turn' = [turn EXCEPT ![u] = "done"]
  /\ IF byTurn[u] # 0
     THEN \E result \in {"result", "unknown"} : Finished(byTurn[u], result)
     ELSE UNCHANGED <<outcome, owes>>
  /\ UNCHANGED <<storeVars, procVars, live, bound, byThread, byTurn, callVars, noted, sends, crashes>>

\* An error notice that announces no retry ends the attempt; the turn goes on to
\* its own turn/completed.
NoticeError(u) ==
  /\ up /\ owes = 0 /\ turn[u] = "running" /\ u \in noted /\ byTurn[u] # 0
  /\ \E result \in {"result", "unknown"} : Finished(byTurn[u], result)
  /\ UNCHANGED <<storeVars, procVars, live, bound, byThread, byTurn, callVars, nativeVars, crashes>>

\* store.terminal at the end of finish.
FinishRecords ==
  /\ owes # 0
  /\ RecordTerminal(owes)
  /\ owes' = 0
  /\ UNCHANGED <<procVars, memVars, callVars, nativeVars, crashes>>

AllUnknown ==
  outcome' = [a \in Attempts |-> IF a \in live /\ outcome[a] = "running" THEN "unknown" ELSE outcome[a]]

\* failActive on a notice outside the protocol, or a queue of events that overflowed.
FailActive ==
  /\ up /\ owes = 0 /\ \E a \in live : outcome[a] = "running"
  /\ AllUnknown
  /\ UNCHANGED <<storeVars, procVars, live, bound, byThread, byTurn, callVars, nativeVars, owes, crashes>>

-----------------------------------------------------------------------------
(* The native process and the node's process *)

KillTurns == turn' = [u \in Attempts |-> IF turn[u] = "running" THEN "killed" ELSE turn[u]]

\* The native process ends; the calls of dispatch fail from now on.
Exit ==
  /\ up /\ owes = 0
  /\ up' = FALSE /\ exitOwed' = TRUE
  /\ KillTurns
  /\ UNCHANGED <<storeVars, memVars, callVars, noted, sends, owes, crashes>>

HandleExit ==
  /\ exitOwed
  /\ exitOwed' = FALSE
  /\ AllUnknown
  /\ UNCHANGED <<storeVars, up, live, bound, byThread, byTurn, callVars, nativeVars, owes, crashes>>

\* beginProcess: a node that starts, or settings that are applied to an idle node.
\* The session of a process that runs is closed first.
BeginProcess ==
  /\ pc = "idle" /\ owes = 0 /\ ~exitOwed
  /\ \A a \in live : outcome[a] # "running"
  /\ contents.gen < MaxProcesses
  /\ KillTurns
  /\ LET candidate == [contents EXCEPT !.gen = @ + 1]
     IN \/ Committed(candidate) /\ up' = TRUE
        \/ NotCommitted(candidate) /\ up' = FALSE
  /\ UNCHANGED <<exitOwed, memVars, callVars, noted, sends, owes, crashes>>

\* The node's process ends at any point; openMappingStore reads one of the files
\* there may be.
Crash ==
  /\ crashes < MaxCrashes
  /\ crashes' = crashes + 1
  /\ contents' \in files
  /\ poisoned' = FALSE
  /\ up' = FALSE /\ exitOwed' = FALSE
  /\ live' = {} /\ outcome' = [a \in Attempts |-> "running"]
  /\ bound' = [a \in Attempts |-> 0]
  /\ byThread' = [t \in Attempts |-> 0] /\ byTurn' = [u \in Attempts |-> 0]
  /\ pc' = "idle" /\ cur' = 0 /\ owes' = 0
  /\ said' = [a \in Attempts |-> "nothing"]
  /\ KillTurns
  /\ UNCHANGED <<files, noted, sends, faults>>

DispatchStep ==
  \/ CallFailed \/ ThreadReply \/ Verified \/ BeginTurn \/ SendTurn \/ TurnReply
  \/ ActivateStore \/ Return

Next ==
  \/ \E a \in Attempts : Start(a) \/ Resume(a) \/ Repeat(a)
  \/ DispatchStep
  \/ \E u \in Attempts : NoticeStarted(u) \/ NoticeCompleted(u) \/ NoticeError(u)
  \/ FinishRecords \/ FailActive
  \/ Exit \/ HandleExit \/ BeginProcess \/ Crash

Spec == Init /\ [][Next]_vars

-----------------------------------------------------------------------------
(* Properties *)

\* TypeOK: a type for every variable.
TypeOK ==
  /\ contents \in MappingStates /\ files \subseteq MappingStates /\ contents \in files
  /\ poisoned \in BOOLEAN /\ up \in BOOLEAN /\ exitOwed \in BOOLEAN
  /\ live \subseteq Attempts
  /\ outcome \in [Attempts -> {"running", "result", "unknown"}]
  /\ bound \in [Attempts -> 0..MaxAttempts]
  /\ byThread \in [Attempts -> 0..MaxAttempts] /\ byTurn \in [Attempts -> 0..MaxAttempts]
  /\ pc \in {"idle", "thread", "verify", "begin", "send", "sent", "activate", "activated"}
  /\ cur \in 0..MaxAttempts /\ (pc # "idle" => cur # 0)
  /\ owes \in 0..MaxAttempts
  /\ said \in [Attempts -> {"nothing", "started", "unknown"}]
  /\ turn \in [Attempts -> {"none", "running", "done", "killed"}]
  /\ noted \subseteq Attempts /\ sends \in [Attempts -> Nat]
  /\ faults \in Nat /\ crashes \in Nat

Sent == {"turn_dispatching", "active", "terminal"}

\* WriteAhead: a turn that was asked for is in every mapping a restart may find,
\* even after a loss of power following a write whose outcome was uncertain
\* (beginTurn before turn/start in dispatch).
WriteAhead == \A a \in Attempts : sends[a] > 0 => \A f \in files : f.att[a].state \in Sent

\* TurnSentOnce: turn/start is sent at most once for an attempt, across repeated
\* Start calls, lost acknowledgements, failed writes and restarts.
TurnSentOnce == \A a \in Attempts : sends[a] <= 1

\* StartedIsDurable: when Start or Resume says started, the turn exists and every
\* mapping a restart may find has it under the dialog's thread.
StartedIsDurable ==
  \A a \in Attempts : said[a] = "started" =>
    /\ turn[a] # "none"
    /\ \A f \in files : f.att[a].state \in {"active", "terminal"} /\ f.att[a].thread = f.dlg.thread

\* DialogIsStable: in every mapping a restart may find, a dialog that had a thread keeps
\* it and its policy, and its boundary does not go back, not even when a failed
\* tail is retried.
DialogIsStable ==
  [][\A f \in files' : \E g \in files :
       g.dlg.thread # 0 => /\ f.dlg.thread = g.dlg.thread
                           /\ f.dlg.policy = g.dlg.policy
                           /\ f.dlg.seq >= g.dlg.seq]_vars

\* EndIsRecorded: when no write failed, an attempt that ended is terminal in the
\* mapping once dispatch and the reader have done their part, whichever of
\* turn/completed and the activation came first.
EndIsRecorded ==
  \A a \in live :
    faults = 0 /\ owes = 0 /\ cur # a /\ said[a] = "started" /\ outcome[a] = "result"
      => contents.att[a].state = "terminal"

\* OneAttemptPerTurn: the notices of a turn reach no attempt but the one it was
\* started for, when that attempt was told that it started.
OneAttemptPerTurn ==
  \A a \in live : said[a] = "started" /\ pc = "idle" => bound[a] = a /\ byTurn[a] = a

\* ConfirmPriorTerminal: what the node's recovery takes as a proof.
ConfirmPriorTerminal(a) ==
  /\ a \notin live
  /\ contents.att[a].state = "terminal"
  /\ contents.att[a].gen \in 1..(contents.gen - 1)

\* ConfirmedIsOver: a turn that recovery takes for ended does not run and will not run again.
ConfirmedIsOver ==
  \A a \in Attempts : ConfirmPriorTerminal(a) => turn[a] \in {"done", "killed"}

\* MappingIsTrue: what a restart may find covers what the native process was asked for and
\* what the node was told, names for each attempt its own turn, and confirms no end of a
\* turn that still runs.
MappingIsTrue ==
  /\ TypeOK /\ WriteAhead /\ TurnSentOnce /\ StartedIsDurable /\ EndIsRecorded
  /\ OneAttemptPerTurn /\ ConfirmedIsOver

\* DispatchEnds: a dispatch comes to an end, also when the native process is gone.
DispatchEnds == []<>(pc = "idle")

\* ConfirmedMeansEnded: what the comment of ConfirmPriorTerminal says: the native turn
\* reached a terminal boundary in an earlier process.
ConfirmedMeansEnded ==
  \A a \in Attempts : ConfirmPriorTerminal(a) => turn[a] = "done"
=============================================================================
