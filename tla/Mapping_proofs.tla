---------------------------- MODULE Mapping_proofs ----------------------------
(***************************************************************************)
(* Theorems about dispatch and the native mapping (CodexMapping), alone    *)
(* and as MCDurable puts it to work: for any number of attempts, messages  *)
(* and policies and any number of processes, failed writes and crashes,    *)
(* from an empty mapping and from the mapping of two ended attempts.       *)
(***************************************************************************)
EXTENDS MCDurable, TLAPS

-----------------------------------------------------------------------------
\* A mapping a restart may find: a thread that was answered is known, the turn of an
\* active attempt exists under the dialog's thread, and a turn that was asked for was
\* written ahead.
Ended == {"active", "terminal"}

FileOk(f) ==
  \A a \in Attempts :
    /\ f.att[a].kind = "resume" => f.att[a].thread # 0
    /\ f.att[a].state \in {"thread_acknowledged"} \cup Sent => f.att[a].thread # 0
    /\ f.att[a].state \in Ended => f.att[a].thread = f.dlg.thread /\ turn[a] # "none"
    /\ sends[a] > 0 => f.att[a].state \in Sent

\* The files are such mappings, and without a failed write there is one.
FilesInv ==
  /\ \A f \in files : FileOk(f)
  /\ poisoned => faults > 0
  /\ faults = 0 => files = {contents}

\* What was begun in this process, and what the native process has of it.
TurnInv ==
  \A a \in Attempts :
    /\ turn[a] = "running" => a \in live
    /\ turn[a] # "none" => sends[a] > 0
    /\ sends[a] <= 1

\* An attempt of this process that is active has its turn and its turn has it; in which
\* files it is depends on how its activation ended.
LiveInv ==
  \A a \in live : contents.att[a].state \in Ended =>
    /\ bound[a] = a /\ byTurn[a] = a
    /\ outcome[a] = "running" => \A f \in files : f.att[a].state \in Ended
    /\ outcome[a] = "result" /\ faults = 0 /\ contents.att[a].state = "active" =>
         owes = a \/ (pc = "activated" /\ cur = a)

\* Who was told that it started is an attempt of this process and in every file.
SaidInv ==
  \A a \in Attempts :
    said[a] = "started" => a \in live /\ \A f \in files : f.att[a].state \in Ended

\* Where dispatch stands, and what the mapping has of its attempt by then.
StateAt ==
  [p \in {"thread", "verify", "begin", "send", "sent", "activate"} |->
     CASE p = "thread" -> "thread_dispatching"
       [] p \in {"verify", "begin"} -> "thread_acknowledged"
       [] OTHER -> "turn_dispatching"]

DispatchInv ==
  /\ pc # "idle" => cur \in live
  /\ pc \notin {"idle", "activated"} =>
       /\ contents.att[cur].state = StateAt[pc]
       /\ IF contents.att[cur].kind = "start" THEN contents.dlg.thread = 0
          ELSE /\ contents.att[cur].kind = "resume"
               /\ contents.att[cur].policy = contents.dlg.policy
  /\ pc \in {"thread", "verify", "begin", "send"} => sends[cur] = 0
  /\ pc \in {"send", "sent", "activate"} => \A f \in files : f.att[cur].state \in Sent
  /\ pc \in {"activate", "activated"}
        => bound[cur] = cur /\ byTurn[cur] = cur /\ turn[cur] # "none"
  /\ pc = "activated" => \A f \in files : f.att[cur].state \in Ended

\* The inductive invariant of dispatch and the native mapping.
MappingInv == TypeOK /\ FilesInv /\ TurnInv /\ LiveInv /\ SaidInv /\ DispatchInv

\* A type for the variables of the store.
StoreTypeOK ==
  /\ contents \in MappingStates /\ files \subseteq MappingStates /\ contents \in files
  /\ poisoned \in BOOLEAN /\ faults \in Nat

USE DEF StoreTypeOK, storeVars, memVars, callVars, nativeVars, procVars

-----------------------------------------------------------------------------
\* What a write of the mapping may leave.

\* A change c of the mapping was committed, or returned an error.
Writes(c) == Committed(c) \/ NotCommitted(c)

\* A restart finds what it could find before, or the change; and without a failed
\* write it finds the change.
LEMMA WriteLeaves ==
  ASSUME TypeOK, FilesInv, NEW c, Writes(c)
  PROVE  /\ contents' \in {contents, c} /\ contents' \in files'
         /\ \A f \in files' : f \in files \/ f = c
         /\ faults' \in Nat /\ poisoned' \in BOOLEAN
         /\ faults' = 0 => faults = 0
         /\ poisoned' => faults' > 0
         /\ faults' = 0 => contents' = c /\ files' = {c}
         /\ Committed(c) => contents' = c /\ files' = {c}
<1>1. faults \in Nat /\ poisoned \in BOOLEAN /\ contents \in files
  BY DEF TypeOK
<1>2. CASE Committed(c)
  BY <1>1, <1>2 DEF Committed, FilesInv
<1>3. CASE NotCommitted(c) /\ ~Committed(c)
  <2>1. CASE poisoned /\ UNCHANGED storeVars
    BY <1>1, <1>3, <2>1 DEF FilesInv
  <2>2. CASE faults' = faults + 1 /\ UNCHANGED <<contents, files, poisoned>>
    BY <1>1, <1>3, <2>2
  <2>3. CASE /\ faults' = faults + 1 /\ contents' = c
             /\ files' = files \cup {c} /\ poisoned' = TRUE
    BY <1>1, <1>3, <2>3
  <2> QED  BY <1>3, <2>1, <2>2, <2>3 DEF NotCommitted
<1> QED  BY <1>2, <1>3 DEF Writes

\* The files stay sound when the change is.
LEMMA WriteKeeps ==
  ASSUME TypeOK, FilesInv, NEW c, Writes(c), c \in MappingStates, FileOk(c)',
         \A f \in files : FileOk(f)'
  PROVE  /\ FilesInv'
         /\ StoreTypeOK'
<1>1. /\ contents' \in {contents, c} /\ contents' \in files'
      /\ \A f \in files' : f \in files \/ f = c
      /\ faults' \in Nat /\ poisoned' \in BOOLEAN
      /\ poisoned' => faults' > 0
      /\ faults' = 0 => contents' = c /\ files' = {c}
  BY WriteLeaves
<1>2. contents \in MappingStates /\ files \subseteq MappingStates
  BY DEF TypeOK
<1>3. files' \subseteq MappingStates
  BY <1>1, <1>2
<1>4. \A f \in files' : FileOk(f)'
  BY <1>1
<1> QED  BY <1>1, <1>2, <1>3, <1>4 DEF FilesInv

\* Whether a mapping is sound depends on the turns that exist and were asked for.
LEMMA FileOkFixed ==
  ASSUME UNCHANGED sends, \A a \in Attempts : turn[a] # "none" => turn'[a] # "none",
         NEW f, FileOk(f)
  PROVE  FileOk(f)'
BY DEF FileOk

\* The records of the mapping.
LEMMA RecordTypes ==
  ASSUME MappingAssumption, TypeOK, NEW a \in Attempts
  PROVE  /\ contents \in [gen : 0..MaxProcesses, att : [Attempts -> Mapped], dlg : Dialogs]
         /\ contents.att \in [Attempts -> Mapped] /\ contents.att[a] \in Mapped
         /\ contents.dlg \in Dialogs /\ contents.gen \in 0..MaxProcesses
         /\ contents \in files
         /\ MaxAttempts \in Nat /\ a \in 0..MaxAttempts /\ a # 0
         /\ \A r \in Mapped : SetAttempt(a, r) \in MappingStates
<1>1. MaxAttempts \in Nat /\ a \in 0..MaxAttempts /\ a # 0
  BY DEF MappingAssumption, Attempts
<1>2. contents \in MappingStates /\ contents \in files
  BY DEF TypeOK
<1>3. contents \in [gen : 0..MaxProcesses, att : [Attempts -> Mapped], dlg : Dialogs]
  BY <1>2 DEF MappingStates
<1>4. contents.att \in [Attempts -> Mapped] /\ contents.att[a] \in Mapped
  BY <1>3
<1>5. ASSUME NEW r \in Mapped PROVE SetAttempt(a, r) \in MappingStates
  <2>1. [contents.att EXCEPT ![a] = r] \in [Attempts -> Mapped]
    BY <1>4
  <2>2. SetAttempt(a, r) = [contents EXCEPT !.att = [contents.att EXCEPT ![a] = r]]
    BY <1>3 DEF SetAttempt
  <2> QED  BY <1>3, <2>1, <2>2 DEF MappingStates
<1> QED  BY <1>1, <1>2, <1>3, <1>4, <1>5

\* What a change of one attempt leaves.
LEMMA SetOne ==
  ASSUME MappingAssumption, TypeOK, NEW a \in Attempts, NEW r
  PROVE  /\ SetAttempt(a, r).att[a] = r
         /\ \A b \in Attempts : b # a => SetAttempt(a, r).att[b] = contents.att[b]
         /\ SetAttempt(a, r).dlg = contents.dlg /\ SetAttempt(a, r).gen = contents.gen
BY RecordTypes DEF SetAttempt, Mapped

-----------------------------------------------------------------------------
\* The steps that leave the mapping alone.

\* Outcomes of an attempt.
Outcomes == {"running", "result", "unknown"}

\* Only an attempt that runs is given an outcome.
LEMMA OutcomeGiven ==
  ASSUME MappingInv, NEW a, NEW r \in Outcomes,
         outcome' = [outcome EXCEPT ![a] = IF @ = "running" THEN r ELSE @]
  PROVE  /\ outcome' \in [Attempts -> Outcomes]
         /\ \A b \in Attempts :
              outcome'[b] = IF b = a /\ outcome[b] = "running" THEN r ELSE outcome[b]
BY DEF MappingInv, TypeOK, Outcomes

\* A turn and an attempt that are bound stay bound to each other.
LEMMA BoundStays ==
  ASSUME MappingAssumption, MappingInv, NEW a \in Attempts, NEW u \in Attempts, BindTurn(a,
         u)
  PROVE  /\ bound' \in [Attempts -> 0..MaxAttempts]
         /\ byTurn' \in [Attempts -> 0..MaxAttempts]
         /\ \A b \in Attempts : bound[b] # 0 => bound'[b] = bound[b]
         /\ \A b \in Attempts : byTurn[b] # 0 => byTurn'[b] = byTurn[b]
         /\ Binds(a, u) => bound'[a] = u /\ byTurn'[u] = a
<1>1. a \in 0..MaxAttempts /\ u \in 0..MaxAttempts /\ 0 \in 0..MaxAttempts
  BY DEF MappingAssumption, Attempts
<1>2. bound \in [Attempts -> 0..MaxAttempts] /\ byTurn \in [Attempts -> 0..MaxAttempts]
  BY DEF MappingInv, TypeOK
<1>3. /\ bound' = [bound EXCEPT ![a] = IF @ \in {0, u} THEN u ELSE @]
      /\ byTurn' = [byTurn EXCEPT ![u] = IF bound[a] \in {0, u} /\ @ = 0 THEN a ELSE @]
  BY DEF BindTurn
<1>4. bound' \in [Attempts -> 0..MaxAttempts]
  BY <1>1, <1>2, <1>3
<1>5. byTurn' \in [Attempts -> 0..MaxAttempts]
  BY <1>1, <1>2, <1>3
<1>6. /\ \A b \in Attempts : bound[b] # 0 => bound'[b] = bound[b]
      /\ Binds(a, u) => bound'[a] = u
  BY <1>2, <1>3 DEF Binds
<1>7. /\ \A b \in Attempts : byTurn[b] # 0 => byTurn'[b] = byTurn[b]
      /\ Binds(a, u) => byTurn'[u] = a
  BY <1>2, <1>3 DEF Binds
<1> QED  BY <1>4, <1>5, <1>6, <1>7

\* What an attempt of this process has stays when only outcomes and bindings are added.
LEMMA LiveKept ==
  ASSUME MappingAssumption, MappingInv, UNCHANGED <<storeVars, live, pc, cur>>,
         \A b \in Attempts : bound[b] # 0 => bound'[b] = bound[b],
         \A b \in Attempts : byTurn[b] # 0 => byTurn'[b] = byTurn[b],
         \A b \in Attempts : outcome'[b] = outcome[b] \/ outcome'[b] = "unknown" \/ owes' = b,
         \A b \in Attempts : outcome'[b] = "running" => outcome[b] = "running",
         owes' = owes \/ owes = 0
  PROVE  LiveInv'
<1> SUFFICES ASSUME NEW a \in live, contents.att[a].state \in Ended
             PROVE  /\ bound'[a] = a /\ byTurn'[a] = a
                    /\ outcome'[a] = "running" => \A f \in files : f.att[a].state \in Ended
                    /\ outcome'[a] = "result" /\ faults = 0 /\ contents.att[a].state = "active" =>
                         owes' = a \/ (pc = "activated" /\ cur = a)
  BY DEF LiveInv
<1>1. a \in Attempts /\ a # 0
  BY DEF MappingInv, TypeOK, Attempts
<1>2. /\ bound[a] = a /\ byTurn[a] = a
      /\ outcome[a] = "running" => \A f \in files : f.att[a].state \in Ended
      /\ outcome[a] = "result" /\ faults = 0 /\ contents.att[a].state = "active" =>
           owes = a \/ (pc = "activated" /\ cur = a)
  BY DEF MappingInv, LiveInv
<1>3. bound'[a] = a /\ byTurn'[a] = a
  BY <1>1, <1>2
<1>4. outcome'[a] = "running" => outcome[a] = "running"
  BY <1>1
<1>5. outcome'[a] = "result" => outcome[a] = "result" \/ owes' = a
  BY <1>1
<1> QED  BY <1>1, <1>2, <1>3, <1>4, <1>5

\* A repeated dispatch says started only of an attempt that is in every file.
LEMMA RepeatKeeps ==
  ASSUME MappingAssumption, MappingInv, NEW r \in Attempts, Repeat(r)
  PROVE  MappingInv'
<1>1. /\ UNCHANGED storeVars
      /\ \A a \in Attempts : turn[a] # "none" => turn'[a] # "none"
      /\ UNCHANGED sends
  BY DEF MappingInv, TypeOK, Repeat
<1>11. TypeOK'
  BY DEF MappingAssumption, MappingInv, TypeOK, Attempts, Outcomes, Repeat
<1>12. FilesInv'
  BY <1>1, FileOkFixed DEF MappingInv, FilesInv
<1>13. TurnInv'
  BY DEF MappingInv, TypeOK, TurnInv, Repeat
<1>14. LiveInv'
  BY DEF MappingInv, TypeOK, LiveInv, Attempts, Ended, DispatchInv, Repeat
<1>15. SaidInv'
  BY DEF MappingInv, TypeOK, LiveInv, SaidInv, Ended, Repeat
<1>16. DispatchInv'
  BY DEF MappingInv, TypeOK, DispatchInv, Attempts, StateAt, Repeat
<1> QED  BY <1>11, <1>12, <1>13, <1>14, <1>15, <1>16 DEF MappingInv

\* A dispatch that ends with an error.
LEMMA CallFailedKeeps ==
  ASSUME MappingAssumption, MappingInv, CallFailed
  PROVE  MappingInv'
<1>1. /\ UNCHANGED storeVars
      /\ \A a \in Attempts : turn[a] # "none" => turn'[a] # "none"
      /\ UNCHANGED sends
  BY DEF MappingInv, TypeOK, CallFailed, FailUnknown, GiveUp
<1>2. cur \in Attempts /\ 0 \in 0..MaxAttempts
  BY DEF MappingInv, TypeOK, DispatchInv, CallFailed, MappingAssumption
<1>3. /\ outcome' \in [Attempts -> Outcomes]
      /\ \A b \in Attempts :
           outcome'[b] = IF b = cur /\ outcome[b] = "running" THEN "unknown" ELSE outcome[b]
  BY OutcomeGiven DEF CallFailed, FailUnknown, Outcomes
<1>11. TypeOK'
  BY <1>2, <1>3 DEF MappingAssumption, MappingInv, TypeOK, Attempts, Outcomes, CallFailed,
     GiveUp
<1>12. FilesInv'
  BY <1>1, FileOkFixed DEF MappingInv, FilesInv
<1>13. TurnInv'
  BY DEF MappingInv, TypeOK, TurnInv, CallFailed, FailUnknown, GiveUp
<1>14. LiveInv'
  BY <1>2, <1>3 DEF MappingInv, TypeOK, LiveInv, Attempts, Ended, DispatchInv, CallFailed,
     GiveUp
<1>15. SaidInv'
  BY DEF MappingInv, TypeOK, LiveInv, SaidInv, Ended, CallFailed, FailUnknown, GiveUp
<1>16. DispatchInv'
  BY <1>2, <1>3 DEF MappingInv, TypeOK, DispatchInv, Attempts, StateAt, CallFailed, GiveUp
<1> QED  BY <1>11, <1>12, <1>13, <1>14, <1>15, <1>16 DEF MappingInv

\* The thread was verified.
LEMMA VerifiedKeeps ==
  ASSUME MappingAssumption, MappingInv, Verified
  PROVE  MappingInv'
<1>1. /\ UNCHANGED storeVars
      /\ \A a \in Attempts : turn[a] # "none" => turn'[a] # "none"
      /\ UNCHANGED sends
  BY DEF MappingInv, TypeOK, Verified
<1>11. TypeOK'
  BY DEF MappingAssumption, MappingInv, TypeOK, Attempts, Outcomes, Verified
<1>12. FilesInv'
  BY <1>1, FileOkFixed DEF MappingInv, FilesInv
<1>13. TurnInv'
  BY DEF MappingInv, TypeOK, TurnInv, Verified
<1>14. LiveInv'
  BY DEF MappingInv, TypeOK, LiveInv, Attempts, Ended, DispatchInv, Verified
<1>15. SaidInv'
  BY DEF MappingInv, TypeOK, LiveInv, SaidInv, Ended, Verified
<1>16. DispatchInv'
  BY DEF MappingInv, TypeOK, DispatchInv, Attempts, StateAt, Verified
<1> QED  BY <1>11, <1>12, <1>13, <1>14, <1>15, <1>16 DEF MappingInv

\* The answer to turn/start binds turn and attempt to each other.
LEMMA TurnReplyKeeps ==
  ASSUME MappingAssumption, MappingInv, TurnReply
  PROVE  MappingInv'
<1>1. /\ UNCHANGED storeVars
      /\ \A a \in Attempts : turn[a] # "none" => turn'[a] # "none"
      /\ UNCHANGED sends
  BY DEF MappingInv, TypeOK, TurnReply, BindTurn, Binds, FailUnknown, GiveUp
<1>2. cur \in Attempts /\ 0 \in 0..MaxAttempts /\ cur \in live /\ turn[cur] # "none"
  BY DEF MappingInv, TypeOK, DispatchInv, TurnReply, MappingAssumption
<1>3. /\ bound' \in [Attempts -> 0..MaxAttempts] /\ byTurn' \in [Attempts -> 0..MaxAttempts]
      /\ \A b \in Attempts : bound[b] # 0 => bound'[b] = bound[b]
      /\ \A b \in Attempts : byTurn[b] # 0 => byTurn'[b] = byTurn[b]
      /\ Binds(cur, cur) => bound'[cur] = cur /\ byTurn'[cur] = cur
  BY <1>2, BoundStays DEF TurnReply
<1>4. /\ outcome' \in [Attempts -> Outcomes]
      /\ \A b \in Attempts : outcome'[b] = outcome[b] \/ outcome'[b] = "unknown"
  <2>1. CASE UNCHANGED outcome
    BY <2>1 DEF MappingInv, TypeOK, Outcomes
  <2>2. CASE FailUnknown(cur)
    BY <2>2, OutcomeGiven DEF FailUnknown, Outcomes
  <2> QED  BY <2>1, <2>2 DEF TurnReply
<1>5. \/ Binds(cur, cur) /\ pc' = "activate" /\ UNCHANGED <<cur, said>>
      \/ pc' = "idle" /\ cur' = 0 /\ said' = [said EXCEPT ![cur] = "unknown"]
  BY DEF TurnReply, GiveUp
<1>6. /\ pc = "sent"
      /\ UNCHANGED <<storeVars, procVars, live, byThread, nativeVars, owes, crashes>>
  BY DEF TurnReply
<1>11. TypeOK'
  BY <1>2, <1>3, <1>4, <1>5, <1>6 DEF MappingAssumption, MappingInv, TypeOK, Attempts,
     Outcomes
<1>12. FilesInv'
  BY <1>1, FileOkFixed DEF MappingInv, FilesInv
<1>13. TurnInv'
  BY DEF MappingInv, TypeOK, TurnInv, TurnReply, BindTurn, Binds, FailUnknown, GiveUp
<1>14. LiveInv'
  BY <1>2, <1>3, <1>4, <1>5, <1>6 DEF MappingInv, TypeOK, LiveInv, Attempts, Ended,
     DispatchInv
<1>15. SaidInv'
  BY DEF MappingInv, TypeOK, LiveInv, SaidInv, Ended, TurnReply, BindTurn, Binds,
     FailUnknown, GiveUp
<1>16. DispatchInv'
  BY <1>2, <1>3, <1>4, <1>5, <1>6 DEF MappingInv, TypeOK, DispatchInv, Attempts, StateAt
<1> QED  BY <1>11, <1>12, <1>13, <1>14, <1>15, <1>16 DEF MappingInv

\* A notice binds a turn only to an attempt that has no other.
LEMMA StartedKeeps ==
  ASSUME MappingAssumption, MappingInv, NEW u \in Attempts, NoticeStarted(u)
  PROVE  MappingInv'
<1>1. /\ UNCHANGED storeVars
      /\ \A a \in Attempts : turn[a] # "none" => turn'[a] # "none"
      /\ UNCHANGED sends
  BY DEF MappingInv, TypeOK, NoticeStarted, BindTurn, Binds, FailUnknown
<1>2. /\ bound' \in [Attempts -> 0..MaxAttempts] /\ byTurn' \in [Attempts -> 0..MaxAttempts]
      /\ \A b \in Attempts : bound[b] # 0 => bound'[b] = bound[b]
      /\ \A b \in Attempts : byTurn[b] # 0 => byTurn'[b] = byTurn[b]
      /\ outcome' \in [Attempts -> Outcomes]
      /\ \A b \in Attempts : outcome'[b] = outcome[b] \/ outcome'[b] = "unknown"
      /\ UNCHANGED live /\ byThread' \in [Attempts -> 0..MaxAttempts]
  <2>1. CASE UNCHANGED memVars
    BY <2>1 DEF MappingInv, TypeOK, Outcomes
  <2>2. ASSUME NEW a \in Attempts, BindTurn(a, u), UNCHANGED outcome \/ FailUnknown(a),
               UNCHANGED <<live, byThread>>
        PROVE  /\ bound' \in [Attempts -> 0..MaxAttempts]
               /\ byTurn' \in [Attempts -> 0..MaxAttempts]
               /\ \A b \in Attempts : bound[b] # 0 => bound'[b] = bound[b]
               /\ \A b \in Attempts : byTurn[b] # 0 => byTurn'[b] = byTurn[b]
               /\ outcome' \in [Attempts -> Outcomes]
               /\ \A b \in Attempts : outcome'[b] = outcome[b] \/ outcome'[b] = "unknown"
               /\ UNCHANGED live /\ byThread' \in [Attempts -> 0..MaxAttempts]
    <3>1. byThread' \in [Attempts -> 0..MaxAttempts]
      BY <2>2 DEF MappingInv, TypeOK
    <3>2. /\ outcome' \in [Attempts -> Outcomes]
          /\ \A b \in Attempts : outcome'[b] = outcome[b] \/ outcome'[b] = "unknown"
      <4>1. CASE UNCHANGED outcome
        BY <4>1 DEF MappingInv, TypeOK, Outcomes
      <4>2. CASE FailUnknown(a)
        BY <4>2, OutcomeGiven DEF FailUnknown, Outcomes
      <4> QED  BY <2>2, <4>1, <4>2
    <3> QED  BY <2>2, <3>1, <3>2, BoundStays
  <2>3. contents.att[u].thread # 0 => contents.att[u].thread \in Attempts
    BY RecordTypes DEF MappingInv, Mapped, Attempts
  <2>4. \A t \in Attempts : byThread[t] # 0 => byThread[t] \in Attempts
    BY DEF MappingInv, TypeOK, Attempts
  <2> QED  BY <2>1, <2>2, <2>3, <2>4 DEF NoticeStarted
<1>3. /\ noted' = noted \cup {u}
      /\ UNCHANGED <<storeVars, procVars, callVars, turn, sends, owes, crashes>>
  BY DEF NoticeStarted
<1>11. TypeOK'
  BY <1>2, <1>3 DEF MappingAssumption, MappingInv, TypeOK, Attempts, Outcomes
<1>12. FilesInv'
  BY <1>1, FileOkFixed DEF MappingInv, FilesInv
<1>13. TurnInv'
  BY DEF MappingInv, TypeOK, TurnInv, NoticeStarted, BindTurn, Binds, FailUnknown
<1>14. LiveInv'
  BY <1>1, <1>2, <1>3, LiveKept DEF MappingInv, TypeOK
<1>15. SaidInv'
  BY DEF MappingInv, TypeOK, LiveInv, SaidInv, Ended, NoticeStarted, BindTurn, Binds,
     FailUnknown
<1>16. DispatchInv'
  BY <1>2, <1>3 DEF MappingInv, TypeOK, DispatchInv, Attempts, StateAt
<1> QED  BY <1>11, <1>12, <1>13, <1>14, <1>15, <1>16 DEF MappingInv

\* An attempt whose end was reported has a terminal coming.
LEMMA CompletedKeeps ==
  ASSUME MappingAssumption, MappingInv, NEW u \in Attempts, NoticeCompleted(u)
  PROVE  MappingInv'
<1>1. /\ UNCHANGED storeVars
      /\ \A a \in Attempts : turn[a] # "none" => turn'[a] # "none"
      /\ UNCHANGED sends
  BY DEF MappingInv, TypeOK, NoticeCompleted, Finished
<1>2. /\ outcome' \in [Attempts -> Outcomes] /\ owes = 0 /\ owes' \in 0..MaxAttempts
      /\ \A b \in Attempts : outcome'[b] # outcome[b] => owes' = b
      /\ \A b \in Attempts : outcome'[b] = "running" => outcome[b] = "running"
  <2>1. byTurn[u] \in 0..MaxAttempts
    BY DEF MappingInv, TypeOK
  <2>2. ASSUME NEW r \in {"result", "unknown"}, Finished(byTurn[u], r)
        PROVE  /\ outcome' \in [Attempts -> Outcomes] /\ owes' \in 0..MaxAttempts
               /\ \A b \in Attempts : outcome'[b] # outcome[b] => owes' = b
               /\ \A b \in Attempts : outcome'[b] = "running" => outcome[b] = "running"
    BY <2>1, <2>2, OutcomeGiven DEF Finished, Outcomes
  <2>3. CASE UNCHANGED <<outcome, owes>>
    <3>1. outcome' = outcome /\ owes' = owes /\ owes = 0
      BY <2>3 DEF NoticeCompleted
    <3> QED  BY <3>1 DEF MappingInv, TypeOK, Outcomes
  <2>4. owes = 0
    BY DEF NoticeCompleted
  <2> QED  BY <2>2, <2>3, <2>4 DEF NoticeCompleted
<1>11. TypeOK'
  BY <1>2 DEF MappingAssumption, MappingInv, TypeOK, Attempts, Outcomes, NoticeCompleted
<1>12. FilesInv'
  BY <1>1, FileOkFixed DEF MappingInv, FilesInv
<1>13. TurnInv'
  BY DEF MappingInv, TypeOK, TurnInv, NoticeCompleted, Finished
<1>14. LiveInv'
  BY <1>1, <1>2, LiveKept DEF NoticeCompleted
<1>15. SaidInv'
  BY DEF MappingInv, TypeOK, LiveInv, SaidInv, Ended, NoticeCompleted, Finished
<1>16. DispatchInv'
  BY <1>2 DEF MappingInv, TypeOK, DispatchInv, Attempts, StateAt, NoticeCompleted
<1> QED  BY <1>11, <1>12, <1>13, <1>14, <1>15, <1>16 DEF MappingInv

\* An error notice ends the attempt and not the turn.
LEMMA ErrorKeeps ==
  ASSUME MappingAssumption, MappingInv, NEW u \in Attempts, NoticeError(u)
  PROVE  MappingInv'
<1>1. /\ UNCHANGED storeVars
      /\ \A a \in Attempts : turn[a] # "none" => turn'[a] # "none"
      /\ UNCHANGED sends
  BY DEF MappingInv, TypeOK, NoticeError, Finished
<1>2. /\ outcome' \in [Attempts -> Outcomes] /\ owes = 0 /\ owes' \in 0..MaxAttempts
      /\ \A b \in Attempts : outcome'[b] # outcome[b] => owes' = b
      /\ \A b \in Attempts : outcome'[b] = "running" => outcome[b] = "running"
  <2>1. byTurn[u] \in 0..MaxAttempts
    BY DEF MappingInv, TypeOK
  <2>2. ASSUME NEW r \in {"result", "unknown"}, Finished(byTurn[u], r)
        PROVE  /\ outcome' \in [Attempts -> Outcomes] /\ owes' \in 0..MaxAttempts
               /\ \A b \in Attempts : outcome'[b] # outcome[b] => owes' = b
               /\ \A b \in Attempts : outcome'[b] = "running" => outcome[b] = "running"
    BY <2>1, <2>2, OutcomeGiven DEF Finished, Outcomes
  <2>3. CASE UNCHANGED <<outcome, owes>>
    <3>1. outcome' = outcome /\ owes' = owes /\ owes = 0
      BY <2>3 DEF NoticeError
    <3> QED  BY <3>1 DEF MappingInv, TypeOK, Outcomes
  <2>4. owes = 0
    BY DEF NoticeError
  <2> QED  BY <2>2, <2>3, <2>4 DEF NoticeError
<1>11. TypeOK'
  BY <1>2 DEF MappingAssumption, MappingInv, TypeOK, Attempts, Outcomes, NoticeError
<1>12. FilesInv'
  BY <1>1, FileOkFixed DEF MappingInv, FilesInv
<1>13. TurnInv'
  BY DEF MappingInv, TypeOK, TurnInv, NoticeError, Finished
<1>14. LiveInv'
  BY <1>1, <1>2, LiveKept DEF NoticeError
<1>15. SaidInv'
  BY DEF MappingInv, TypeOK, LiveInv, SaidInv, Ended, NoticeError, Finished
<1>16. DispatchInv'
  BY <1>2 DEF MappingInv, TypeOK, DispatchInv, Attempts, StateAt, NoticeError
<1> QED  BY <1>11, <1>12, <1>13, <1>14, <1>15, <1>16 DEF MappingInv

\* Attempts become unknown.
LEMMA FailActiveKeeps ==
  ASSUME MappingAssumption, MappingInv, FailActive
  PROVE  MappingInv'
<1>1. /\ UNCHANGED storeVars
      /\ \A a \in Attempts : turn[a] # "none" => turn'[a] # "none"
      /\ UNCHANGED sends
  BY DEF MappingInv, TypeOK, FailActive, AllUnknown
<1>11. TypeOK'
  BY DEF MappingAssumption, MappingInv, TypeOK, Attempts, Outcomes, FailActive, AllUnknown
<1>12. FilesInv'
  BY <1>1, FileOkFixed DEF MappingInv, FilesInv
<1>13. TurnInv'
  BY DEF MappingInv, TypeOK, TurnInv, FailActive, AllUnknown
<1>14. LiveInv'
  BY DEF MappingInv, TypeOK, LiveInv, Attempts, Ended, DispatchInv, FailActive, AllUnknown
<1>15. SaidInv'
  BY DEF MappingInv, TypeOK, LiveInv, SaidInv, Ended, FailActive, AllUnknown
<1>16. DispatchInv'
  BY DEF MappingInv, TypeOK, DispatchInv, Attempts, StateAt, FailActive, AllUnknown
<1> QED  BY <1>11, <1>12, <1>13, <1>14, <1>15, <1>16 DEF MappingInv

\* Turns are killed with their process.
LEMMA ExitKeeps ==
  ASSUME MappingAssumption, MappingInv, Exit
  PROVE  MappingInv'
<1>1. /\ UNCHANGED storeVars
      /\ \A a \in Attempts : turn[a] # "none" => turn'[a] # "none"
      /\ UNCHANGED sends
  BY DEF MappingInv, TypeOK, Exit, KillTurns
<1>11. TypeOK'
  BY DEF MappingAssumption, MappingInv, TypeOK, Attempts, Outcomes, Exit, KillTurns
<1>12. FilesInv'
  BY <1>1, FileOkFixed DEF MappingInv, FilesInv
<1>13. TurnInv'
  BY DEF MappingInv, TypeOK, TurnInv, Exit, KillTurns
<1>14. LiveInv'
  BY DEF MappingInv, TypeOK, LiveInv, Attempts, Ended, DispatchInv, Exit, KillTurns
<1>15. SaidInv'
  BY DEF MappingInv, TypeOK, LiveInv, SaidInv, Ended, Exit, KillTurns
<1>16. DispatchInv'
  BY DEF MappingInv, TypeOK, DispatchInv, Attempts, StateAt, Exit, KillTurns
<1> QED  BY <1>11, <1>12, <1>13, <1>14, <1>15, <1>16 DEF MappingInv

\* Attempts become unknown when their process ended.
LEMMA HandleExitKeeps ==
  ASSUME MappingAssumption, MappingInv, HandleExit
  PROVE  MappingInv'
<1>1. /\ UNCHANGED storeVars
      /\ \A a \in Attempts : turn[a] # "none" => turn'[a] # "none"
      /\ UNCHANGED sends
  BY DEF MappingInv, TypeOK, HandleExit, AllUnknown
<1>11. TypeOK'
  BY DEF MappingAssumption, MappingInv, TypeOK, Attempts, Outcomes, HandleExit, AllUnknown
<1>12. FilesInv'
  BY <1>1, FileOkFixed DEF MappingInv, FilesInv
<1>13. TurnInv'
  BY DEF MappingInv, TypeOK, TurnInv, HandleExit, AllUnknown
<1>14. LiveInv'
  BY DEF MappingInv, TypeOK, LiveInv, Attempts, Ended, DispatchInv, HandleExit, AllUnknown
<1>15. SaidInv'
  BY DEF MappingInv, TypeOK, LiveInv, SaidInv, Ended, HandleExit, AllUnknown
<1>16. DispatchInv'
  BY DEF MappingInv, TypeOK, DispatchInv, Attempts, StateAt, HandleExit, AllUnknown
<1> QED  BY <1>11, <1>12, <1>13, <1>14, <1>15, <1>16 DEF MappingInv

-----------------------------------------------------------------------------
\* The steps that write the mapping.

\* Turn/start is sent after the mapping was written.
LEMMA SendTurnKeeps ==
  ASSUME MappingAssumption, MappingInv, SendTurn
  PROVE  MappingInv'
<1>1. /\ cur \in Attempts /\ cur \in live /\ sends[cur] = 0
      /\ \A f \in files : f.att[cur].state \in Sent
      /\ pc = "send" /\ pc' = "sent" /\ contents.att[cur].state = StateAt["send"]
  BY DEF MappingInv, TypeOK, DispatchInv, SendTurn
<1>2. /\ UNCHANGED <<storeVars, procVars, memVars, cur, said, noted, owes, crashes>>
      /\ sends' = [sends EXCEPT ![cur] = @ + 1]
      /\ turn' = [turn EXCEPT ![cur] = "running"] \/ UNCHANGED turn
  BY DEF SendTurn
<1>3. TypeOK'
  BY <1>1, <1>2 DEF MappingInv, TypeOK
<1>4. /\ sends'[cur] = 1
      /\ \A a \in Attempts : a # cur => sends'[a] = sends[a] /\ turn'[a] = turn[a]
      /\ turn'[cur] \in {turn[cur], "running"}
  BY <1>1, <1>2 DEF MappingInv, TypeOK
<1>5. FilesInv'
  <2>1. ASSUME NEW f \in files PROVE FileOk(f)'
    <3>1. FileOk(f)
      BY DEF MappingInv, FilesInv
    <3> QED  BY <1>1, <1>4, <3>1 DEF FileOk
  <2> QED  BY <1>2, <2>1 DEF MappingInv, FilesInv
<1>6. TurnInv'
  BY <1>1, <1>2, <1>4 DEF MappingInv, TurnInv
<1>7. LiveInv'
  BY <1>1, <1>2 DEF MappingInv, LiveInv
<1>8. SaidInv'
  BY <1>2 DEF MappingInv, SaidInv
<1>9. DispatchInv'
  BY <1>1, <1>2 DEF MappingInv, DispatchInv, StateAt
<1> QED  BY <1>3, <1>5, <1>6, <1>7, <1>8, <1>9 DEF MappingInv

\* A change of one attempt leaves the others and the dialog, and sound files when the
\* new record is sound.
LEMMA OneChanges ==
  ASSUME MappingAssumption, MappingInv, NEW a \in Attempts, NEW r \in Mapped,
         Writes(SetAttempt(a, r)), UNCHANGED <<sends, turn>>,
         r.kind = "resume" => r.thread # 0,
         r.state \in {"thread_acknowledged"} \cup Sent => r.thread # 0,
         r.state \in Ended => r.thread = contents.dlg.thread /\ turn[a] # "none",
         sends[a] > 0 => r.state \in Sent
  PROVE  /\ FilesInv'
         /\ StoreTypeOK'
         /\ faults' = 0 => faults = 0 /\ contents'.att[a] = r
         /\ contents'.dlg = contents.dlg
         /\ contents'.att[a] \in {contents.att[a], r}
         /\ \A b \in Attempts : b # a => contents'.att[b] = contents.att[b]
         /\ \A f \in files' :
                 \/ f \in files
                 \/ /\ f.att[a] = r
                    /\ \A b \in Attempts : b # a => f.att[b] = contents.att[b]
         /\ Committed(SetAttempt(a, r))
               => contents'.att[a] = r /\ \A f \in files' : f.att[a] = r
<1>0. PICK c : c = SetAttempt(a, r)
  OBVIOUS
<1>1. /\ c.att[a] = r
      /\ \A b \in Attempts : b # a => c.att[b] = contents.att[b]
      /\ c.dlg = contents.dlg
  BY <1>0, SetOne DEF MappingInv
<1>2. c \in MappingStates /\ contents \in files
  BY <1>0, RecordTypes DEF MappingInv
<1>3. \A f \in files : FileOk(f)'
  BY FileOkFixed DEF MappingInv, FilesInv
<1>4. FileOk(contents)
  BY <1>2 DEF MappingInv, FilesInv
<1>5. FileOk(c)'
  <2> SUFFICES ASSUME NEW b \in Attempts
               PROVE  /\ c.att[b].kind = "resume" => c.att[b].thread # 0
                      /\ c.att[b].state \in {"thread_acknowledged"} \cup Sent
                            => c.att[b].thread # 0
                      /\ c.att[b].state \in Ended
                            => c.att[b].thread = c.dlg.thread /\ turn[b] # "none"
                      /\ sends[b] > 0 => c.att[b].state \in Sent
    BY DEF FileOk
  <2>1. CASE b = a
    BY <1>1, <2>1
  <2>2. CASE b # a
    BY <1>1, <1>4, <2>2 DEF FileOk
  <2> QED  BY <2>1, <2>2
<1>6. Writes(c) /\ (Committed(SetAttempt(a, r)) => Committed(c))
  BY <1>0
<1>7. /\ contents' \in {contents, c} /\ contents' \in files'
      /\ \A f \in files' : f \in files \/ f = c
      /\ faults' = 0 => faults = 0
      /\ faults' = 0 => contents' = c /\ files' = {c}
      /\ Committed(c) => contents' = c /\ files' = {c}
  BY <1>6, WriteLeaves DEF MappingInv
<1>8. /\ FilesInv'
      /\ StoreTypeOK'
  BY <1>2, <1>3, <1>5, <1>6, WriteKeeps DEF MappingInv
<1>9. contents'.dlg = contents.dlg
  BY <1>1, <1>7
<1>10. /\ faults' = 0 => faults = 0 /\ contents'.att[a] = r
       /\ contents'.att[a] \in {contents.att[a], r}
       /\ \A b \in Attempts : b # a => contents'.att[b] = contents.att[b]
  BY <1>1, <1>7
<1>11. \A f \in files' :
            \/ f \in files
            \/ /\ f.att[a] = r
               /\ \A b \in Attempts : b # a => f.att[b] = contents.att[b]
  <2> SUFFICES ASSUME NEW f \in files', f \notin files
               PROVE  f.att[a] = r /\ \A b \in Attempts : b # a
                         => f.att[b] = contents.att[b]
    OBVIOUS
  <2>1. f = c
    BY <1>7
  <2> QED  BY <1>1, <2>1
<1>12. Committed(SetAttempt(a, r)) => contents'.att[a] = r /\ \A f \in files' : f.att[a] = r
  BY <1>1, <1>6, <1>7
<1> QED  BY <1>8, <1>9, <1>10, <1>11, <1>12

\* The write of an intent: the attempt was in no mapping, so it was never asked for a turn.
LEMMA IntendKeeps ==
  ASSUME MappingAssumption, MappingInv, NEW a \in Attempts, ~Exists(a), pc = "idle",
         \A x \in live : outcome[x] # "running",
         NEW kind \in {"start", "resume"}, NEW s \in 1..MaxSeq, NEW p \in Policies,
         NEW thread, NEW proof \in SUBSET Attempts,
         IF kind = "start" THEN thread = 0 /\ contents.dlg.thread = 0
         ELSE thread = contents.dlg.thread /\ thread # 0 /\ contents.dlg.policy = p,
         Intend(a, kind, s, p, thread, proof),
         UNCHANGED <<procVars, nativeVars, owes, crashes>>
  PROVE  MappingInv'
<1>0. PICK r : r = [state |-> "thread_dispatching", kind |-> kind, seq |-> s, policy |-> p,
                    thread |-> thread, turn |-> 0, gen |-> contents.gen, proof |-> proof]
  OBVIOUS
<1>1. /\ contents.dlg \in Dialogs /\ contents.gen \in 0..MaxProcesses /\ contents \in files
      /\ MaxAttempts \in Nat /\ MaxSeq \in Nat /\ a \in 0..MaxAttempts /\ a # 0
  BY RecordTypes DEF MappingInv, MappingAssumption
<1>2. thread \in 0..MaxAttempts /\ s \in 0..MaxSeq
  <2>1. contents.dlg.thread \in 0..MaxAttempts
    BY <1>1 DEF Dialogs
  <2> QED  BY <1>1, <2>1
<1>3. r \in Mapped
  BY <1>0, <1>1, <1>2 DEF Mapped, AttemptStates
<1>4. /\ r.state = "thread_dispatching" /\ r.kind = kind /\ r.policy = p
      /\ r.thread = thread
  BY <1>0
<1>5. Intent(a, kind, s, p, thread, proof) = SetAttempt(a, r)
  BY <1>0 DEF Intent
<1>6. /\ Writes(SetAttempt(a, r))
      /\ UNCHANGED <<procVars, nativeVars, owes, crashes, byThread, byTurn>>
      /\ \/ /\ Committed(SetAttempt(a, r))
            /\ live' = live \cup {a}
            /\ outcome' = [outcome EXCEPT ![a] = "running"]
            /\ bound' = [bound EXCEPT ![a] = 0]
            /\ pc' = "thread" /\ cur' = a
            /\ UNCHANGED said
         \/ /\ said' = [said EXCEPT ![a] = "unknown"]
            /\ UNCHANGED <<live, outcome, bound, pc, cur>>
  BY <1>5 DEF Intend, Writes
<1>7. contents.att[a].state = "none"
  BY DEF Exists
<1>8. sends[a] = 0
  <2>1. FileOk(contents)
    BY <1>1 DEF MappingInv, FilesInv
  <2> QED  BY <1>7, <2>1 DEF FileOk, Sent, MappingInv, TypeOK
<1>9. /\ FilesInv'
      /\ StoreTypeOK'
      /\ faults' = 0 => faults = 0
      /\ contents'.dlg = contents.dlg
      /\ contents'.att[a] \in {contents.att[a], r}
      /\ \A b \in Attempts : b # a => contents'.att[b] = contents.att[b]
      /\ \A f \in files' :
              \/ f \in files
              \/ /\ f.att[a] = r
                 /\ \A b \in Attempts : b # a => f.att[b] = contents.att[b]
      /\ Committed(SetAttempt(a, r))
            => contents'.att[a] = r /\ \A f \in files' : f.att[a] = r
  <2>1. UNCHANGED <<sends, turn>>
    BY <1>6
  <2>2. r.kind = "resume" => r.thread # 0
    BY <1>4
  <2>3. r.state \notin {"thread_acknowledged"} \cup Sent /\ r.state \notin Ended
    BY <1>4 DEF Sent, Ended
  <2>4. ~(sends[a] > 0)
    BY <1>8
  <2> QED  BY <1>3, <1>6, <2>1, <2>2, <2>3, <2>4, OneChanges
<1>10. TypeOK'
  <2>1. TypeOK /\ a \in Attempts /\ 0 \in 0..MaxAttempts
    BY <1>1 DEF MappingInv
  <2>2. live' \subseteq Attempts /\ cur' \in 0..MaxAttempts /\ (pc' # "idle" => cur' # 0)
    BY <1>1, <1>6, <2>1 DEF TypeOK
  <2>3. pc' \in {"idle", "thread", "verify", "begin", "send", "sent", "activate", "activated"}
    BY <1>6, <2>1 DEF TypeOK
  <2>4. outcome' \in [Attempts -> {"running", "result", "unknown"}]
    BY <1>6, <2>1 DEF TypeOK
  <2>5. bound' \in [Attempts -> 0..MaxAttempts]
    BY <1>6, <2>1 DEF TypeOK
  <2>6. said' \in [Attempts -> {"nothing", "started", "unknown"}]
    BY <1>6, <2>1 DEF TypeOK
  <2> QED  BY <1>6, <1>9, <2>1, <2>2, <2>3, <2>4, <2>5, <2>6 DEF TypeOK
<1>11. TurnInv'
  BY <1>6 DEF MappingInv, TurnInv
<1>12. contents'.att[a].state \notin Ended
  BY <1>4, <1>7, <1>9 DEF Ended
<1>13. LiveInv'
  <2> SUFFICES ASSUME NEW b \in live', contents'.att[b].state \in Ended
               PROVE  /\ bound'[b] = b /\ byTurn'[b] = b
                      /\ outcome'[b] = "running"
                            => \A f \in files' : f.att[b].state \in Ended
                      /\ outcome'[b] = "result" /\ faults' = 0 /\ contents'.att[b].state = "active" =>
                           owes' = b \/ (pc' = "activated" /\ cur' = b)
    BY DEF LiveInv
  <2>1. b # a /\ b \in live /\ b \in Attempts
    BY <1>6, <1>12 DEF MappingInv, TypeOK
  <2>2. /\ bound[b] = b /\ byTurn[b] = b
        /\ outcome[b] # "running"
        /\ outcome[b] = "result" /\ faults = 0 /\ contents.att[b].state = "active"
              => owes = b
    BY <1>9, <2>1 DEF MappingInv, LiveInv
  <2>3. bound'[b] = bound[b] /\ byTurn' = byTurn /\ outcome'[b] = outcome[b] /\ owes' = owes
    BY <1>6, <2>1 DEF MappingInv, TypeOK
  <2> QED  BY <1>9, <2>1, <2>2, <2>3
<1>14. SaidInv'
  <2> SUFFICES ASSUME NEW b \in Attempts, said'[b] = "started"
               PROVE  b \in live' /\ \A f \in files' : f.att[b].state \in Ended
    BY DEF SaidInv
  <2>1. said[b] = "started"
    BY <1>6 DEF MappingInv, TypeOK
  <2>2. b \in live /\ \A g \in files : g.att[b].state \in Ended
    BY <2>1 DEF MappingInv, SaidInv
  <2>3. b # a
    BY <1>1, <1>7, <2>2 DEF Ended
  <2> QED  BY <1>1, <1>6, <1>9, <2>2, <2>3
<1>15. DispatchInv'
  <2>1. CASE pc' = "idle"
    BY <2>1 DEF DispatchInv
  <2>2. CASE pc' = "thread" /\ cur' = a /\ contents'.att[a] = r /\ a \in live'
    BY <1>4, <1>6, <1>8, <1>9, <2>2 DEF DispatchInv, StateAt
  <2> QED  BY <1>6, <1>9, <2>1, <2>2
<1> QED  BY <1>9, <1>10, <1>11, <1>13, <1>14, <1>15 DEF MappingInv

\* Start and Resume up to the intent.
LEMMA StartKeeps ==
  ASSUME MappingAssumption, MappingInv, NEW a \in Attempts, Start(a)
  PROVE  MappingInv'
<1>1. /\ pc = "idle" /\ ~Exists(a) /\ contents.dlg.thread = 0
      /\ \A x \in live : outcome[x] # "running"
      /\ UNCHANGED <<procVars, nativeVars, owes, crashes>>
  BY DEF Start, NodeDispatches, Refused
<1>2. PICK s \in 1..MaxSeq, p \in Policies : Intend(a, "start", s, p, 0, {})
  BY DEF Start
<1> QED  BY <1>1, <1>2, IntendKeeps

LEMMA ResumeKeeps ==
  ASSUME MappingAssumption, MappingInv, NEW a \in Attempts, Resume(a)
  PROVE  MappingInv'
<1>1. /\ pc = "idle" /\ ~Exists(a)
      /\ \A x \in live : outcome[x] # "running"
      /\ UNCHANGED <<procVars, nativeVars, owes, crashes>>
  BY DEF Resume, NodeDispatches, Refused
<1>2. PICK s \in 1..MaxSeq, p \in Policies, proof \in SUBSET (Attempts \ {a}) :
        MayResume(a, s, p, proof) /\ Intend(a, "resume", s, p, contents.dlg.thread, proof)
  BY DEF Resume
<1>3. proof \in SUBSET Attempts /\ contents.dlg.thread # 0 /\ contents.dlg.policy = p
  BY <1>2 DEF MayResume
<1> QED  BY <1>1, <1>2, <1>3, IntendKeeps

\* A dispatch goes on once what it is about to do is written, and gives up when the write
\* failed.
LEMMA AdvanceKeeps ==
  ASSUME MappingAssumption, MappingInv, NEW q \in {"verify", "send"},
         pc = IF q = "verify" THEN "thread" ELSE "begin",
         NEW r \in Mapped, r.thread # 0, r.state = StateAt[q],
         r.kind = contents.att[cur].kind, r.policy = contents.att[cur].policy,
         byThread' \in [Attempts -> 0..MaxAttempts],
         Writes(SetAttempt(cur, r)),
         \/ /\ Committed(SetAttempt(cur, r))
            /\ pc' = q /\ UNCHANGED <<outcome, cur, said>>
         \/ FailUnknown(cur) /\ GiveUp,
         UNCHANGED <<procVars, live, bound, byTurn, nativeVars, owes, crashes>>
  PROVE  MappingInv'
<1>1. /\ cur \in Attempts /\ cur \in live /\ cur # 0 /\ sends[cur] = 0
      /\ pc \notin {"idle", "activated"}
      /\ contents.att[cur].state \in {"thread_dispatching", "thread_acknowledged"}
      /\ r.state \in {"thread_acknowledged", "turn_dispatching"}
      /\ r.state = IF q = "verify" THEN "thread_acknowledged" ELSE "turn_dispatching"
  BY DEF MappingInv, TypeOK, DispatchInv, StateAt, Attempts
<1>2. /\ FilesInv'
      /\ StoreTypeOK'
      /\ faults' = 0 => faults = 0
      /\ contents'.dlg = contents.dlg
      /\ contents'.att[cur] \in {contents.att[cur], r}
      /\ \A b \in Attempts : b # cur => contents'.att[b] = contents.att[b]
      /\ \A f \in files' :
              \/ f \in files
              \/ /\ f.att[cur] = r
                 /\ \A b \in Attempts : b # cur => f.att[b] = contents.att[b]
      /\ Committed(SetAttempt(cur, r))
            => contents'.att[cur] = r /\ \A f \in files' : f.att[cur] = r
  <2>1. r.state \notin Ended
    BY <1>1 DEF Ended
  <2>2. ~(sends[cur] > 0) /\ UNCHANGED <<sends, turn>>
    BY <1>1
  <2> QED  BY <1>1, <2>1, <2>2, OneChanges
<1>3. /\ outcome' \in [Attempts -> Outcomes]
      /\ \A b \in Attempts : outcome'[b] = outcome[b] \/ (b = cur /\ outcome'[b] = "unknown")
  <2>1. CASE UNCHANGED outcome
    BY <2>1 DEF MappingInv, TypeOK, Outcomes
  <2>2. CASE FailUnknown(cur)
    BY <1>1, <2>2, OutcomeGiven DEF FailUnknown, Outcomes
  <2> QED  BY <2>1, <2>2
<1>4. /\ said' \in [Attempts -> {"nothing", "started", "unknown"}]
      /\ \A b \in Attempts : said'[b] = "started" => said[b] = "started"
  BY <1>1 DEF GiveUp, MappingInv, TypeOK
<1>5. \/ Committed(SetAttempt(cur, r)) /\ pc' = q /\ cur' = cur
      \/ pc' = "idle" /\ cur' = 0
  BY DEF GiveUp
<1>6. contents \in files /\ 0 \in 0..MaxAttempts
  BY DEF MappingInv, TypeOK, MappingAssumption
<1>7. TypeOK'
  BY <1>2, <1>3, <1>4, <1>5, <1>6 DEF MappingInv, TypeOK, Outcomes
<1>8. TurnInv'
  BY DEF MappingInv, TurnInv
<1>9. contents'.att[cur].state \notin Ended
  BY <1>1, <1>2 DEF Ended
<1>10. LiveInv'
  <2> SUFFICES ASSUME NEW b \in live, contents'.att[b].state \in Ended
               PROVE  /\ bound'[b] = b /\ byTurn'[b] = b
                      /\ outcome'[b] = "running"
                            => \A f \in files' : f.att[b].state \in Ended
                      /\ outcome'[b] = "result" /\ faults' = 0 /\ contents'.att[b].state = "active" =>
                           owes' = b \/ (pc' = "activated" /\ cur' = b)
    BY DEF LiveInv
  <2>1. b # cur /\ b \in Attempts
    BY <1>9 DEF MappingInv, TypeOK
  <2>2. contents.att[b].state \in Ended /\ contents'.att[b] = contents.att[b]
    BY <1>2, <2>1
  <2>3. /\ bound[b] = b /\ byTurn[b] = b
        /\ outcome[b] = "running" => \A f \in files : f.att[b].state \in Ended
        /\ outcome[b] = "result" /\ faults = 0 /\ contents.att[b].state = "active"
              => owes = b
    BY <1>1, <2>2 DEF MappingInv, LiveInv
  <2>4. outcome'[b] = outcome[b]
    BY <1>3, <2>1
  <2>5. (\A f \in files : f.att[b].state \in Ended) => \A f \in files' : f.att[b].state \in Ended
    BY <1>2, <2>1, <2>2
  <2> QED  BY <1>2, <2>2, <2>3, <2>4, <2>5
<1>11. SaidInv'
  <2> SUFFICES ASSUME NEW b \in Attempts, said'[b] = "started"
               PROVE  b \in live' /\ \A f \in files' : f.att[b].state \in Ended
    BY DEF SaidInv
  <2>1. b \in live /\ \A g \in files : g.att[b].state \in Ended
    BY <1>4 DEF MappingInv, SaidInv
  <2>2. b # cur
    BY <1>1, <1>6, <2>1 DEF Ended
  <2> QED  BY <1>2, <1>6, <2>1, <2>2
<1>12. DispatchInv'
  <2>1. CASE pc' = "idle"
    BY <2>1 DEF DispatchInv
  <2>2. CASE pc' = q /\ cur' = cur /\ Committed(SetAttempt(cur, r))
    <3>1. contents'.att[cur] = r /\ \A f \in files' : f.att[cur] = r
      BY <1>2, <2>2
    <3>2. r.state = "turn_dispatching" => r.state \in Sent
      BY DEF Sent
    <3>3. r.state = StateAt[q]
      OBVIOUS
    <3>4. IF r.kind = "start" THEN contents.dlg.thread = 0
          ELSE r.kind = "resume" /\ r.policy = contents.dlg.policy
      BY <1>1 DEF MappingInv, DispatchInv
    <3> QED  BY <1>1, <1>2, <2>2, <3>1, <3>2, <3>3, <3>4 DEF DispatchInv
  <2> QED  BY <1>5, <2>1, <2>2
<1> QED  BY <1>2, <1>7, <1>8, <1>10, <1>11, <1>12 DEF MappingInv

\* The answer of the thread call.
LEMMA ThreadReplyKeeps ==
  ASSUME MappingAssumption, MappingInv, ThreadReply
  PROVE  MappingInv'
<1>1. /\ cur \in Attempts /\ pc = "thread"
      /\ contents.att[cur].kind \in {"start", "resume"}
  BY DEF MappingInv, TypeOK, DispatchInv, ThreadReply
<1>2. /\ contents.att[cur] \in Mapped /\ cur \in 0..MaxAttempts /\ cur # 0
      /\ contents \in files
      /\ MaxAttempts \in Nat
  BY <1>1, RecordTypes DEF MappingInv
<1>3. contents.att[cur].kind = "resume" => contents.att[cur].thread # 0
  BY <1>1, <1>2 DEF MappingInv, FilesInv, FileOk
<1>4. PICK t : t = IF contents.att[cur].kind = "start" THEN cur ELSE contents.att[cur].thread
  OBVIOUS
<1>5. t \in Attempts /\ t # 0 /\ t \in 0..MaxAttempts
  BY <1>1, <1>2, <1>3, <1>4 DEF Mapped, Attempts
<1>6. PICK r : r = [contents.att[cur] EXCEPT !.thread = t, !.state = "thread_acknowledged"]
  OBVIOUS
<1>7. /\ r \in Mapped /\ r.thread = t /\ r.state = "thread_acknowledged"
      /\ r.kind = contents.att[cur].kind /\ r.policy = contents.att[cur].policy
  BY <1>2, <1>5, <1>6 DEF Mapped, AttemptStates
<1>8. ThreadAcknowledged(cur, t) = SetAttempt(cur, r)
  BY <1>6 DEF ThreadAcknowledged
<1>9. \/ /\ Committed(SetAttempt(cur, r))
         /\ byThread' = [byThread EXCEPT ![t] = cur]
         /\ pc' = "verify" /\ UNCHANGED <<outcome, cur, said>>
      \/ /\ NotCommitted(SetAttempt(cur, r))
         /\ FailUnknown(cur) /\ GiveUp /\ UNCHANGED byThread
  BY <1>4, <1>8 DEF ThreadReply
<1>10. /\ Writes(SetAttempt(cur, r))
       /\ byThread' \in [Attempts -> 0..MaxAttempts]
       /\ r.state = StateAt["verify"]
  BY <1>2, <1>5, <1>7, <1>9 DEF Writes, MappingInv, TypeOK, StateAt
<1>11. UNCHANGED <<procVars, live, bound, byTurn, nativeVars, owes, crashes>>
  BY DEF ThreadReply
<1> QED  BY <1>1, <1>5, <1>7, <1>9, <1>10, <1>11, AdvanceKeeps

\* The write ahead of turn/start.
LEMMA BeginTurnKeeps ==
  ASSUME MappingAssumption, MappingInv, BeginTurn
  PROVE  MappingInv'
<1>1. /\ cur \in Attempts /\ pc = "begin"
      /\ contents.att[cur].state = "thread_acknowledged"
  BY DEF MappingInv, TypeOK, DispatchInv, StateAt, BeginTurn
<1>2. contents.att[cur] \in Mapped /\ contents \in files
  BY <1>1, RecordTypes DEF MappingInv
<1>3. contents.att[cur].thread # 0
  BY <1>1, <1>2 DEF MappingInv, FilesInv, FileOk
<1>4. PICK r : r = [contents.att[cur] EXCEPT !.state = "turn_dispatching"]
  OBVIOUS
<1>5. /\ r \in Mapped /\ r.thread # 0 /\ r.state = "turn_dispatching"
      /\ r.kind = contents.att[cur].kind /\ r.policy = contents.att[cur].policy
  BY <1>2, <1>3, <1>4 DEF Mapped, AttemptStates
<1>6. TurnIntended(cur) = SetAttempt(cur, r)
  BY <1>4 DEF TurnIntended
<1>7. \/ /\ Committed(SetAttempt(cur, r))
         /\ pc' = "send" /\ UNCHANGED <<outcome, cur, said>>
      \/ /\ NotCommitted(SetAttempt(cur, r))
         /\ FailUnknown(cur) /\ GiveUp
  BY <1>6 DEF BeginTurn
<1>8. /\ Writes(SetAttempt(cur, r))
      /\ byThread' \in [Attempts -> 0..MaxAttempts]
      /\ r.state = StateAt["send"]
      /\ UNCHANGED <<procVars, live, bound, byTurn, nativeVars, owes, crashes>>
  BY <1>5, <1>7 DEF Writes, MappingInv, TypeOK, StateAt, BeginTurn
<1> QED  BY <1>1, <1>5, <1>7, <1>8, AdvanceKeeps

\* The activation moves the dialog only where its thread stays.
LEMMA ActivatedIsSound ==
  ASSUME MappingAssumption, MappingInv, pc = "activate", DialogAccepts(cur),
         UNCHANGED <<sends, turn>>, NEW c, c = Activated(cur)
  PROVE  /\ c \in MappingStates /\ FileOk(c)'
         /\ c.att[cur].state = "active"
         /\ \A b \in Attempts : b # cur => c.att[b] = contents.att[b]
<1>1. /\ cur \in Attempts /\ turn[cur] # "none"
      /\ contents.att[cur].state = "turn_dispatching"
      /\ contents.att[cur].kind \in {"start", "resume"}
  BY DEF MappingInv, TypeOK, DispatchInv, StateAt
<1>2. /\ contents \in [gen : 0..MaxProcesses, att : [Attempts -> Mapped], dlg : Dialogs]
      /\ contents.att[cur] \in Mapped /\ contents \in files /\ cur \in 0..MaxAttempts
      /\ MaxSeq \in Nat
  BY <1>1, RecordTypes DEF MappingInv, MappingAssumption
<1>3. FileOk(contents)
  BY <1>2 DEF MappingInv, FilesInv
<1>4. PICK r : r = [contents.att[cur] EXCEPT !.turn = cur, !.state = "active"]
  OBVIOUS
<1>5. /\ r \in Mapped /\ r.state = "active" /\ r.thread = contents.att[cur].thread
      /\ r.kind = contents.att[cur].kind
  BY <1>2, <1>4 DEF Mapped, AttemptStates
<1>6. PICK d : d = [thread |-> contents.att[cur].thread, policy |-> contents.att[cur].policy,
                    seq |-> IF contents.dlg.seq > contents.att[cur].seq
                            THEN contents.dlg.seq ELSE contents.att[cur].seq]
  OBVIOUS
<1>7. d \in Dialogs /\ d.thread = contents.att[cur].thread
  BY <1>2, <1>6 DEF Dialogs, Mapped
<1>8. PICK at : at = [contents.att EXCEPT ![cur] = r]
  OBVIOUS
<1>9. /\ at \in [Attempts -> Mapped] /\ at[cur] = r
      /\ \A b \in Attempts : b # cur => at[b] = contents.att[b]
  BY <1>1, <1>2, <1>5, <1>8
<1>10. c = [contents EXCEPT !.att = at, !.dlg = d]
  BY <1>2, <1>4, <1>6, <1>8 DEF Activated
<1>11. c.att = at /\ c.dlg = d /\ c.gen = contents.gen /\ c \in MappingStates
  BY <1>2, <1>7, <1>9, <1>10 DEF MappingStates
<1>12. FileOk(c)'
  <2> SUFFICES ASSUME NEW b \in Attempts
               PROVE  /\ c.att[b].kind = "resume" => c.att[b].thread # 0
                      /\ c.att[b].state \in {"thread_acknowledged"} \cup Sent
                            => c.att[b].thread # 0
                      /\ c.att[b].state \in Ended
                            => c.att[b].thread = c.dlg.thread /\ turn[b] # "none"
                      /\ sends[b] > 0 => c.att[b].state \in Sent
    BY DEF FileOk
  <2>1. r.thread # 0 /\ "active" \in Sent /\ "active" \in Ended
    BY <1>1, <1>3, <1>5 DEF FileOk, Sent, Ended
  <2>2. CASE b = cur
    BY <1>1, <1>5, <1>7, <1>9, <1>11, <2>1, <2>2
  <2>3. CASE b # cur
    <3>1. c.att[b] = contents.att[b] /\ c.dlg.thread = contents.att[cur].thread
      BY <1>7, <1>9, <1>11, <2>3
    <3>2. contents.att[b].state \in Ended => contents.dlg.thread # 0
      BY <1>3 DEF FileOk, Sent, Ended
    <3>3. contents.dlg.thread # 0 => contents.dlg.thread = contents.att[cur].thread
      BY DEF DialogAccepts
    <3> QED  BY <1>3, <3>1, <3>2, <3>3 DEF FileOk
  <2> QED  BY <2>2, <2>3
<1> QED  BY <1>5, <1>9, <1>11, <1>12

\* The activation of an attempt.
LEMMA ActivateKeeps ==
  ASSUME MappingAssumption, MappingInv, ActivateStore
  PROVE  MappingInv'
<1>1. /\ cur \in Attempts /\ cur \in live /\ cur # 0 /\ pc = "activate"
      /\ contents.att[cur].state = "turn_dispatching"
      /\ bound[cur] = cur /\ byTurn[cur] = cur /\ turn[cur] # "none"
      /\ contents \in files
  BY DEF MappingInv, TypeOK, DispatchInv, StateAt, ActivateStore
<1>2. UNCHANGED <<procVars, live, bound, byThread, byTurn, nativeVars, owes, crashes>>
  BY DEF ActivateStore
<1>3. /\ FilesInv'
      /\ StoreTypeOK'
      /\ faults' = 0 => faults = 0
      /\ \A b \in Attempts : b # cur => contents'.att[b] = contents.att[b]
      /\ \A f \in files' :
              \/ f \in files
              \/ /\ f.att[cur].state = "active"
                 /\ \A b \in Attempts : b # cur => f.att[b] = contents.att[b]
      /\ \/ /\ pc' = "activated" /\ UNCHANGED <<outcome, cur, said>>
            /\ \A f \in files' : f.att[cur].state = "active"
         \/ /\ FailUnknown(cur) /\ GiveUp
            /\ faults' = 0 => contents'.att[cur].state = "turn_dispatching"
  <2>1. CASE DialogAccepts(cur) /\ Writes(Activated(cur))
    <3>1. PICK c : c = Activated(cur)
      OBVIOUS
    <3>2. /\ c \in MappingStates /\ FileOk(c)'
          /\ c.att[cur].state = "active"
          /\ \A b \in Attempts : b # cur => c.att[b] = contents.att[b]
      BY <1>1, <1>2, <2>1, <3>1, ActivatedIsSound
    <3>3. Writes(c) /\ (Committed(Activated(cur)) => Committed(c)) /\ (NotCommitted(Activated(cur))
             => NotCommitted(c))
      BY <2>1, <3>1
    <3>4. /\ contents' \in {contents, c} /\ contents' \in files'
          /\ \A f \in files' : f \in files \/ f = c
          /\ faults' = 0 => faults = 0
          /\ poisoned' => faults' > 0
          /\ faults' = 0 => contents' = c /\ files' = {c}
          /\ Committed(c) => contents' = c /\ files' = {c}
      BY <3>3, WriteLeaves DEF MappingInv
    <3>5. \A f \in files : FileOk(f)'
      BY <1>2, FileOkFixed DEF MappingInv, FilesInv
    <3>6. /\ FilesInv'
          /\ StoreTypeOK'
      BY <3>2, <3>3, <3>5, WriteKeeps DEF MappingInv
    <3>7. NotCommitted(c) => faults' # 0
      BY DEF NotCommitted, MappingInv, FilesInv, TypeOK
    <3>8. \A b \in Attempts : b # cur => contents'.att[b] = contents.att[b]
      BY <3>2, <3>4
    <3>9. \A f \in files' :
               \/ f \in files
               \/ /\ f.att[cur].state = "active"
                  /\ \A b \in Attempts : b # cur => f.att[b] = contents.att[b]
      <4> SUFFICES ASSUME NEW f \in files', f \notin files
                   PROVE  /\ f.att[cur].state = "active"
                          /\ \A b \in Attempts : b # cur => f.att[b] = contents.att[b]
        OBVIOUS
      <4>1. f = c
        BY <3>4
      <4> QED  BY <3>2, <4>1
    <3>10. \/ /\ pc' = "activated" /\ UNCHANGED <<outcome, cur, said>>
              /\ \A f \in files' : f.att[cur].state = "active"
           \/ /\ FailUnknown(cur) /\ GiveUp
              /\ faults' # 0
      BY <2>1, <3>2, <3>3, <3>4, <3>7 DEF ActivateStore
    <3> QED  BY <3>4, <3>6, <3>8, <3>9, <3>10
  <2>2. CASE UNCHANGED storeVars /\ FailUnknown(cur) /\ GiveUp
    <3>1. \A f \in files : FileOk(f)'
      BY <1>2, FileOkFixed DEF MappingInv, FilesInv
    <3>2. FilesInv'
      BY <2>2, <3>1 DEF MappingInv, FilesInv
    <3> QED  BY <1>1, <2>2, <3>2 DEF MappingInv, TypeOK
  <2> QED  BY <2>1, <2>2 DEF ActivateStore, Writes
<1>4. /\ outcome' \in [Attempts -> Outcomes]
      /\ \A b \in Attempts : outcome'[b] = outcome[b] \/ (b = cur /\ outcome'[b] = "unknown")
      /\ FailUnknown(cur) => outcome'[cur] # "running"
  <2>1. CASE FailUnknown(cur)
    BY <1>1, <2>1, OutcomeGiven DEF FailUnknown, Outcomes
  <2>2. CASE UNCHANGED outcome /\ ~FailUnknown(cur)
    BY <2>2 DEF MappingInv, TypeOK, Outcomes
  <2> QED  BY <1>3, <2>1, <2>2
<1>5. /\ said' \in [Attempts -> {"nothing", "started", "unknown"}]
      /\ \A b \in Attempts : said'[b] = "started" => said[b] = "started"
  BY <1>1, <1>3 DEF GiveUp, MappingInv, TypeOK
<1>6. /\ \/ pc' = "activated" /\ cur' = cur
         \/ pc' = "idle" /\ cur' = 0
      /\ 0 \in 0..MaxAttempts /\ cur \in 0..MaxAttempts
  BY <1>3 DEF GiveUp, MappingInv, TypeOK, MappingAssumption
<1>7. TypeOK'
  BY <1>1, <1>2, <1>3, <1>4, <1>5, <1>6 DEF MappingInv, TypeOK, Outcomes
<1>8. TurnInv'
  BY <1>2 DEF MappingInv, TurnInv
<1>9. LiveInv'
  <2> SUFFICES ASSUME NEW b \in live, contents'.att[b].state \in Ended
               PROVE  /\ bound[b] = b /\ byTurn[b] = b
                      /\ outcome'[b] = "running"
                            => \A f \in files' : f.att[b].state \in Ended
                      /\ outcome'[b] = "result" /\ faults' = 0 /\ contents'.att[b].state = "active" =>
                           owes = b \/ (pc' = "activated" /\ cur' = b)
    BY <1>2 DEF LiveInv
  <2>0. b \in Attempts
    BY DEF MappingInv, TypeOK
  <2>1. CASE b = cur
    <3>1. CASE pc' = "activated" /\ UNCHANGED <<outcome, cur, said>>
               /\ \A f \in files' : f.att[cur].state = "active"
      BY <1>1, <2>1, <3>1 DEF Ended
    <3>2. CASE FailUnknown(cur) /\ (faults' = 0
             => contents'.att[cur].state = "turn_dispatching")
      BY <1>1, <1>4, <2>1, <3>2
    <3> QED  BY <1>3, <3>1, <3>2
  <2>2. CASE b # cur
    <3>1. contents.att[b].state \in Ended /\ contents'.att[b] = contents.att[b]
      BY <1>3, <2>0, <2>2
    <3>2. /\ bound[b] = b /\ byTurn[b] = b
          /\ outcome[b] = "running" => \A f \in files : f.att[b].state \in Ended
          /\ outcome[b] = "result" /\ faults = 0 /\ contents.att[b].state = "active"
                => owes = b
      BY <1>1, <2>2, <3>1 DEF MappingInv, LiveInv
    <3>3. outcome'[b] = outcome[b]
      BY <1>4, <2>0, <2>2
    <3>4. (\A f \in files : f.att[b].state \in Ended) => \A f \in files' : f.att[b].state \in Ended
      BY <1>3, <2>0, <2>2, <3>1
    <3> QED  BY <1>3, <3>1, <3>2, <3>3, <3>4
  <2> QED  BY <2>1, <2>2
<1>10. SaidInv'
  <2> SUFFICES ASSUME NEW b \in Attempts, said'[b] = "started"
               PROVE  b \in live' /\ \A f \in files' : f.att[b].state \in Ended
    BY DEF SaidInv
  <2>1. b \in live /\ \A g \in files : g.att[b].state \in Ended
    BY <1>5 DEF MappingInv, SaidInv
  <2>2. b # cur
    BY <1>1, <2>1 DEF Ended
  <2> QED  BY <1>1, <1>2, <1>3, <2>1, <2>2
<1>11. DispatchInv'
  <2>1. CASE pc' = "idle"
    BY <2>1 DEF DispatchInv
  <2>2. CASE pc' = "activated" /\ cur' = cur
    <3>1. \A f \in files' : f.att[cur].state = "active"
      BY <1>3, <2>2 DEF GiveUp
    <3> QED  BY <1>1, <1>2, <2>2, <3>1 DEF DispatchInv, Ended
  <2> QED  BY <1>6, <2>1, <2>2
<1> QED  BY <1>3, <1>7, <1>8, <1>9, <1>10, <1>11 DEF MappingInv

\* What the record of a terminal leaves: an ended attempt stays ended in every mapping, and
\* without a failed write it is not active any more.
LEMMA TerminalLeaves ==
  ASSUME MappingAssumption, MappingInv, NEW a \in Attempts, RecordTerminal(a),
         UNCHANGED <<sends, turn>>
  PROVE  /\ FilesInv'
         /\ StoreTypeOK'
         /\ faults' = 0 => faults = 0 /\ contents'.att[a].state # "active"
         /\ contents'.dlg = contents.dlg
         /\ \A b \in Attempts :
              \/ contents'.att[b] = contents.att[b]
              \/ b = a /\ contents.att[b].state = "active" /\ contents'.att[b].state = "terminal"
         /\ \A b \in Attempts, S \in {Sent, Ended} :
              (\A f \in files : f.att[b].state \in S) => \A f \in files' : f.att[b].state \in S
<1>1. /\ contents.att[a] \in Mapped /\ contents \in files /\ FileOk(contents)
      /\ contents.dlg \in Dialogs
  BY RecordTypes DEF MappingInv, FilesInv
<1>2. CASE contents.att[a].state = "active"
  <2>1. PICK r : r = [contents.att[a] EXCEPT !.state = "terminal"]
    OBVIOUS
  <2>2. /\ r \in Mapped /\ r.state = "terminal" /\ r.thread = contents.att[a].thread
        /\ r.kind = contents.att[a].kind
    BY <1>1, <2>1 DEF Mapped, AttemptStates
  <2>3. Writes(SetAttempt(a, r))
    BY <1>2, <2>1 DEF RecordTerminal, Writes
  <2>4. /\ "active" \in Sent
        /\ "active" \in Ended
        /\ "terminal" \in Sent
        /\ "terminal" \in Ended
    BY DEF Sent, Ended
  <2>5. r.thread # 0 /\ r.thread = contents.dlg.thread /\ turn[a] # "none"
    BY <1>1, <1>2, <2>2, <2>4 DEF FileOk
  <2>6. /\ FilesInv'
        /\ StoreTypeOK'
        /\ faults' = 0 => faults = 0 /\ contents'.att[a] = r
        /\ contents'.dlg = contents.dlg
        /\ contents'.att[a] \in {contents.att[a], r}
        /\ \A b \in Attempts : b # a => contents'.att[b] = contents.att[b]
        /\ \A f \in files' :
                \/ f \in files
                \/ /\ f.att[a] = r
                   /\ \A b \in Attempts : b # a => f.att[b] = contents.att[b]
    BY <2>2, <2>3, <2>4, <2>5, OneChanges
  <2>7. ASSUME NEW b \in Attempts, NEW S \in {Sent, Ended}, \A f \in files : f.att[b].state \in S,
               NEW f \in files'
        PROVE  f.att[b].state \in S
    <3>1. CASE f \in files
      BY <2>7, <3>1
    <3>2. CASE f \notin files /\ b = a
      BY <2>2, <2>4, <2>6, <3>2
    <3>3. CASE f \notin files /\ b # a
      BY <1>1, <2>6, <2>7, <3>3
    <3> QED  BY <3>1, <3>2, <3>3
  <2>8. \A b \in Attempts :
          \/ contents'.att[b] = contents.att[b]
          \/ b = a /\ contents.att[b].state = "active" /\ contents'.att[b].state = "terminal"
    BY <1>2, <2>2, <2>6
  <2> QED  BY <2>2, <2>6, <2>7, <2>8
<1>3. CASE contents.att[a].state # "active"
  <2>1. UNCHANGED storeVars
    BY <1>3 DEF RecordTerminal
  <2>2. \A f \in files : FileOk(f)'
    BY FileOkFixed DEF MappingInv, FilesInv
  <2>3. FilesInv'
    BY <2>1, <2>2 DEF MappingInv, FilesInv
  <2> QED  BY <1>1, <1>3, <2>1, <2>3 DEF MappingInv, TypeOK
<1> QED  BY <1>2, <1>3

\* The reader records the end it reported.
LEMMA FinishRecordsKeeps ==
  ASSUME MappingAssumption, MappingInv, FinishRecords
  PROVE  MappingInv'
<1>1. /\ owes \in Attempts /\ RecordTerminal(owes) /\ owes' = 0 /\ owes # 0
      /\ UNCHANGED <<procVars, memVars, callVars, nativeVars, crashes>>
  BY DEF MappingInv, TypeOK, Attempts, FinishRecords
<1>2. /\ FilesInv'
      /\ StoreTypeOK'
      /\ faults' = 0 => faults = 0 /\ contents'.att[owes].state # "active"
      /\ contents'.dlg = contents.dlg
      /\ \A b \in Attempts :
           \/ contents'.att[b] = contents.att[b]
           \/ b = owes /\ contents.att[b].state = "active" /\ contents'.att[b].state = "terminal"
      /\ \A b \in Attempts, S \in {Sent, Ended} :
           (\A f \in files : f.att[b].state \in S) => \A f \in files' : f.att[b].state \in S
  BY <1>1, TerminalLeaves
<1>3. TypeOK'
  BY <1>1, <1>2 DEF MappingInv, TypeOK, MappingAssumption
<1>4. TurnInv'
  BY <1>1 DEF MappingInv, TurnInv
<1>5. LiveInv'
  <2> SUFFICES ASSUME NEW b \in live, contents'.att[b].state \in Ended
               PROVE  /\ bound[b] = b /\ byTurn[b] = b
                      /\ outcome[b] = "running"
                            => \A f \in files' : f.att[b].state \in Ended
                      /\ outcome[b] = "result" /\ faults' = 0 /\ contents'.att[b].state = "active" =>
                           pc = "activated" /\ cur = b
    BY <1>1 DEF LiveInv
  <2>1. b \in Attempts /\ contents.att[b].state \in Ended
    BY <1>2 DEF MappingInv, TypeOK, Ended
  <2>2. /\ bound[b] = b /\ byTurn[b] = b
        /\ outcome[b] = "running" => \A f \in files : f.att[b].state \in Ended
        /\ outcome[b] = "result" /\ faults = 0 /\ contents.att[b].state = "active" =>
             owes = b \/ (pc = "activated" /\ cur = b)
    BY <2>1 DEF MappingInv, LiveInv
  <2>3. outcome[b] = "running" => \A f \in files' : f.att[b].state \in Ended
    BY <1>2, <2>1, <2>2
  <2>4. faults' = 0 /\ contents'.att[b].state = "active" =>
          faults = 0 /\ contents.att[b].state = "active" /\ owes # b
    BY <1>2, <2>1
  <2> QED  BY <2>2, <2>3, <2>4
<1>6. SaidInv'
  BY <1>1, <1>2 DEF MappingInv, SaidInv
<1>7. DispatchInv'
  <2>1. ASSUME pc \notin {"idle", "activated"}
        PROVE  contents'.att[cur] = contents.att[cur]
    <3>1. cur \in Attempts /\ contents.att[cur].state # "active"
      BY <2>1 DEF MappingInv, TypeOK, DispatchInv, StateAt
    <3> QED  BY <1>2, <3>1
  <2>2. pc # "idle" => cur \in Attempts
    BY DEF MappingInv, TypeOK, DispatchInv
  <2> QED  BY <1>1, <1>2, <2>1, <2>2 DEF MappingInv, DispatchInv
<1> QED  BY <1>2, <1>3, <1>4, <1>5, <1>6, <1>7 DEF MappingInv

\* Dispatch says started, and records an end that came before the activation.
LEMMA ReturnKeeps ==
  ASSUME MappingAssumption, MappingInv, Return
  PROVE  MappingInv'
<1>1. /\ cur \in Attempts /\ cur \in live /\ pc = "activated" /\ pc' = "idle" /\ cur' = 0
      /\ \A f \in files : f.att[cur].state \in Ended
      /\ said' = [said EXCEPT ![cur] = "started"]
      /\ UNCHANGED <<procVars, memVars, nativeVars, owes, crashes>>
  BY DEF MappingInv, TypeOK, DispatchInv, Return
<1>2. /\ FilesInv'
      /\ StoreTypeOK'
      /\ faults' = 0
            => faults = 0 /\ (outcome[cur] = "running" \/ contents'.att[cur].state # "active")
      /\ \A b \in Attempts :
           \/ contents'.att[b] = contents.att[b]
           \/ b = cur /\ contents.att[b].state = "active" /\ contents'.att[b].state = "terminal"
      /\ \A b \in Attempts :
           (\A f \in files : f.att[b].state \in Ended) => \A f \in files' : f.att[b].state \in Ended
  <2>1. CASE outcome[cur] = "running"
    <3>1. UNCHANGED storeVars
      BY <2>1 DEF Return
    <3>2. \A f \in files : FileOk(f)'
      BY <1>1, FileOkFixed DEF MappingInv, FilesInv
    <3>3. FilesInv'
      BY <3>1, <3>2 DEF MappingInv, FilesInv
    <3> QED  BY <2>1, <3>1, <3>3 DEF MappingInv, TypeOK
  <2>2. CASE RecordTerminal(cur)
    BY <1>1, <2>2, TerminalLeaves
  <2> QED  BY <2>1, <2>2 DEF Return
<1>3. TypeOK'
  BY <1>1, <1>2 DEF MappingInv, TypeOK, MappingAssumption
<1>4. TurnInv'
  BY <1>1 DEF MappingInv, TurnInv
<1>5. LiveInv'
  <2> SUFFICES ASSUME NEW b \in live, contents'.att[b].state \in Ended
               PROVE  /\ bound[b] = b /\ byTurn[b] = b
                      /\ outcome[b] = "running"
                            => \A f \in files' : f.att[b].state \in Ended
                      /\ outcome[b] = "result" /\ faults' = 0 /\ contents'.att[b].state = "active" =>
                           owes = b
    BY <1>1 DEF LiveInv
  <2>1. b \in Attempts /\ contents.att[b].state \in Ended
    BY <1>2 DEF MappingInv, TypeOK, Ended
  <2>2. /\ bound[b] = b /\ byTurn[b] = b
        /\ outcome[b] = "running" => \A f \in files : f.att[b].state \in Ended
        /\ outcome[b] = "result" /\ faults = 0 /\ contents.att[b].state = "active" =>
             owes = b \/ (pc = "activated" /\ cur = b)
    BY <2>1 DEF MappingInv, LiveInv
  <2>3. outcome[b] = "running" => \A f \in files' : f.att[b].state \in Ended
    BY <1>2, <2>1, <2>2
  <2>4. faults' = 0 /\ contents'.att[b].state = "active" /\ outcome[b] = "result" =>
          faults = 0 /\ contents.att[b].state = "active" /\ cur # b
    BY <1>2, <2>1
  <2> QED  BY <2>2, <2>3, <2>4
<1>6. SaidInv'
  <2> SUFFICES ASSUME NEW b \in Attempts, said'[b] = "started"
               PROVE  b \in live /\ \A f \in files' : f.att[b].state \in Ended
    BY <1>1 DEF SaidInv
  <2>1. b \in live /\ \A f \in files : f.att[b].state \in Ended
    BY <1>1 DEF MappingInv, TypeOK, SaidInv
  <2> QED  BY <1>2, <2>1
<1>7. DispatchInv'
  BY <1>1 DEF DispatchInv
<1> QED  BY <1>2, <1>3, <1>4, <1>5, <1>6, <1>7 DEF MappingInv

\* No turn survives its process.
LEMMA TurnsKilled ==
  ASSUME MappingInv, KillTurns
  PROVE  /\ turn' \in [Attempts -> {"none", "running", "done", "killed"}]
         /\ \A a \in Attempts : turn'[a] # "running" /\ (turn'[a] = "none" <=> turn[a] = "none")
BY DEF MappingInv, TypeOK, KillTurns

\* A new process begins with no turn of the last.
LEMMA BeginProcessKeeps ==
  ASSUME MappingAssumption, MappingInv, BeginProcess
  PROVE  MappingInv'
<1>1. PICK c : c = [contents EXCEPT !.gen = @ + 1]
  OBVIOUS
<1>2. /\ pc = "idle" /\ \A a \in live : outcome[a] # "running"
      /\ contents.gen < MaxProcesses /\ up' \in BOOLEAN /\ KillTurns /\ Writes(c)
      /\ UNCHANGED <<exitOwed, memVars, callVars, noted, sends, owes, crashes>>
  BY <1>1 DEF BeginProcess, Writes
<1>3. /\ contents \in [gen : 0..MaxProcesses, att : [Attempts -> Mapped], dlg : Dialogs]
      /\ contents \in files
  BY DEF MappingInv, TypeOK, MappingStates
<1>4. contents.gen + 1 \in 0..MaxProcesses
  BY <1>2, <1>3 DEF MappingAssumption
<1>5. c \in MappingStates /\ c.att = contents.att /\ c.dlg = contents.dlg
  BY <1>1, <1>3, <1>4 DEF MappingStates
<1>6. /\ turn' \in [Attempts -> {"none", "running", "done", "killed"}]
      /\ \A a \in Attempts : turn'[a] # "running" /\ (turn'[a] = "none" <=> turn[a] = "none")
  BY <1>2, TurnsKilled
<1>7. \A f \in files : FileOk(f)'
  BY <1>2, <1>6, FileOkFixed DEF MappingInv, FilesInv
<1>8. FileOk(c)'
  <2>1. FileOk(contents)
    BY <1>3 DEF MappingInv, FilesInv
  <2> QED  BY <1>2, <1>5, <1>6, <2>1 DEF FileOk
<1>9. /\ FilesInv'
      /\ StoreTypeOK'
  BY <1>2, <1>5, <1>7, <1>8, WriteKeeps DEF MappingInv
<1>10. /\ contents'.att = contents.att
       /\ faults' = 0 => faults = 0
       /\ \A f \in files' : f \in files \/ f.att = contents.att
  BY <1>2, <1>5, WriteLeaves DEF MappingInv
<1>11. TypeOK'
  BY <1>2, <1>6, <1>9 DEF MappingInv, TypeOK
<1>12. TurnInv'
  BY <1>2, <1>6 DEF MappingInv, TurnInv
<1>13. LiveInv'
  BY <1>2, <1>10 DEF MappingInv, LiveInv
<1>14. SaidInv'
  BY <1>2, <1>3, <1>10 DEF MappingInv, SaidInv
<1>15. DispatchInv'
  BY <1>2 DEF DispatchInv
<1> QED  BY <1>9, <1>11, <1>12, <1>13, <1>14, <1>15 DEF MappingInv

\* A restart finds one of the files.
LEMMA CrashKeeps ==
  ASSUME MappingAssumption, MappingInv, Crash
  PROVE  MappingInv'
<1>1. /\ contents' \in files /\ files' = files /\ poisoned' = FALSE /\ faults' = faults
      /\ up' = FALSE /\ exitOwed' = FALSE /\ live' = {} /\ pc' = "idle" /\ cur' = 0
      /\ owes' = 0
      /\ outcome' = [a \in Attempts |-> "running"]
      /\ bound' = [a \in Attempts |-> 0]
      /\ byThread' = [t \in Attempts |-> 0] /\ byTurn' = [u \in Attempts |-> 0]
      /\ said' = [a \in Attempts |-> "nothing"]
      /\ KillTurns /\ UNCHANGED <<noted, sends>> /\ crashes' = crashes + 1
  BY DEF Crash
<1>2. /\ turn' \in [Attempts -> {"none", "running", "done", "killed"}]
      /\ \A a \in Attempts : turn'[a] # "running" /\ (turn'[a] = "none" <=> turn[a] = "none")
  BY <1>1, TurnsKilled
<1>3. \A f \in files : FileOk(f)'
  BY <1>1, <1>2, FileOkFixed DEF MappingInv, FilesInv
<1>4. FilesInv'
  BY <1>1, <1>3 DEF MappingInv, FilesInv
<1>5. 0 \in 0..MaxAttempts
  BY DEF MappingAssumption
<1>6. TypeOK'
  <2>1. TypeOK
    BY DEF MappingInv
  <2>2. /\ contents' \in MappingStates /\ files' \subseteq MappingStates
        /\ contents' \in files'
        /\ faults' \in Nat /\ crashes' \in Nat /\ sends' \in [Attempts -> Nat]
        /\ noted' \subseteq Attempts
    BY <1>1, <2>1 DEF TypeOK
  <2>3. /\ outcome' \in [Attempts -> {"running", "result", "unknown"}]
        /\ bound' \in [Attempts -> 0..MaxAttempts]
        /\ byThread' \in [Attempts -> 0..MaxAttempts]
        /\ byTurn' \in [Attempts -> 0..MaxAttempts]
        /\ said' \in [Attempts -> {"nothing", "started", "unknown"}]
    BY <1>1, <1>5
  <2>4. /\ poisoned' \in BOOLEAN /\ up' \in BOOLEAN /\ exitOwed' \in BOOLEAN
        /\ live' \subseteq Attempts /\ pc' = "idle"
        /\ cur' \in 0..MaxAttempts /\ owes' \in 0..MaxAttempts
    BY <1>1, <1>5
  <2> QED  BY <1>2, <2>2, <2>3, <2>4 DEF TypeOK
<1>7. TurnInv'
  BY <1>1, <1>2 DEF MappingInv, TurnInv
<1>8. LiveInv' /\ SaidInv' /\ DispatchInv'
  BY <1>1 DEF LiveInv, SaidInv, DispatchInv
<1> QED  BY <1>4, <1>6, <1>7, <1>8 DEF MappingInv

-----------------------------------------------------------------------------
\* MappingInv holds of the states the program starts in.
LEMMA MappingInitially ==
  ASSUME MappingAssumption, Init
  PROVE  MappingInv
<1>1. /\ 0 \in 0..MaxAttempts
      /\ 0 \in 0..MaxSeq
      /\ 0 \in 0..MaxProcesses
      /\ {} \in SUBSET Attempts
  BY DEF MappingAssumption
<1>2. NoAttempt \in Mapped /\ NoAttempt.state = "none" /\ NoAttempt.kind = "none"
  BY <1>1 DEF NoAttempt, Mapped, AttemptStates
<1>3. Empty \in MappingStates /\ \A a \in Attempts : Empty.att[a] = NoAttempt
  BY <1>1, <1>2 DEF Empty, MappingStates, Dialogs
<1>4. TypeOK
  BY <1>1, <1>3 DEF Init, TypeOK
<1>5. FileOk(Empty)
  BY <1>2, <1>3 DEF FileOk, Init, Sent, Ended
<1>6. FilesInv
  BY <1>5 DEF Init, FilesInv
<1>7. TurnInv /\ LiveInv /\ SaidInv /\ DispatchInv
  BY DEF Init, TurnInv, LiveInv, SaidInv, DispatchInv
<1> QED  BY <1>4, <1>6, <1>7 DEF MappingInv

\* Every step keeps the invariant.
LEMMA MappingStep ==
  ASSUME MappingAssumption, MappingInv, [Next]_vars
  PROVE  MappingInv'
<1>1. ASSUME NEW a \in Attempts, Start(a) \/ Resume(a) \/ Repeat(a)
      PROVE  MappingInv'
  BY <1>1, StartKeeps, ResumeKeeps, RepeatKeeps
<1>2. CASE DispatchStep
  BY <1>2, CallFailedKeeps, ThreadReplyKeeps, VerifiedKeeps, BeginTurnKeeps, SendTurnKeeps,
     TurnReplyKeeps, ActivateKeeps, ReturnKeeps DEF DispatchStep
<1>3. ASSUME NEW u \in Attempts, NoticeStarted(u) \/ NoticeCompleted(u) \/ NoticeError(u)
      PROVE  MappingInv'
  BY <1>3, StartedKeeps, CompletedKeeps, ErrorKeeps
<1>4. CASE FinishRecords \/ FailActive \/ Exit \/ HandleExit \/ BeginProcess \/ Crash
  BY <1>4, FinishRecordsKeeps, FailActiveKeeps, ExitKeeps, HandleExitKeeps,
     BeginProcessKeeps,
     CrashKeeps
<1>5. CASE UNCHANGED vars
  <2>1. /\ UNCHANGED storeVars /\ UNCHANGED memVars /\ UNCHANGED callVars
        /\ UNCHANGED nativeVars /\ UNCHANGED procVars /\ UNCHANGED <<owes, crashes>>
    BY <1>5 DEF vars
  <2>2. \A f \in files : FileOk(f)'
    BY <2>1, FileOkFixed DEF MappingInv, FilesInv
  <2> QED  BY <2>1, <2>2 DEF MappingInv, TypeOK, FilesInv, TurnInv, LiveInv, SaidInv,
       DispatchInv
<1> QED  BY <1>1, <1>2, <1>3, <1>4, <1>5 DEF Next

-----------------------------------------------------------------------------
\* What the invariant says of the mapping.
LEMMA MappingImplied ==
  ASSUME MappingAssumption, MappingInv
  PROVE  MappingIsTrue
<1>1. TypeOK /\ contents \in files
  BY DEF MappingInv, TypeOK
<1>2. WriteAhead
  BY DEF MappingInv, FilesInv, FileOk, WriteAhead
<1>3. TurnSentOnce
  BY DEF MappingInv, TurnInv, TurnSentOnce
<1>4. StartedIsDurable
  <2> SUFFICES ASSUME NEW a \in Attempts, said[a] = "started", NEW f \in files
               PROVE  /\ turn[a] # "none" /\ f.att[a].state \in {"active", "terminal"}
                      /\ f.att[a].thread = f.dlg.thread
    BY <1>1 DEF StartedIsDurable
  <2> QED  BY DEF MappingInv, SaidInv, FilesInv, FileOk, Ended
<1>5. \A a \in Attempts : said[a] = "started" => a \in live /\ contents.att[a].state \in Ended
  BY <1>1 DEF MappingInv, SaidInv
<1>6. live \subseteq Attempts
  BY <1>1 DEF TypeOK
<1>7. EndIsRecorded
  <2> SUFFICES ASSUME NEW a \in live, faults = 0, owes = 0, cur # a, said[a] = "started",
                      outcome[a] = "result"
               PROVE  contents.att[a].state = "terminal"
    BY DEF EndIsRecorded
  <2>1. a \in Attempts /\ a # 0
    BY <1>6 DEF Attempts
  <2>2. contents.att[a].state \in Ended
    BY <1>5, <2>1
  <2>3. contents.att[a].state # "active"
    BY <2>1, <2>2 DEF MappingInv, LiveInv
  <2> QED  BY <2>2, <2>3 DEF Ended
<1>8. OneAttemptPerTurn
  <2> SUFFICES ASSUME NEW a \in Attempts, said[a] = "started"
               PROVE  bound[a] = a /\ byTurn[a] = a
    BY <1>6 DEF OneAttemptPerTurn
  <2>1. a \in live /\ contents.att[a].state \in Ended
    BY <1>5
  <2> QED  BY <2>1 DEF MappingInv, LiveInv
<1>9. ConfirmedIsOver
  <2> SUFFICES ASSUME NEW a \in Attempts, ConfirmPriorTerminal(a)
               PROVE  turn[a] \in {"done", "killed"}
    BY DEF ConfirmedIsOver
  <2>1. a \notin live /\ contents.att[a].state \in Ended
    BY DEF ConfirmPriorTerminal, Ended
  <2>2. turn[a] # "none" /\ turn[a] # "running"
    BY <1>1, <2>1 DEF MappingInv, FilesInv, FileOk, TurnInv
  <2> QED  BY <1>1, <2>2 DEF TypeOK
<1> QED  BY <1>1, <1>2, <1>3, <1>4, <1>7, <1>8, <1>9 DEF MappingIsTrue

-----------------------------------------------------------------------------
\* What a step may not do to a dialog.
NotBack(g, f) ==
  g.dlg.thread # 0 => /\ f.dlg.thread = g.dlg.thread
                      /\ f.dlg.policy = g.dlg.policy
                      /\ f.dlg.seq >= g.dlg.seq

\* A step that leaves the files leaves their dialogs.
LEMMA SameStable ==
  ASSUME MappingAssumption, MappingInv, files' = files
  PROVE  \A f \in files' : \E g \in files : NotBack(g, f)
<1> SUFFICES ASSUME NEW f \in files PROVE NotBack(f, f)
  OBVIOUS
<1>1. f.dlg.seq \in 0..MaxSeq /\ MaxSeq \in Nat
  BY DEF MappingInv, TypeOK, MappingStates, Dialogs, MappingAssumption
<1> QED  BY <1>1 DEF NotBack

\* A write is as good as its change.
LEMMA WriteStable ==
  ASSUME MappingAssumption, MappingInv, NEW c, Writes(c), NotBack(contents, c)
  PROVE  \A f \in files' : \E g \in files : NotBack(g, f)
<1> SUFFICES ASSUME NEW f \in files' PROVE \E g \in files : NotBack(g, f)
  OBVIOUS
<1>1. f \in files \/ f = c
  BY WriteLeaves DEF MappingInv
<1>2. CASE f \in files
  <2>1. f.dlg.seq \in 0..MaxSeq /\ MaxSeq \in Nat
    BY <1>2 DEF MappingInv, TypeOK, MappingStates, Dialogs, MappingAssumption
  <2>2. NotBack(f, f)
    BY <2>1 DEF NotBack
  <2> QED  BY <1>2, <2>2
<1>3. CASE f = c
  BY <1>3 DEF MappingInv, TypeOK
<1> QED  BY <1>1, <1>2, <1>3

\* A change of an attempt leaves the dialog.
LEMMA OneStable ==
  ASSUME MappingAssumption, MappingInv, NEW a \in Attempts, NEW r, Writes(SetAttempt(a, r))
  PROVE  \A f \in files' : \E g \in files : NotBack(g, f)
<1>1. PICK c : c = SetAttempt(a, r)
  OBVIOUS
<1>2. contents.dlg.seq \in 0..MaxSeq /\ MaxSeq \in Nat
  BY DEF MappingInv, TypeOK, MappingStates, Dialogs, MappingAssumption
<1>3. c.dlg = contents.dlg
  BY <1>1, SetOne DEF MappingInv
<1> QED  BY <1>1, <1>2, <1>3, WriteStable DEF NotBack

\* The activation takes the dialog on only from its own thread, under its own policy.
LEMMA ActivatedStable ==
  ASSUME MappingAssumption, MappingInv, pc = "activate", DialogAccepts(cur),
         Writes(Activated(cur))
  PROVE  \A f \in files' : \E g \in files : NotBack(g, f)
<1>1. PICK c : c = Activated(cur)
  OBVIOUS
<1>2. /\ cur \in Attempts
      /\ contents.dlg.thread # 0 => contents.att[cur].policy = contents.dlg.policy
  BY DEF MappingInv, TypeOK, DispatchInv
<1>3. /\ contents \in [gen : 0..MaxProcesses, att : [Attempts -> Mapped], dlg : Dialogs]
      /\ contents.att[cur].seq \in 0..MaxSeq /\ contents.dlg.seq \in 0..MaxSeq
      /\ MaxSeq \in Nat
  BY <1>2, RecordTypes DEF MappingInv, Mapped, Dialogs, MappingAssumption
<1>4. c.dlg = [thread |-> contents.att[cur].thread, policy |-> contents.att[cur].policy,
               seq |-> IF contents.dlg.seq > contents.att[cur].seq
                       THEN contents.dlg.seq ELSE contents.att[cur].seq]
  <2>1. PICK at : at = [contents.att EXCEPT
                          ![cur] = [contents.att[cur] EXCEPT !.turn = cur, !.state = "active"]]
    OBVIOUS
  <2>2. PICK d : d = [thread |-> contents.att[cur].thread, policy |-> contents.att[cur].policy,
                      seq |-> IF contents.dlg.seq > contents.att[cur].seq
                              THEN contents.dlg.seq ELSE contents.att[cur].seq]
    OBVIOUS
  <2>3. c = [contents EXCEPT !.att = at, !.dlg = d]
    BY <1>1, <1>3, <2>1, <2>2 DEF Activated
  <2> QED  BY <1>3, <2>2, <2>3
<1>5. c.dlg.seq >= contents.dlg.seq
  BY <1>3, <1>4
<1>6. contents.dlg.thread # 0 => contents.dlg.thread = contents.att[cur].thread
  BY DEF DialogAccepts
<1>7. NotBack(contents, c)
  BY <1>2, <1>4, <1>5, <1>6 DEF NotBack
<1> QED  BY <1>1, <1>7, WriteStable

\* No step takes a dialog back in a mapping a restart may find.
LEMMA DialogStep ==
  ASSUME MappingAssumption, MappingInv, Next
  PROVE  \A f \in files' : \E g \in files : NotBack(g, f)
<1>1. ASSUME NEW a \in Attempts, RecordTerminal(a)
      PROVE  \A f \in files' : \E g \in files : NotBack(g, f)
  <2>1. CASE UNCHANGED storeVars
    BY <2>1, SameStable
  <2>2. CASE Writes(SetAttempt(a, [contents.att[a] EXCEPT !.state = "terminal"]))
    BY <2>2, OneStable
  <2> QED  BY <1>1, <2>1, <2>2 DEF RecordTerminal, Writes
<1>2. ASSUME NEW a \in Attempts, Start(a) \/ Resume(a)
      PROVE  \A f \in files' : \E g \in files : NotBack(g, f)
  <2>1. PICK kind, s, p, thread, proof : Intend(a, kind, s, p, thread, proof)
    BY <1>2 DEF Start, Resume
  <2> QED  BY <2>1, OneStable DEF Intend, Intent, Writes
<1>3. CASE ThreadReply \/ BeginTurn
  <2>1. cur \in Attempts
    BY <1>3 DEF MappingInv, TypeOK, DispatchInv, ThreadReply, BeginTurn
  <2>2. PICK r : Writes(SetAttempt(cur, r))
    BY <1>3 DEF ThreadReply, BeginTurn, ThreadAcknowledged, TurnIntended, Writes
  <2> QED  BY <2>1, <2>2, OneStable
<1>4. CASE ActivateStore
  <2>1. CASE UNCHANGED storeVars
    BY <2>1, SameStable
  <2>2. CASE DialogAccepts(cur) /\ Writes(Activated(cur))
    BY <1>4, <2>2, ActivatedStable DEF ActivateStore
  <2> QED  BY <1>4, <2>1, <2>2 DEF ActivateStore, Writes
<1>5. CASE Return \/ FinishRecords
  <2>1. CASE UNCHANGED storeVars
    BY <2>1, SameStable
  <2>2. CASE Return /\ RecordTerminal(cur)
    <3>1. cur \in Attempts
      BY <2>2 DEF MappingInv, TypeOK, DispatchInv, Return
    <3> QED  BY <1>1, <2>2, <3>1
  <2>3. CASE FinishRecords
    <3>1. owes \in Attempts /\ RecordTerminal(owes)
      BY <2>3 DEF MappingInv, TypeOK, Attempts, FinishRecords
    <3> QED  BY <1>1, <3>1
  <2> QED  BY <1>5, <2>1, <2>2, <2>3 DEF Return
<1>6. CASE BeginProcess
  <2>1. PICK c : c = [contents EXCEPT !.gen = @ + 1]
    OBVIOUS
  <2>2. Writes(c)
    BY <1>6, <2>1 DEF BeginProcess, Writes
  <2>3. /\ contents \in [gen : 0..MaxProcesses, att : [Attempts -> Mapped], dlg : Dialogs]
        /\ contents.dlg.seq \in 0..MaxSeq /\ MaxSeq \in Nat
    BY DEF MappingInv, TypeOK, MappingStates, Dialogs, MappingAssumption
  <2>4. c.dlg = contents.dlg
    BY <2>1, <2>3
  <2> QED  BY <2>2, <2>3, <2>4, WriteStable DEF NotBack
<1>7. ASSUME files' = files
      PROVE  \A f \in files' : \E g \in files : NotBack(g, f)
  BY <1>7, SameStable
<1>8. ASSUME NEW a \in Attempts, Repeat(a) PROVE files' = files
  BY <1>8 DEF Repeat
<1>9. ASSUME CallFailed \/ Verified \/ SendTurn \/ TurnReply PROVE files' = files
  BY <1>9 DEF CallFailed, Verified, SendTurn, TurnReply
<1>10. ASSUME NEW u \in Attempts, NoticeStarted(u) \/ NoticeCompleted(u) \/ NoticeError(u)
       PROVE  files' = files
  BY <1>10 DEF NoticeStarted, NoticeCompleted, NoticeError
<1>11. ASSUME FailActive \/ Exit \/ HandleExit \/ Crash PROVE files' = files
  BY <1>11 DEF FailActive, Exit, HandleExit, Crash
<1> QED  BY <1>2, <1>3, <1>4, <1>5, <1>6, <1>7, <1>8, <1>9, <1>10, <1>11 DEF Next,
     DispatchStep

-----------------------------------------------------------------------------
\* MappingInv holds of a node that finds two ended attempts.
LEMMA ReopenedInitially ==
  ASSUME Reopened
  PROVE  MappingInv
<1>1. /\ MaxAttempts \in Nat /\ MaxAttempts >= 2 /\ MaxSeq \in Nat /\ MaxSeq >= 2
      /\ MaxProcesses \in Nat /\ MaxProcesses >= 1 /\ Policy \in Policies
  BY PartsAssumption DEF MappingAssumption, Policy
<1>2. /\ Attempts = 1..MaxAttempts
      /\ 1 \in Attempts /\ 2 \in Attempts
      /\ {} \in SUBSET Attempts
      /\ 0 \in 0..MaxAttempts /\ 1 \in 0..MaxAttempts /\ 2 \in 0..MaxAttempts
      /\ 0 \in 0..MaxSeq /\ 1 \in 0..MaxSeq /\ 2 \in 0..MaxSeq
      /\ 0 \in 0..MaxProcesses /\ 1 \in 0..MaxProcesses
  BY <1>1 DEF Attempts
<1>3. /\ NoAttempt \in Mapped /\ NoAttempt.state = "none"
      /\ NoAttempt.kind = "none"
  BY <1>2 DEF NoAttempt, Mapped, AttemptStates
<1>4. /\ EndedRecord(1, "start") \in Mapped /\ EndedRecord(2, "resume") \in Mapped
      /\ EndedRecord(1, "start").state = "terminal"
      /\ EndedRecord(2, "resume").state = "terminal"
      /\ EndedRecord(1, "start").thread = 1 /\ EndedRecord(2, "resume").thread = 1
  BY <1>1, <1>2 DEF EndedRecord, Mapped, AttemptStates
<1>5. /\ TwoEnded.att \in [Attempts -> Mapped]
      /\ TwoEnded.att[1] = EndedRecord(1, "start")
      /\ TwoEnded.att[2] = EndedRecord(2, "resume")
      /\ \A a \in Attempts : a \notin {1, 2} => TwoEnded.att[a] = NoAttempt
      /\ TwoEnded.dlg.thread = 1
  BY <1>2, <1>3, <1>4 DEF TwoEnded
<1>6. TwoEnded \in MappingStates
  <2>1. [thread |-> 1, seq |-> 2, policy |-> Policy] \in Dialogs
    BY <1>1, <1>2 DEF Dialogs
  <2> QED  BY <1>2, <1>5, <2>1 DEF TwoEnded, MappingStates
<1>7. TypeOK
  BY <1>2, <1>6 DEF Reopened, TypeOK
<1>8. \A a \in Attempts :
        IF a \in {1, 2} THEN turn[a] = "done" /\ sends[a] = 1
        ELSE turn[a] = "none" /\ sends[a] = 0
  BY <1>2 DEF Reopened
<1>9. FileOk(TwoEnded)
  <2> SUFFICES ASSUME NEW a \in Attempts
               PROVE  /\ TwoEnded.att[a].kind = "resume" => TwoEnded.att[a].thread # 0
                      /\ TwoEnded.att[a].state \in {"thread_acknowledged"} \cup Sent
                           => TwoEnded.att[a].thread # 0
                      /\ TwoEnded.att[a].state \in Ended =>
                           TwoEnded.att[a].thread = TwoEnded.dlg.thread /\ turn[a] # "none"
                      /\ sends[a] > 0 => TwoEnded.att[a].state \in Sent
    BY DEF FileOk
  <2>1. CASE a \in {1, 2}
    BY <1>4, <1>5, <1>8, <2>1 DEF Sent
  <2>2. CASE a \notin {1, 2}
    BY <1>3, <1>5, <1>8, <2>2 DEF Sent, Ended
  <2> QED  BY <2>1, <2>2
<1>10. FilesInv
  BY <1>9 DEF Reopened, FilesInv
<1>11. TurnInv
  BY <1>8 DEF TurnInv
<1>12. LiveInv /\ SaidInv /\ DispatchInv
  BY <1>2 DEF Reopened, LiveInv, SaidInv, DispatchInv
<1> QED  BY <1>7, <1>10, <1>11, <1>12 DEF MappingInv

-----------------------------------------------------------------------------
\* The theorems.

\* A step of the settings service leaves the mapping alone.
LEMMA PartsStep ==
  ASSUME [PartsNext]_partsVars
  PROVE  [Next]_vars
BY DEF PartsNext, MappingPart, SettingsPart, partsVars

\* MappingInv is an invariant of dispatch and the mapping, from an empty mapping and from
\* the mapping of two ended attempts.
THEOREM MappingInvariance ==
  /\ Spec => []MappingInv
  /\ PartsSpec => []MappingInv
<1>0. MappingAssumption
  BY PartsAssumption
<1>1. Init => MappingInv
  BY <1>0, MappingInitially
<1>2. MappingInv /\ [Next]_vars => MappingInv'
  BY <1>0, MappingStep
<1>3. Spec => []MappingInv
  BY <1>1, <1>2, PTL DEF Spec
<1>4. PartsInit => MappingInv
  BY <1>0, MappingInitially, ReopenedInitially DEF PartsInit
<1>5. MappingInv /\ [PartsNext]_partsVars => MappingInv'
  BY <1>0, MappingStep, PartsStep
<1>6. PartsSpec => []MappingInv
  BY <1>4, <1>5, PTL DEF PartsSpec
<1> QED  BY <1>3, <1>6

\* What a restart may find covers what the native process was asked for and what the node
\* was told: a turn is written ahead and asked for once, across repeated calls, failed
\* writes and crashes; an attempt that was said to have started is active or terminal in
\* every file; notices of a turn reach its own attempt; and no running turn is confirmed
\* as ended (dispatch of adapter.go, commitCandidateLocked of store.go).
THEOREM MappingTrue ==
  /\ Spec => []MappingIsTrue
  /\ PartsSpec => []MappingIsTrue
<1>1. MappingInv => MappingIsTrue
  BY PartsAssumption, MappingImplied
<1> QED  BY <1>1, MappingInvariance, PTL

\* In every mapping a restart may find, a dialog that had a thread keeps it and its
\* policy, and its boundary does not go back (activate and validFailedTail of store.go).
THEOREM DialogStable ==
  /\ Spec => DialogIsStable
  /\ PartsSpec => DialogIsStable
<1>1. MappingInv /\ [Next]_vars =>
        [\A f \in files' : \E g \in files :
           g.dlg.thread # 0 => /\ f.dlg.thread = g.dlg.thread
                               /\ f.dlg.policy = g.dlg.policy
                               /\ f.dlg.seq >= g.dlg.seq]_vars
  BY PartsAssumption, DialogStep DEF NotBack
<1>2. MappingInv /\ [PartsNext]_partsVars =>
        [\A f \in files' : \E g \in files :
           g.dlg.thread # 0 => /\ f.dlg.thread = g.dlg.thread
                               /\ f.dlg.policy = g.dlg.policy
                               /\ f.dlg.seq >= g.dlg.seq]_vars
  BY <1>1, PartsStep
<1>3. Spec => DialogIsStable
  BY <1>1, MappingInvariance, PTL DEF Spec, DialogIsStable
<1>4. PartsSpec => DialogIsStable
  BY <1>2, MappingInvariance, PTL DEF PartsSpec, DialogIsStable
<1> QED  BY <1>3, <1>4
=============================================================================
