------------------------ MODULE ProviderLogin_proofs ------------------------
(***************************************************************************)
(* The login manager keeps its promises for every set of commands and      *)
(* every capacity: authorization is earned (AuthorizationIsEarned), a      *)
(* command reaches the App Server at most once (NativeOncePerCommand), and *)
(* an operation that has ended is not revived (NotRevived).                *)
(*                                                                         *)
(* None is inductive alone.  A command is not sent again because every     *)
(* state the file may come back with has its receipt; a flow is not opened *)
(* again because its command is not; and so a completion that was under    *)
(* way stays the completion of a completed flow.                           *)
(***************************************************************************)
EXTENDS ProviderLogin, TLAPS

-----------------------------------------------------------------------------
\* The invariant.

\* The commands that have, or may have, reached the App Server.
Used == {c \in Commands : flow[c] # "none" \/ calls[c] > 0 \/ call.cmd = c}

Completed == {o \in Commands : flow[o] = "completed"}

\* The records that lack no receipt and claim nothing that did not happen.
Honest(used, done) ==
  {s \in States :
     /\ s.state = "authenticated" => s.managed
     /\ s.managed => done # {}
     /\ \A o \in Commands : s.status[o] = "succeeded" => o \in done
     /\ used \subseteq s.receipts}

StoreInv == mem \in Honest(Used, Completed) /\ disk \in Honest(Used, Completed)
            /\ durable \subseteq Honest(Used, Completed)

CallInv ==
  /\ call.kind # "idle" => call.cmd \in Commands
  /\ call.kind = "start" => call.op = call.cmd
  /\ call.kind = "cancel" => call.op \in Commands
  /\ call.kind # "idle" /\ call.reply = "waiting" => calls[call.cmd] = 0
  /\ call.kind = "start" /\ call.reply = "waiting" => flow[call.cmd] = "none"

FlowInv ==
  \A o \in Commands :
    /\ completion[o] \notin {"idle", "failure"} => flow[o] = "completed"
    /\ stash[o] = "success" => flow[o] = "completed"

IInv == TypeOK /\ StoreInv /\ CallInv /\ FlowInv /\ NativeOncePerCommand

-----------------------------------------------------------------------------
\* Records.

\* Nothing that happened is undone, so that an honest record stays honest.
LEMMA HonestMonotone ==
  ASSUME NEW used, NEW done, NEW used1, NEW done1,
         used1 \subseteq used, done \subseteq done1
  PROVE  Honest(used, done) \subseteq Honest(used1, done1)
BY DEF Honest

\* Ending an operation claims nothing, unless it succeeded.
LEMMA HonestFinished ==
  ASSUME NEW used, NEW done, NEW s \in Honest(used, done), NEW o \in Commands,
         NEW status \in Terminal, status = "succeeded" => o \in done
  PROVE  Finished(s, o, status) \in Honest(used, done)
BY DEF Honest, Finished, States, Terminal

\* A failed operation of an unknown login claims nothing.
LEMMA HonestBlocked ==
  ASSUME NEW used, NEW done, NEW s \in Honest(used, done), NEW o \in Commands
  PROVE  [s EXCEPT !.state = "unknown", !.status[o] = "failed"]
           \in Honest(used, done)
BY DEF Honest, States, Terminal

\* applyAccountReadLocked authorizes nobody who was not authorized.
LEMMA HonestRead ==
  ASSUME NEW used, NEW done, NEW s \in Honest(used, done), NEW reply
  PROVE  ReadOrUnknown(s, reply) \in Honest(used, done)
BY DEF Honest, States, ReadOrUnknown, AccountRead

\* A receipt claims only that its command was taken.
LEMMA HonestReceipted ==
  ASSUME NEW used, NEW done, NEW s \in Honest(used, done), NEW c \in Commands
  PROVE  [s EXCEPT !.receipts = @ \cup {c}] \in Honest(used \cup {c}, done)
BY DEF Honest, States

\* What startup makes of an honest record is honest (initializeProviderAuth).
LEMMA HonestRecovered ==
  ASSUME NEW used, NEW done, NEW s \in Honest(used, done)
  PROVE  Recovered(s) \in Honest(used, done)
<1>1. CASE Pending(s)
  <2>1. s.op \in Commands /\ Recovered(s) = Finished(s, s.op, "failed")
    BY <1>1 DEF Honest, States, Pending, Recovered, Finished
  <2> QED  BY <2>1, HonestFinished DEF Terminal
<1>2. CASE ~Pending(s)
  BY <1>2 DEF Recovered
<1> QED  BY <1>1, <1>2

\* A write adds at most the record that is written to what the file may hold.
LEMMA PersistHonest ==
  ASSUME NEW good, disk \in good, durable \subseteq good, NEW s \in good,
         NEW outcome \in Outcomes, Persist(s, outcome)
  PROVE  disk' \in good /\ durable' \subseteq good
BY DEF Persist, Written, Kept, Outcomes

\* The new record is honest, and the file holds it or what it held.
LEMMA RecordHonest ==
  ASSUME NEW good, disk \in good, durable \subseteq good, NEW s \in good,
         NEW outcome \in Outcomes, Record(s, outcome)
  PROVE  mem' \in good /\ disk' \in good /\ durable' \subseteq good
BY PersistHonest DEF Record

\* The same for persistProviderAuthOrBlockLocked, with its two writes.
LEMMA RecordOrBlockHonest ==
  ASSUME NEW used, NEW done, NEW s \in Honest(used, done), NEW o \in Commands,
         disk \in Honest(used, done), durable \subseteq Honest(used, done),
         NEW first \in Outcomes, NEW second \in Outcomes,
         RecordOrBlock(s, o, first, second)
  PROVE  /\ mem' \in Honest(used, done) /\ disk' \in Honest(used, done)
         /\ durable' \subseteq Honest(used, done)
<1> DEFINE blocked == [s EXCEPT !.state = "unknown", !.status[o] = "failed"]
<1>1. blocked \in Honest(used, done)
  BY HonestBlocked
<1>2. CASE first = "ok"
  BY <1>2, RecordHonest DEF RecordOrBlock
<1>3. CASE first # "ok"
  <2>1. /\ mem' = blocked
        /\ disk' = Written(blocked, second, Written(s, first, disk))
        /\ durable' = Kept(blocked, second, Kept(s, first, durable))
    BY <1>3 DEF RecordOrBlock
  <2> HIDE DEF blocked
  <2> QED  BY <1>1, <2>1 DEF Written, Kept, Outcomes
<1> QED  BY <1>2, <1>3

-----------------------------------------------------------------------------
\* What the steps have in common.

\* The variables other than the record have their types.
RestOK ==
  /\ call \in [kind : {"idle", "start", "check", "cancel", "logout"},
               cmd : Commands \cup {NoOp}, op : Commands \cup {NoOp},
               reply : Replies]
  /\ completion \in [Commands -> {"idle", "success", "failure", "reading",
                                  "error"} \cup Accounts]
  /\ stash \in [Commands -> {"none", "success", "failure"}]
  /\ overdue \in BOOLEAN
  /\ account \in Accounts
  /\ flow \in [Commands -> {"none", "open", "completed", "closed"}]
  /\ calls \in [Commands -> Nat]

\* An honest record has its type.
LEMMA InvFromParts ==
  ASSUME StoreInv', RestOK', CallInv', FlowInv', NativeOncePerCommand'
  PROVE  IInv'
BY DEF IInv, TypeOK, RestOK, StoreInv, Honest

\* The parts a step may take from the invariant.
LEMMA InvParts ==
  ASSUME IInv
  PROVE  StoreInv /\ RestOK /\ CallInv /\ FlowInv /\ NativeOncePerCommand
BY DEF IInv, TypeOK, RestOK

\* The record was written by a step that undoes nothing.
LEMMA StoreFromWrite ==
  ASSUME mem' \in Honest(Used, Completed), disk' \in Honest(Used, Completed),
         durable' \subseteq Honest(Used, Completed),
         Used' \subseteq Used, Completed \subseteq Completed'
  PROVE  StoreInv'
<1>1. Honest(Used, Completed) \subseteq Honest(Used', Completed')
  BY HonestMonotone
<1> QED  BY <1>1 DEF StoreInv

\* A step that leaves the record alone.
LEMMA StoreUntouched ==
  ASSUME StoreInv, UNCHANGED storeVars,
         Used' \subseteq Used, Completed \subseteq Completed'
  PROVE  StoreInv'
BY StoreFromWrite DEF StoreInv, storeVars

\* The App Server is left alone; the handler goes on or is done.
LEMMA QuietStep ==
  ASSUME UNCHANGED nativeVars, call'.cmd = call.cmd \/ call'.cmd = NoOp
  PROVE  Used' \subseteq Used /\ Completed' = Completed
<1>1. NoOp \notin Commands
  BY LoginAssumption DEF NoOp
<1> QED  BY <1>1 DEF nativeVars, Used, Completed

-----------------------------------------------------------------------------
\* Steps.

\* A first start has no record, no call and no flow.
LEMMA InitInv ==
  ASSUME Init
  PROVE  IInv
<1>1. NoOp \notin Commands
  BY LoginAssumption DEF NoOp
<1>2. Used = {} /\ Completed = {}
  BY <1>1 DEF Init, Used, Completed, NoCall
<1>3. NewState \in Honest(Used, Completed)
  BY <1>2 DEF Honest, NewState, States
<1>4. StoreInv
  BY <1>3, HonestRead DEF Init, StoreInv
<1>5. TypeOK
  BY <1>4 DEF Init, StoreInv, TypeOK, Honest, NoCall, Replies
<1> QED
  BY <1>4, <1>5 DEF Init, IInv, CallInv, FlowInv, NativeOncePerCommand, NoCall

\* A start writes its receipt with the pending operation, then calls.
LEMMA StartAuthInv ==
  ASSUME IInv, NEW c \in Commands, NEW outcome \in Outcomes,
         StartAuth(c, outcome)
  PROVE  IInv'
<1> USE InvParts
<1> DEFINE next == [Receipted(c) EXCEPT !.op = c, !.status[c] = "pending"]
<1>1. c \notin Used
  BY DEF StartAuth, Admissible, StoreInv, Honest
<1>2. next \in Honest(Used \cup {c}, Completed)
  <2>1. Receipted(c) \in Honest(Used \cup {c}, Completed)
    BY HonestReceipted DEF StoreInv, Receipted
  <2> QED  BY <2>1 DEF Honest, States
<1>3. Completed' = Completed
  BY DEF StartAuth, Completed, nativeVars
<1>4. next \in Honest(Used, Completed)
  BY <1>2, HonestMonotone
<1>5. Persist(next, outcome)
  BY DEF StartAuth
<1> HIDE DEF next
<1>6. CASE outcome = "ok"
  <2>1. mem' = next /\ disk' = next /\ durable' = {next}
    BY <1>6 DEF StartAuth, Persist, Written, Kept, next
  <2>2. Used' \subseteq Used \cup {c}
    BY <1>6 DEF StartAuth, Used, nativeVars, Calling
  <2>3. StoreInv'
    BY <1>2, <1>3, <2>1, <2>2, HonestMonotone DEF StoreInv
  <2>4. RestOK'
    BY <1>6 DEF StartAuth, RestOK, Calling, nativeVars, Replies
  <2>5. CallInv'
    BY <1>1, <1>6 DEF StartAuth, CallInv, Calling, nativeVars, Used, RestOK
  <2>6. FlowInv' /\ NativeOncePerCommand'
    BY DEF StartAuth, FlowInv, NativeOncePerCommand, nativeVars
  <2> QED  BY <2>3, <2>4, <2>5, <2>6, InvFromParts
<1>7. CASE outcome # "ok"
  <2>1. mem' \in Honest(Used, Completed)
    <3>1. mem' = mem \/ mem' = [next EXCEPT !.status[c] = "failed",
                                            !.state = "unknown"]
      BY <1>7 DEF StartAuth, Outcomes, next
    <3>2. [next EXCEPT !.status[c] = "failed", !.state = "unknown"]
            \in Honest(Used, Completed)
      BY <1>4 DEF Honest, States, Terminal
    <3> QED  BY <3>1, <3>2 DEF StoreInv
  <2>2. disk' \in Honest(Used, Completed) /\ durable' \subseteq Honest(Used, Completed)
    BY <1>4, <1>5, PersistHonest DEF StoreInv
  <2>3. StoreInv'
    BY <1>7, <2>1, <2>2, QuietStep, StoreFromWrite DEF StartAuth
  <2>4. RestOK' /\ CallInv' /\ FlowInv' /\ NativeOncePerCommand'
    BY <1>7 DEF StartAuth, RestOK, CallInv, FlowInv, NativeOncePerCommand,
                nativeVars
  <2> QED  BY <2>3, <2>4, InvFromParts
<1> QED  BY <1>6, <1>7

\* The receipt is written before the handler may call the App Server.
LEMMA BeginInv ==
  ASSUME IInv, NEW kind \in {"check", "cancel", "logout"}, NEW c \in Commands,
         NEW o \in Commands \cup {NoOp}, kind = "cancel" => o \in Commands,
         NEW outcome \in Outcomes, Begin(kind, c, o, outcome)
  PROVE  IInv'
<1> USE InvParts
<1>1. c \notin Used
  BY DEF Begin, Admissible, StoreInv, Honest
<1>2. Receipted(c) \in Honest(Used \cup {c}, Completed)
  BY HonestReceipted DEF StoreInv, Receipted
<1>3. Completed' = Completed
  BY DEF Begin, Completed, nativeVars
<1>4. Receipted(c) \in Honest(Used, Completed)
  BY <1>2, HonestMonotone
<1>5. Record(Receipted(c), outcome)
  BY DEF Begin
<1>6. FlowInv' /\ NativeOncePerCommand'
  BY DEF Begin, FlowInv, NativeOncePerCommand, nativeVars
<1>7. CASE outcome = "ok"
  <2>1. mem' = Receipted(c) /\ disk' = Receipted(c) /\ durable' = {Receipted(c)}
    BY <1>5, <1>7 DEF Record, Persist, Written, Kept
  <2>2. Used' \subseteq Used \cup {c}
    BY <1>7 DEF Begin, Used, nativeVars, Calling
  <2>3. StoreInv'
    BY <1>2, <1>3, <2>1, <2>2, HonestMonotone DEF StoreInv
  <2>4. RestOK'
    BY <1>7 DEF Begin, RestOK, Calling, nativeVars, Replies
  <2>5. CallInv'
    BY <1>1, <1>7 DEF Begin, CallInv, Calling, nativeVars, Used, RestOK
  <2> QED  BY <1>6, <2>3, <2>4, <2>5, InvFromParts
<1>8. CASE outcome # "ok"
  <2>1. StoreInv'
    BY <1>4, <1>5, <1>8, RecordHonest, QuietStep, StoreFromWrite
    DEF Begin, StoreInv
  <2>2. RestOK' /\ CallInv'
    BY <1>8 DEF Begin, RestOK, CallInv, nativeVars
  <2> QED  BY <1>6, <2>1, <2>2, InvFromParts
<1> QED  BY <1>7, <1>8

\* The handler's call reaches the App Server: it was not there before.
LEMMA NativeStartInv ==
  ASSUME IInv, NEW reply \in {"opened", "unanswered", "unwritten", "invalid"},
         NEW opens \in BOOLEAN, NativeStart(reply, opens)
  PROVE  IInv'
<1> USE InvParts
<1>1. call.kind = "start" /\ call.reply = "waiting" /\ call.cmd \in Commands
  BY DEF NativeStart, Asked, CallInv
<1>2. calls[call.cmd] = 0 /\ flow[call.cmd] = "none"
  BY <1>1 DEF CallInv
<1>3. call'.kind = "start" /\ call'.cmd = call.cmd /\ call'.op = call.op
      /\ call'.reply = reply
  BY <1>1 DEF NativeStart, Answer, RestOK
<1>4. Used' \subseteq Used /\ Completed \subseteq Completed'
  BY <1>1, <1>2, <1>3 DEF NativeStart, Used, Completed, Count, RestOK
<1>5. StoreInv'
  BY <1>4, StoreUntouched DEF NativeStart
<1>6. RestOK'
  BY <1>1 DEF NativeStart, RestOK, Answer, Count, Replies
<1>7. CallInv'
  BY <1>1, <1>3 DEF CallInv
<1>8. FlowInv'
  BY <1>1, <1>2 DEF NativeStart, FlowInv, RestOK
<1>9. NativeOncePerCommand'
  BY <1>1, <1>2 DEF NativeStart, NativeOncePerCommand, Count, RestOK
<1> QED  BY <1>5, <1>6, <1>7, <1>8, <1>9, InvFromParts

\* Reading the account changes nothing there.
LEMMA NativeReadInv ==
  ASSUME IInv, NEW reply \in {account, "error"}, NativeRead(reply)
  PROVE  IInv'
<1> USE InvParts
<1>1. call'.kind = call.kind /\ call'.cmd = call.cmd /\ call'.op = call.op
      /\ call'.reply = reply /\ reply # "waiting"
  BY DEF NativeRead, Answer, RestOK, Accounts
<1>2. StoreInv'
  BY <1>1, QuietStep, StoreUntouched DEF NativeRead
<1>3. RestOK'
  BY DEF NativeRead, RestOK, Answer, Replies, nativeVars
<1>4. CallInv' /\ FlowInv' /\ NativeOncePerCommand'
  BY <1>1 DEF NativeRead, CallInv, FlowInv, NativeOncePerCommand, nativeVars
<1> QED  BY <1>2, <1>3, <1>4, InvFromParts

\* A cancel ends at most the flow it names.
LEMMA NativeCancelInv ==
  ASSUME IInv, NEW reply \in {"canceled", "notFound", "error"},
         NEW notified \in BOOLEAN, NativeCancel(reply, notified)
  PROVE  IInv'
<1> USE InvParts
<1>1. call.kind = "cancel" /\ call.reply = "waiting" /\ call.cmd \in Commands
      /\ call.op \in Commands /\ calls[call.cmd] = 0
  BY DEF NativeCancel, Asked, CallInv
<1>2. call'.kind = "cancel" /\ call'.cmd = call.cmd /\ call'.op = call.op
      /\ call'.reply = reply
  BY <1>1 DEF NativeCancel, Answer, RestOK
<1>3. Used' \subseteq Used /\ Completed \subseteq Completed'
  BY <1>1, <1>2 DEF NativeCancel, Used, Completed, Count, RestOK
<1>4. StoreInv'
  BY <1>3, StoreUntouched DEF NativeCancel
<1>5. RestOK'
  BY <1>1 DEF NativeCancel, RestOK, Answer, Count, Replies
<1>6. CallInv'
  BY <1>1, <1>2 DEF CallInv
<1>7. FlowInv'
  BY <1>1 DEF NativeCancel, FlowInv, RestOK
<1>8. NativeOncePerCommand'
  BY <1>1 DEF NativeCancel, NativeOncePerCommand, Count, RestOK
<1> QED  BY <1>4, <1>5, <1>6, <1>7, <1>8, InvFromParts

\* A logout is asked for once, like the other calls.
LEMMA NativeLogoutInv ==
  ASSUME IInv, NEW works \in BOOLEAN, NativeLogout(works)
  PROVE  IInv'
<1> USE InvParts
<1>1. call.kind = "logout" /\ call.reply = "waiting" /\ call.cmd \in Commands
      /\ calls[call.cmd] = 0
  BY DEF NativeLogout, Asked, CallInv
<1>2. call'.kind = "logout" /\ call'.cmd = call.cmd /\ call'.reply = "out"
  BY <1>1 DEF NativeLogout, Answer, RestOK
<1>3. Used' \subseteq Used /\ Completed \subseteq Completed'
  BY <1>1, <1>2 DEF NativeLogout, Used, Completed, Count, RestOK
<1>4. StoreInv'
  BY <1>3, StoreUntouched DEF NativeLogout
<1>5. RestOK'
  BY <1>1 DEF NativeLogout, RestOK, Answer, Count, Replies, Accounts
<1>6. CallInv' /\ FlowInv'
  BY <1>1, <1>2 DEF NativeLogout, CallInv, FlowInv
<1>7. NativeOncePerCommand'
  BY <1>1 DEF NativeLogout, NativeOncePerCommand, Count, RestOK
<1> QED  BY <1>4, <1>5, <1>6, <1>7, InvFromParts

\* A flow that is open is not the one a start is still waiting for.
LEMMA UserDecidesInv ==
  ASSUME IInv, NEW o \in Commands, NEW accepts \in BOOLEAN,
         UserDecides(o, accepts)
  PROVE  IInv'
<1> USE InvParts
<1>1. Used' \subseteq Used /\ Completed \subseteq Completed'
  BY DEF UserDecides, Used, Completed, RestOK
<1>2. StoreInv'
  BY <1>1, StoreUntouched DEF UserDecides
<1>3. RestOK'
  BY DEF UserDecides, RestOK, Accounts
<1>4. CallInv' /\ FlowInv' /\ NativeOncePerCommand'
  BY DEF UserDecides, CallInv, FlowInv, NativeOncePerCommand, RestOK
<1> QED  BY <1>2, <1>3, <1>4, InvFromParts

\* A flow that lapses completes nothing.
LEMMA FlowLapsesInv ==
  ASSUME IInv, NEW o \in Commands, FlowLapses(o)
  PROVE  IInv'
<1> USE InvParts
<1>1. Used' \subseteq Used /\ Completed \subseteq Completed'
  BY DEF FlowLapses, Used, Completed, RestOK
<1>2. StoreInv'
  BY <1>1, StoreUntouched DEF FlowLapses
<1>3. RestOK'
  BY DEF FlowLapses, RestOK
<1>4. CallInv' /\ FlowInv' /\ NativeOncePerCommand'
  BY DEF FlowLapses, CallInv, FlowInv, NativeOncePerCommand, RestOK
<1> QED  BY <1>2, <1>3, <1>4, InvFromParts

\* The read of completeProviderLogin finds what the App Server has.
LEMMA NativeReadBackInv ==
  ASSUME IInv, NEW o \in Commands, NEW reply \in {account, "error"},
         NativeReadBack(o, reply)
  PROVE  IInv'
<1> USE InvParts
<1>1. StoreInv'
  BY QuietStep, StoreUntouched DEF NativeReadBack
<1>2. RestOK'
  BY DEF NativeReadBack, RestOK, nativeVars
<1>3. FlowInv'
  BY DEF NativeReadBack, FlowInv, RestOK, nativeVars
<1>4. CallInv' /\ NativeOncePerCommand'
  BY DEF NativeReadBack, CallInv, NativeOncePerCommand, nativeVars
<1> QED  BY <1>1, <1>2, <1>3, <1>4, InvFromParts

\* The handler is done; what it leaves of the call is nothing.
LEMMA CallDone ==
  ASSUME RestOK, call' = NoCall, UNCHANGED <<overdue, nativeVars>>,
         NativeOncePerCommand
  PROVE  /\ CallInv' /\ NativeOncePerCommand'
         /\ call' \in [kind : {"idle", "start", "check", "cancel", "logout"},
                       cmd : Commands \cup {NoOp}, op : Commands \cup {NoOp},
                       reply : Replies]
         /\ Used' \subseteq Used /\ Completed' = Completed
<1>1. Used' \subseteq Used /\ Completed' = Completed
  BY QuietStep DEF NoCall
<1> QED
  BY <1>1 DEF CallInv, NativeOncePerCommand, NoCall, nativeVars, Replies

\* A start records its flow, or what the stash already knows of it.
LEMMA StartReturnsInv ==
  ASSUME IInv, NEW outcome \in Outcomes, StartReturns(outcome)
  PROVE  IInv'
<1> USE InvParts
<1>1. /\ CallInv' /\ NativeOncePerCommand'
      /\ call' \in [kind : {"idle", "start", "check", "cancel", "logout"},
                    cmd : Commands \cup {NoOp}, op : Commands \cup {NoOp},
                    reply : Replies]
      /\ Used' \subseteq Used /\ Completed' = Completed
  BY CallDone DEF StartReturns
<1>2. call.op \in Commands
  BY DEF StartReturns, Answered, CallInv
<1>3. StoreInv'
  <2>1. CASE UNCHANGED storeVars
    BY <1>1, <2>1, StoreUntouched
  <2>2. ASSUME NEW s \in Honest(Used, Completed), Record(s, outcome)
        PROVE  StoreInv'
    BY <1>1, <2>2, RecordHonest, StoreFromWrite DEF StoreInv
  <2>3. mem \in Honest(Used, Completed)
    BY DEF StoreInv
  <2>4. Finished(mem, call.op, "failed") \in Honest(Used, Completed)
    BY <1>2, <2>3, HonestFinished DEF Terminal
  <2>5. [mem EXCEPT !.login[call.op] = TRUE] \in Honest(Used, Completed)
    BY <1>2, <2>3 DEF Honest, States, Terminal
  <2>6. \/ UNCHANGED storeVars
        \/ Record(Finished(mem, call.op, "failed"), outcome)
        \/ Record(mem, outcome)
        \/ Record([mem EXCEPT !.login[call.op] = TRUE], outcome)
    BY DEF StartReturns
  <2> QED  BY <2>1, <2>2, <2>3, <2>4, <2>5, <2>6
<1>4. stash' = stash \/ stash' = [stash EXCEPT ![call.op] = "none"]
  BY DEF StartReturns
<1>5. completion' = completion
      \/ (stash[call.op] # "none"
          /\ completion' = [completion EXCEPT ![call.op] = stash[call.op]])
  BY DEF StartReturns
<1>6. RestOK'
  BY <1>1, <1>2, <1>4, <1>5 DEF StartReturns, RestOK, nativeVars
<1>7. FlowInv'
  BY <1>2, <1>4, <1>5 DEF StartReturns, FlowInv, RestOK, nativeVars
<1> QED  BY <1>1, <1>3, <1>6, <1>7, InvFromParts

\* A handler that records an honest state, and is done.
LEMMA RecordingHandlerInv ==
  ASSUME IInv, NEW outcome \in Outcomes, NEW s \in Honest(Used, Completed),
         Record(s, outcome), call' = NoCall,
         UNCHANGED <<completion, stash, overdue, nativeVars>>
  PROVE  IInv'
<1> USE InvParts
<1>1. /\ CallInv' /\ NativeOncePerCommand'
      /\ call' \in [kind : {"idle", "start", "check", "cancel", "logout"},
                    cmd : Commands \cup {NoOp}, op : Commands \cup {NoOp},
                    reply : Replies]
      /\ Used' \subseteq Used /\ Completed' = Completed
  BY CallDone
<1>2. StoreInv'
  BY <1>1, RecordHonest, StoreFromWrite DEF StoreInv
<1>3. RestOK' /\ FlowInv'
  BY <1>1 DEF RestOK, FlowInv, nativeVars
<1> QED  BY <1>1, <1>2, <1>3, InvFromParts

\* A check records the account it read.
LEMMA CheckReturnsInv ==
  ASSUME IInv, NEW outcome \in Outcomes, CheckReturns(outcome)
  PROVE  IInv'
BY InvParts, HonestRead, RecordingHandlerInv DEF CheckReturns, StoreInv

\* A logout records the account that was read after it.
LEMMA LogoutReturnsInv ==
  ASSUME IInv, NEW outcome \in Outcomes, LogoutReturns(outcome)
  PROVE  IInv'
BY InvParts, HonestRead, RecordingHandlerInv DEF LogoutReturns, StoreInv

\* A cancel ends the operation only if it is still the pending one.
LEMMA CancelReturnsInv ==
  ASSUME IInv, NEW outcome \in Outcomes, CancelReturns(outcome)
  PROVE  IInv'
<1> USE InvParts
<1>1. call.op \in Commands /\ mem \in Honest(Used, Completed)
  BY DEF CancelReturns, Answered, CallInv, StoreInv
<1>2. Finished(mem, call.op, IF call.reply = "canceled" THEN "cancelled"
                             ELSE "failed") \in Honest(Used, Completed)
  BY <1>1, HonestFinished DEF Terminal
<1> QED
  BY <1>1, <1>2, RecordingHandlerInv DEF CancelReturns

\* completeProviderLogin before the read: only a pending operation fails.
LEMMA CompleteLoginInv ==
  ASSUME IInv, NEW o \in Commands, NEW first \in Outcomes,
         NEW second \in Outcomes, CompleteLogin(o, first, second)
  PROVE  IInv'
<1> USE InvParts
<1>1. UNCHANGED <<call, overdue, nativeVars>>
  BY DEF CompleteLogin
<1>2. Used' \subseteq Used /\ Completed' = Completed
  BY <1>1, QuietStep
<1>3. mem \in Honest(Used, Completed)
  BY DEF StoreInv
<1>4. \/ UNCHANGED storeVars
      \/ RecordOrBlock(Finished(mem, o, "failed"), o, first, second)
  BY DEF CompleteLogin
<1>5. StoreInv'
  <2>1. CASE UNCHANGED storeVars
    BY <1>2, <2>1, StoreUntouched
  <2>2. CASE RecordOrBlock(Finished(mem, o, "failed"), o, first, second)
    <3>1. Finished(mem, o, "failed") \in Honest(Used, Completed)
      BY <1>3, HonestFinished DEF Terminal
    <3> QED
      BY <1>2, <2>2, <3>1, RecordOrBlockHonest, StoreFromWrite DEF StoreInv
  <2> QED  BY <1>4, <2>1, <2>2
<1>6. /\ completion' = [completion EXCEPT ![o] = "idle"]
         \/ (completion[o] = "success"
             /\ completion' = [completion EXCEPT ![o] = "reading"])
      /\ stash' = stash \/ stash' = [stash EXCEPT ![o] = completion[o]]
      /\ completion[o] \in {"success", "failure"}
  BY DEF CompleteLogin, Done
<1>7. RestOK'
  BY <1>1, <1>6 DEF RestOK, nativeVars
<1>8. FlowInv'
  BY <1>1, <1>6 DEF FlowInv, RestOK, nativeVars
<1>9. CallInv' /\ NativeOncePerCommand'
  BY <1>1 DEF CallInv, NativeOncePerCommand, nativeVars
<1> QED  BY <1>5, <1>7, <1>8, <1>9, InvFromParts

\* And after it: the flow whose account was read is a completed one.
LEMMA LoginReadInv ==
  ASSUME IInv, NEW o \in Commands, NEW first \in Outcomes,
         NEW second \in Outcomes, LoginRead(o, first, second)
  PROVE  IInv'
<1> USE InvParts
<1> DEFINE reply == completion[o]
           proved == IF reply = "chatgpt" THEN [mem EXCEPT !.managed = TRUE]
                     ELSE mem
           read == ReadOrUnknown(proved, reply)
           next == IF ~IsPending(mem, o) THEN read
                   ELSE Finished(read, o, IF reply = "chatgpt" THEN "succeeded"
                                          ELSE "failed")
<1>1. UNCHANGED <<call, stash, overdue, nativeVars>>
      /\ completion' = [completion EXCEPT ![o] = "idle"]
  BY DEF LoginRead, Done
<1>2. Used' \subseteq Used /\ Completed' = Completed
  BY <1>1, QuietStep
<1>3. o \in Completed
  BY DEF LoginRead, FlowInv, Completed, Accounts
<1>4. proved \in Honest(Used, Completed)
  BY <1>3 DEF StoreInv, Honest, States
<1>5. read \in Honest(Used, Completed)
  <2> HIDE DEF proved
  <2> QED  BY <1>4, HonestRead
<1>6. next \in Honest(Used, Completed)
  <2> HIDE DEF read
  <2> QED  BY <1>3, <1>5, HonestFinished DEF Terminal
<1>7. UNCHANGED storeVars \/ RecordOrBlock(next, o, first, second)
  BY DEF LoginRead
<1>8. StoreInv'
  <2> HIDE DEF next
  <2> QED
    BY <1>2, <1>6, <1>7, RecordOrBlockHonest, StoreFromWrite, StoreUntouched
    DEF StoreInv
<1>9. RestOK' /\ FlowInv' /\ CallInv' /\ NativeOncePerCommand'
  BY <1>1 DEF RestOK, FlowInv, CallInv, NativeOncePerCommand, nativeVars
<1> QED  BY <1>8, <1>9, InvFromParts

\* The deadline passes: no record changes.
LEMMA TimePassesInv ==
  ASSUME IInv, TimePasses
  PROVE  IInv'
<1> USE InvParts
<1>1. StoreInv'
  BY QuietStep, StoreUntouched DEF TimePasses
<1> QED
  BY <1>1, InvFromParts
  DEF TimePasses, RestOK, FlowInv, CallInv, NativeOncePerCommand, nativeVars

\* Expiry fails the pending operation and claims nothing.
LEMMA ExpireInv ==
  ASSUME IInv, NEW first \in Outcomes, NEW second \in Outcomes,
         Expire(first, second)
  PROVE  IInv'
<1> USE InvParts
<1>1. mem \in Honest(Used, Completed) /\ mem.op \in Commands
  BY DEF Expire, Expiring, Pending, StoreInv, Honest, States
<1>2. Finished(mem, mem.op, "expired") \in Honest(Used, Completed)
  BY <1>1, HonestFinished DEF Terminal
<1>3. Used' \subseteq Used /\ Completed' = Completed
  BY QuietStep DEF Expire
<1>4. StoreInv'
  BY <1>1, <1>2, <1>3, RecordOrBlockHonest, StoreFromWrite DEF Expire, StoreInv
<1> QED
  BY <1>4, InvFromParts
  DEF Expire, RestOK, FlowInv, CallInv, NativeOncePerCommand, nativeVars

\* Every state the file may come back with is honest, and a flow that dies with
\* the App Server was not completed.
LEMMA RestartInv ==
  ASSUME IInv, NEW s \in durable, NEW powerLost \in BOOLEAN,
         NEW reply \in {account, "error"}, Restart(s, powerLost, reply)
  PROVE  IInv'
<1> USE InvParts
<1>1. ReadOrUnknown(Recovered(s), reply) \in Honest(Used, Completed)
  BY HonestRecovered, HonestRead DEF StoreInv
<1>2. Used' \subseteq Used /\ Completed \subseteq Completed'
  <2>1. NoOp \notin Commands
    BY LoginAssumption DEF NoOp
  <2> QED  BY <2>1 DEF Restart, Used, Completed, NoCall, RestOK
<1>3. StoreInv'
  BY <1>1, <1>2, StoreFromWrite DEF Restart
<1>4. RestOK'
  BY DEF Restart, RestOK, NoCall, Replies
<1>5. CallInv' /\ FlowInv' /\ NativeOncePerCommand'
  BY DEF Restart, CallInv, FlowInv, NativeOncePerCommand, NoCall
<1> QED  BY <1>3, <1>4, <1>5, InvFromParts

-----------------------------------------------------------------------------
\* Theorems.

\* A step that changes nothing.
LEMMA StutterInv ==
  ASSUME IInv, UNCHANGED vars
  PROVE  IInv'
BY DEF vars, IInv, TypeOK, StoreInv, CallInv, FlowInv, NativeOncePerCommand,
       Used, Completed

\* One step per action of the login manager.
LEMMA NextInv ==
  ASSUME IInv, Next
  PROVE  IInv'
<1>1. CASE Handler
  <2>1. ASSUME NEW c \in Commands, NEW outcome \in Outcomes, Check(c, outcome)
        PROVE  IInv'
    BY <2>1, BeginInv DEF Check
  <2>2. ASSUME NEW c \in Commands, NEW outcome \in Outcomes,
               CancelAuth(c, outcome)
        PROVE  IInv'
    <3>1. mem.op \in Commands
      BY <2>2 DEF CancelAuth, Pending, IInv, TypeOK, States
    <3> QED  BY <2>2, <3>1, BeginInv DEF CancelAuth
  <2>3. ASSUME NEW c \in Commands, NEW outcome \in Outcomes, Logout(c, outcome)
        PROVE  IInv'
    BY <2>3, BeginInv DEF Logout
  <2> QED  BY <1>1, <2>1, <2>2, <2>3, StartAuthInv DEF Handler
<1>2. CASE HandlerReturns
  BY <1>2, StartReturnsInv, CheckReturnsInv, CancelReturnsInv, LogoutReturnsInv
  DEF HandlerReturns
<1>3. CASE AppServer
  BY <1>3, NativeStartInv, NativeReadInv, NativeCancelInv, NativeLogoutInv,
     NativeReadBackInv DEF AppServer
<1>4. CASE User
  BY <1>4, UserDecidesInv, FlowLapsesInv DEF User
<1>5. CASE Completion
  BY <1>5, CompleteLoginInv, LoginReadInv DEF Completion
<1>6. CASE TimePasses
  BY <1>6, TimePassesInv
<1>7. CASE Expiry
  BY <1>7, ExpireInv DEF Expiry
<1>8. CASE Reboot
  BY <1>8, RestartInv DEF Reboot
<1> QED  BY <1>1, <1>2, <1>3, <1>4, <1>5, <1>6, <1>7, <1>8 DEF Next

\* The invariant holds of the login manager in every state it can reach.
THEOREM LoginInvariance == Spec => []IInv
BY InitInv, NextInv, StutterInv, PTL DEF Spec

\* The record and the calls keep their types (providerAuthState).
THEOREM LoginTypeCorrect == Spec => []TypeOK
<1>1. IInv => TypeOK
  BY DEF IInv
<1> QED  BY <1>1, LoginInvariance, PTL

\* A node takes itself for logged in only by a device-code flow of its own that
\* a user completed (completeProviderLogin, applyAccountReadLocked), in memory
\* and in every state the file may come back with.
THEOREM AuthorizationEarned == Spec => []AuthorizationIsEarned
<1>1. IInv => AuthorizationIsEarned
  BY DEF IInv, StoreInv, Honest, AuthorizationIsEarned, Completed
<1> QED  BY <1>1, LoginInvariance, PTL

\* A command changes the App Server at most once, whatever is lost, repeated or
\* restarted (storeAuthReceiptLocked before every native request).
THEOREM NativeOnce == Spec => []NativeOncePerCommand
<1>1. IInv => NativeOncePerCommand
  BY DEF IInv
<1> QED  BY <1>1, LoginInvariance, PTL

-----------------------------------------------------------------------------
\* What an operation that has ended may still become.

\* Only the current operation is pending, and every operation has its receipt.
Accounted(s) ==
  /\ s.op # NoOp => s.op \in s.receipts
  /\ \A o \in Commands : /\ s.status[o] = "pending" => s.op = o
                         /\ s.status[o] # "none" => o \in s.receipts

\* A record that may come back differs from memory only in operations that
\* failed here or were still pending there.
StatusInv ==
  /\ \A s \in durable \cup {mem} : Accounted(s)
  /\ \A s \in durable, o \in Commands :
       mem.status[o] # "failed" => s.status[o] \in {mem.status[o], "pending"}

\* The status of an ended operation after the step (NotRevived).
StatusKept ==
  \A o \in Commands :
    mem.status[o] \in Terminal /\ mem'.status[o] # mem.status[o] =>
      \/ mem'.status[o] = "failed"
      \/ mem.status[o] = "failed" /\ \E s \in durable : mem'.status[o] = s.status[o]

\* The records a handler may write: an operation changes only by being ended.
Successors ==
  {s \in States :
     /\ s.op = mem.op /\ mem.receipts \subseteq s.receipts
     /\ \A o \in Commands : \/ s.status[o] = mem.status[o]
                            \/ mem.status[o] = "pending" /\ s.status[o] \in Terminal}

\* Ending the pending operation.
LEMMA FinishedSucceeds ==
  ASSUME TypeOK, NEW s \in Successors, NEW o \in Commands,
         NEW status \in Terminal, IsPending(mem, o)
  PROVE  Finished(s, o, status) \in Successors
BY DEF TypeOK, States, Successors, Finished, IsPending, Terminal

\* Recording the account changes no operation.
LEMMA ReadSucceeds ==
  ASSUME NEW s \in Successors, NEW reply
  PROVE  ReadOrUnknown(s, reply) \in Successors
BY DEF States, Successors, ReadOrUnknown, AccountRead

\* A record keeps its receipts, and ends operations that have theirs.
LEMMA SuccessorAccounted ==
  ASSUME NEW s \in Successors, Accounted(mem)
  PROVE  Accounted(s)
<1>1. s.op = mem.op /\ mem.receipts \subseteq s.receipts
  BY DEF Successors
<1>2. ASSUME NEW o \in Commands
      PROVE  \/ s.status[o] = mem.status[o]
             \/ mem.status[o] = "pending" /\ s.status[o] \in Terminal
  BY DEF Successors
<1> QED  BY <1>1, <1>2 DEF Accounted, Terminal

\* The record that blocks the login, in the place of the one not written.
LEMMA BlockedStatus ==
  ASSUME NEW s \in States, NEW o \in Commands
  PROVE  LET b == [s EXCEPT !.state = "unknown", !.status[o] = "failed"] IN
         /\ b.op = s.op /\ b.receipts = s.receipts /\ b.status[o] = "failed"
         /\ \A p \in Commands : p # o => b.status[p] = s.status[p]
BY DEF States, Terminal

\* A record of a handler is written, or the file keeps what it may have held.
LEMMA RecordStatus ==
  ASSUME TypeOK, StatusInv, NEW s \in Successors, NEW outcome \in Outcomes,
         Record(s, outcome)
  PROVE  StatusInv' /\ StatusKept
<1>1. mem' = s /\ durable' \subseteq durable \cup {s}
  BY DEF Record, Persist, Kept, Outcomes
<1>2. ASSUME NEW o \in Commands
      PROVE  \/ s.status[o] = mem.status[o]
             \/ mem.status[o] = "pending" /\ s.status[o] \in Terminal
  BY DEF Successors
<1>4. Accounted(s)
  BY SuccessorAccounted DEF StatusInv
<1>5. ASSUME NEW t \in durable, NEW o \in Commands, s.status[o] # "failed"
      PROVE  t.status[o] \in {s.status[o], "pending"}
  <2>1. mem.status[o] # "failed" => t.status[o] \in {mem.status[o], "pending"}
    BY DEF StatusInv
  <2> QED  BY <1>2, <1>5, <2>1 DEF Terminal
<1>6. StatusInv'
  BY <1>1, <1>4, <1>5 DEF StatusInv
<1>7. StatusKept
  BY <1>1, <1>2 DEF StatusKept, Terminal
<1> QED  BY <1>6, <1>7

\* The same for persistProviderAuthOrBlockLocked.
LEMMA RecordOrBlockStatus ==
  ASSUME TypeOK, StatusInv, NEW s \in Successors, NEW o \in Commands,
         o \in mem.receipts,
         NEW first \in Outcomes, NEW second \in Outcomes,
         RecordOrBlock(s, o, first, second)
  PROVE  StatusInv' /\ StatusKept
<1>1. CASE first = "ok"
  BY <1>1, RecordStatus DEF RecordOrBlock, Outcomes
<1>2. CASE first # "ok"
  <2> DEFINE b == [s EXCEPT !.state = "unknown", !.status[o] = "failed"]
  <2>1. mem' = b /\ durable' \subseteq durable \cup {s, b}
    BY <1>2 DEF RecordOrBlock, Kept, Outcomes
  <2>2. /\ b.op = s.op /\ b.receipts = s.receipts /\ b.status[o] = "failed"
        /\ \A p \in Commands : p # o => b.status[p] = s.status[p]
    BY BlockedStatus DEF Successors
  <2> HIDE DEF b
  <2>3. ASSUME NEW p \in Commands
        PROVE  \/ s.status[p] = mem.status[p]
               \/ mem.status[p] = "pending" /\ s.status[p] \in Terminal
    BY DEF Successors
  <2>4. Accounted(s)
    BY SuccessorAccounted DEF StatusInv
  <2>5. o \in s.receipts
    BY DEF Successors
  <2>6. Accounted(b)
    BY <2>2, <2>4, <2>5 DEF Accounted
  <2>7. ASSUME NEW t \in durable \cup {s, b}, NEW p \in Commands,
               b.status[p] # "failed"
        PROVE  t.status[p] \in {b.status[p], "pending"}
    <3>1. p # o /\ b.status[p] = s.status[p]
      BY <2>2, <2>7
    <3>2. t \in durable /\ mem.status[p] # "failed"
          => t.status[p] \in {mem.status[p], "pending"}
      BY DEF StatusInv
    <3> QED  BY <2>3, <2>7, <3>1, <3>2 DEF Terminal
  <2>8. StatusInv'
    BY <2>1, <2>4, <2>6, <2>7 DEF StatusInv
  <2>9. StatusKept
    BY <2>1, <2>2, <2>3 DEF StatusKept, Terminal
  <2> QED  BY <2>8, <2>9
<1> QED  BY <1>1, <1>2

\* A step that leaves the record alone.
LEMMA StatusUntouched ==
  ASSUME StatusInv, UNCHANGED storeVars
  PROVE  StatusInv' /\ StatusKept
BY DEF StatusInv, StatusKept, storeVars

\* A command starts an operation only while it has no receipt.
LEMMA StartAuthStatus ==
  ASSUME TypeOK, StatusInv, NEW c \in Commands, NEW outcome \in Outcomes,
         StartAuth(c, outcome)
  PROVE  StatusInv' /\ StatusKept
<1> DEFINE next == [Receipted(c) EXCEPT !.op = c, !.status[c] = "pending"]
           lost == [next EXCEPT !.status[c] = "failed", !.state = "unknown"]
<1>1. mem.status[c] = "none" /\ \A o \in Commands : mem.status[o] # "pending"
  <2>1. c \notin mem.receipts /\ ~Pending(mem)
    BY DEF StartAuth, Admissible
  <2>2. NoOp \notin Commands
    BY LoginAssumption DEF NoOp
  <2> QED  BY <2>1, <2>2 DEF StatusInv, Accounted, Pending
<1>2. /\ next.op = c /\ next.status[c] = "pending"
      /\ next.receipts = mem.receipts \cup {c}
      /\ \A o \in Commands : o # c => next.status[o] = mem.status[o]
  BY DEF TypeOK, States, Receipted
<1>3. /\ lost.op = c /\ lost.status[c] = "failed" /\ lost.receipts = mem.receipts \cup {c}
      /\ \A o \in Commands : o # c => lost.status[o] = mem.status[o]
  BY DEF TypeOK, States, Receipted
<1>4. /\ durable' = Kept(next, outcome, durable)
      /\ mem' = CASE outcome = "ok"     -> next
                  [] outcome = "failed" -> mem
                  [] OTHER              -> lost
  BY DEF StartAuth, Persist
<1> HIDE DEF next, lost
<1>5. Accounted(next) /\ Accounted(lost)
  BY <1>1, <1>2, <1>3 DEF Accounted, StatusInv
<1>6. CASE outcome = "ok"
  <2>1. mem' = next /\ durable' = {next}
    BY <1>4, <1>6 DEF Kept
  <2>2. StatusInv'
    BY <1>5, <2>1 DEF StatusInv
  <2>3. StatusKept
    BY <1>1, <1>2, <2>1 DEF StatusKept, Terminal
  <2> QED  BY <2>2, <2>3
<1>7. CASE outcome = "failed"
  <2>1. mem' = mem /\ durable' = durable
    BY <1>4, <1>7 DEF Kept
  <2> QED  BY <2>1 DEF StatusInv, StatusKept
<1>8. CASE outcome = "indeterminate"
  <2>1. mem' = lost /\ durable' = durable \cup {next}
    BY <1>4, <1>8 DEF Kept
  <2>2. ASSUME NEW t \in durable \cup {next}, NEW o \in Commands,
               lost.status[o] # "failed"
        PROVE  t.status[o] \in {lost.status[o], "pending"}
    <3>1. o # c
      BY <1>3, <2>2
    <3>2. t \in durable /\ mem.status[o] # "failed"
          => t.status[o] \in {mem.status[o], "pending"}
      BY DEF StatusInv
    <3> QED  BY <1>2, <1>3, <2>2, <3>1, <3>2
  <2>3. StatusInv'
    BY <1>5, <2>1, <2>2 DEF StatusInv
  <2>4. StatusKept
    BY <1>1, <1>3, <2>1 DEF StatusKept, Terminal
  <2> QED  BY <2>3, <2>4
<1> QED  BY <1>6, <1>7, <1>8 DEF Outcomes

\* A start that comes back finds the operation pending, or leaves it alone.
LEMMA StartReturnsStatus ==
  ASSUME TypeOK, CallInv, StatusInv, NEW outcome \in Outcomes,
         StartReturns(outcome)
  PROVE  StatusInv' /\ StatusKept
<1>1. call.op \in Commands
  BY DEF StartReturns, Answered, CallInv
<1>2. mem \in Successors
  BY DEF TypeOK, Successors
<1>3. CASE UNCHANGED storeVars
  BY <1>3, StatusUntouched
<1>4. CASE ~UNCHANGED storeVars
  <2>1. IsPending(mem, call.op)
    BY <1>4 DEF StartReturns
  <2>2. Finished(mem, call.op, "failed") \in Successors
    BY <1>1, <1>2, <2>1, FinishedSucceeds DEF Terminal
  <2>3. [mem EXCEPT !.login[call.op] = TRUE] \in Successors
    BY <1>1 DEF TypeOK, States, Successors
  <2>4. \/ Record(Finished(mem, call.op, "failed"), outcome)
        \/ Record(mem, outcome)
        \/ Record([mem EXCEPT !.login[call.op] = TRUE], outcome)
    BY <1>4 DEF StartReturns
  <2> QED  BY <1>2, <2>2, <2>3, <2>4, RecordStatus
<1> QED  BY <1>3, <1>4

\* A cancel that comes back ends the operation only while it is pending.
LEMMA CancelReturnsStatus ==
  ASSUME TypeOK, CallInv, StatusInv, NEW outcome \in Outcomes,
         CancelReturns(outcome)
  PROVE  StatusInv' /\ StatusKept
<1> DEFINE status == IF call.reply = "canceled" THEN "cancelled" ELSE "failed"
<1>1. call.op \in Commands /\ status \in Terminal
  BY DEF CancelReturns, Answered, CallInv, Terminal
<1>2. mem \in Successors
  BY DEF TypeOK, Successors
<1>3. Record(IF ~IsPending(mem, call.op) THEN mem
             ELSE Finished(mem, call.op, status), outcome)
  BY DEF CancelReturns
<1> HIDE DEF status
<1> QED
  BY <1>1, <1>2, <1>3, FinishedSucceeds, RecordStatus

\* A completion fails only the pending operation, and knows of no other.
LEMMA CompleteLoginStatus ==
  ASSUME TypeOK, StatusInv, NEW o \in Commands, NEW first \in Outcomes,
         NEW second \in Outcomes, CompleteLogin(o, first, second)
  PROVE  StatusInv' /\ StatusKept
<1>1. CASE UNCHANGED storeVars
  BY <1>1, StatusUntouched
<1>2. CASE ~UNCHANGED storeVars
  <2>1. /\ IsPending(mem, o)
        /\ RecordOrBlock(Finished(mem, o, "failed"), o, first, second)
    BY <1>2 DEF CompleteLogin
  <2>2. Finished(mem, o, "failed") \in Successors
    BY <2>1, FinishedSucceeds DEF TypeOK, Successors, Terminal
  <2>3. o \in mem.receipts
    BY <2>1 DEF IsPending, StatusInv, Accounted
  <2> QED  BY <2>1, <2>2, <2>3, RecordOrBlockStatus
<1> QED  BY <1>1, <1>2

\* The account that was read counts; the operation changes only if it is pending.
LEMMA LoginReadStatus ==
  ASSUME TypeOK, StatusInv, NEW o \in Commands, NEW first \in Outcomes,
         NEW second \in Outcomes, LoginRead(o, first, second)
  PROVE  StatusInv' /\ StatusKept
<1> DEFINE reply == completion[o]
           proved == IF reply = "chatgpt" THEN [mem EXCEPT !.managed = TRUE]
                     ELSE mem
           read == ReadOrUnknown(proved, reply)
           next == IF ~IsPending(mem, o) THEN read
                   ELSE Finished(read, o, IF reply = "chatgpt" THEN "succeeded"
                                          ELSE "failed")
<1>1. CASE UNCHANGED storeVars
  BY <1>1, StatusUntouched
<1>2. CASE ~UNCHANGED storeVars
  <2>1. mem.op = o /\ mem.login[o] /\ RecordOrBlock(next, o, first, second)
    BY <1>2 DEF LoginRead
  <2>2. o \in mem.receipts
    <3>1. NoOp \notin Commands
      BY LoginAssumption DEF NoOp
    <3> QED  BY <2>1, <3>1 DEF StatusInv, Accounted
  <2>3. proved \in Successors
    BY DEF TypeOK, States, Successors
  <2>4. read \in Successors
    <3> HIDE DEF proved
    <3> QED  BY <2>3, ReadSucceeds
  <2>5. next \in Successors
    <3> HIDE DEF read
    <3> QED  BY <2>4, FinishedSucceeds DEF Terminal
  <2> HIDE DEF next
  <2> QED  BY <2>1, <2>2, <2>5, RecordOrBlockStatus
<1> QED  BY <1>1, <1>2

\* The deadline ends the pending operation.
LEMMA ExpireStatus ==
  ASSUME TypeOK, StatusInv, NEW first \in Outcomes, NEW second \in Outcomes,
         Expire(first, second)
  PROVE  StatusInv' /\ StatusKept
<1>1. mem.op \in Commands /\ IsPending(mem, mem.op)
  BY DEF Expire, Expiring, Pending, IsPending, TypeOK, States
<1>2. Finished(mem, mem.op, "expired") \in Successors
  BY <1>1, FinishedSucceeds DEF TypeOK, Successors, Terminal
<1>3. mem.op \in mem.receipts
  BY <1>1 DEF IsPending, StatusInv, Accounted
<1> QED  BY <1>1, <1>2, <1>3, RecordOrBlockStatus DEF Expire

\* A restart finds what memory had, what it had failed to write, or an operation
\* that was pending, and fails the last (initializeProviderAuth).
LEMMA RestartStatus ==
  ASSUME TypeOK, StatusInv, NEW s \in durable, NEW powerLost \in BOOLEAN,
         NEW reply \in {account, "error"}, Restart(s, powerLost, reply)
  PROVE  StatusInv' /\ StatusKept
<1> DEFINE r == Recovered(s)
<1>1. s \in States /\ Accounted(s)
  BY DEF TypeOK, StatusInv
<1>2. /\ r \in States /\ r.op = s.op /\ r.receipts = s.receipts
      /\ \A o \in Commands :
           r.status[o] = IF s.status[o] = "pending" THEN "failed" ELSE s.status[o]
  <2>1. NoOp \notin Commands
    BY LoginAssumption DEF NoOp
  <2>2. CASE Pending(s)
    <3>1. r = [s EXCEPT !.status[s.op] = "failed"] /\ s.op \in Commands
      BY <1>1, <2>2 DEF Recovered, Pending, States
    <3>2. s.status[s.op] = "pending"
      BY <2>2 DEF Pending
    <3>3. r \in States /\ r.op = s.op /\ r.receipts = s.receipts
      BY <1>1, <3>1 DEF States, Terminal
    <3>4. \A o \in Commands :
            r.status[o] = IF o = s.op THEN "failed" ELSE s.status[o]
      BY <1>1, <3>1 DEF States
    <3> HIDE DEF r
    <3> QED  BY <1>1, <3>2, <3>3, <3>4 DEF Accounted
  <2>3. CASE ~Pending(s)
    <3>1. r = s
      BY <2>3 DEF Recovered
    <3> HIDE DEF r
    <3> QED  BY <1>1, <2>1, <2>3, <3>1 DEF Accounted, Pending
  <2> QED  BY <2>2, <2>3
<1> HIDE DEF r
<1>3. /\ mem'.op = s.op /\ mem'.receipts = s.receipts /\ mem'.status = r.status
      /\ durable' = {mem'}
  <2>1. mem' = ReadOrUnknown(r, reply) /\ durable' = {mem'}
    BY DEF Restart, r
  <2> QED  BY <1>2, <2>1 DEF ReadOrUnknown, AccountRead, States
<1>4. Accounted(mem)'
  BY <1>1, <1>2, <1>3 DEF Accounted
<1>5. StatusInv'
  BY <1>3, <1>4 DEF StatusInv, Accounted
<1>6. StatusKept
  BY <1>2, <1>3 DEF StatusKept, StatusInv, Terminal
<1> QED  BY <1>5, <1>6

\* One step per action that writes the record.
LEMMA NextStatus ==
  ASSUME IInv, StatusInv, Next
  PROVE  StatusInv' /\ StatusKept
<1>1. TypeOK /\ CallInv
  BY DEF IInv
<1>2. mem \in Successors
  BY <1>1 DEF TypeOK, Successors
<1>3. CASE Handler
  <2>1. PICK c \in Commands, outcome \in Outcomes :
          \/ StartAuth(c, outcome)
          \/ Record(Receipted(c), outcome)
    BY <1>3 DEF Handler, Check, CancelAuth, Logout, Begin
  <2>2. Receipted(c) \in Successors
    BY <1>1 DEF TypeOK, States, Successors, Receipted
  <2> QED  BY <1>1, <2>1, <2>2, StartAuthStatus, RecordStatus
<1>4. CASE HandlerReturns
  <2>1. PICK outcome \in Outcomes :
          \/ StartReturns(outcome) \/ CancelReturns(outcome)
          \/ Record(ReadOrUnknown(mem, call.reply), outcome)
    BY <1>4 DEF HandlerReturns, CheckReturns, LogoutReturns
  <2>2. ReadOrUnknown(mem, call.reply) \in Successors
    BY <1>2, ReadSucceeds
  <2> QED  BY <1>1, <2>1, <2>2, StartReturnsStatus, CancelReturnsStatus, RecordStatus
<1>5. CASE AppServer \/ User \/ TimePasses
  <2>1. UNCHANGED storeVars
    BY <1>5 DEF AppServer, User, TimePasses, NativeStart, NativeRead, NativeCancel,
                NativeLogout, NativeReadBack, UserDecides, FlowLapses
  <2> QED  BY <2>1, StatusUntouched
<1>6. CASE Completion
  BY <1>1, <1>6, CompleteLoginStatus, LoginReadStatus DEF Completion
<1>7. CASE Expiry
  BY <1>1, <1>7, ExpireStatus DEF Expiry
<1>8. CASE Reboot
  BY <1>1, <1>8, RestartStatus DEF Reboot
<1> QED  BY <1>3, <1>4, <1>5, <1>6, <1>7, <1>8 DEF Next

\* Every record that may come back agrees with memory on what has ended, or has
\* it pending, or memory has it failed (persistProviderAuthLocked).
THEOREM StatusInvariance == Spec => []StatusInv
<1>1. Init => StatusInv
  BY DEF Init, StatusInv, Accounted, NewState, ReadOrUnknown, AccountRead
<1>2. StatusInv /\ UNCHANGED vars => StatusInv'
  BY DEF StatusInv, vars
<1>3. IInv /\ StatusInv /\ [Next]_vars => StatusInv'
  BY <1>2, NextStatus
<1> QED  BY <1>1, <1>3, LoginInvariance, PTL DEF Spec

\* An operation that has ended keeps its status or fails, whatever answers and
\* completions come late; only a restart that finds an older record departs
\* from that, and only from a failure (completeProviderLogin, CancelAuth,
\* persistProviderAuthOrBlockLocked).
THEOREM EndedNotRevived == Spec => NotRevived
<1>1. IInv /\ StatusInv /\ [Next]_vars =>
      [\A o \in Commands :
         mem.status[o] \in Terminal /\ mem'.status[o] # mem.status[o] =>
           \/ mem'.status[o] = "failed"
           \/ mem.status[o] = "failed" /\ \E s \in durable : mem'.status[o] = s.status[o]
      ]_vars
  BY NextStatus DEF StatusKept
<1> QED  BY <1>1, LoginInvariance, StatusInvariance, PTL DEF Spec, NotRevived
=============================================================================
