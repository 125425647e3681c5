---------------------------- MODULE ProviderLogin ----------------------------
(***************************************************************************)
(* The login manager of the Codex adapter (adapters/codex/provider_auth.go)*)
(* with the native App Server behind it.                                   *)
(*                                                                         *)
(* Start, check, cancel and logout write a receipt, call the App Server    *)
(* without a lock, and record the answer; authBusy keeps them apart.  The  *)
(* notification that a login was completed is handled by a goroutine of    *)
(* its own, which reads the account and records it, at any time between.   *)
(* Deadlines are noticed by whoever looks next.                            *)
(*                                                                         *)
(* An operation is named by the command that started it.  The failure code *)
(* a receipt may carry, timestamps and revisions change replies only.      *)
(***************************************************************************)
EXTENDS Integers, FiniteSets

CONSTANTS
  Commands,        \* command ids
  StashCapacity    \* bound on authCompletions (4 in the code)

ASSUME LoginAssumption == StashCapacity \in Nat /\ "no operation" \notin Commands

VARIABLES
  mem,         \* adapter.auth
  disk,        \* provider-auth-v1.json as it is read now
  durable,     \* what the file may hold after a loss of power
  call,        \* the handler that is with the App Server (authBusy)
  completion,  \* the goroutine completeProviderLogin of a login
  stash,       \* authCompletions: logins completed before their id was known
  overdue,     \* the deadline of the pending operation has passed
  \* ---- the App Server ---------------------------------------------------
  account,     \* the account it is logged in to
  flow,        \* the device-code flow of an operation
  calls        \* how often it was asked to change something for a command

vars == <<mem, disk, durable, call, completion, stash, overdue, account, flow,
          calls>>

storeVars  == <<mem, disk, durable>>
nativeVars == <<account, flow, calls>>

NoOp     == "no operation"
Accounts == {"none", "chatgpt", "other"}
Replies  == Accounts \cup {"waiting", "error", "opened", "unanswered",
                           "unwritten", "invalid", "canceled", "notFound", "out"}
Terminal == {"succeeded", "failed", "cancelled", "expired"}

\* providerAuthState; receipts is the set of commands that have one.
States ==
  [state    : {"unknown", "unauthenticated", "authenticated",
               "reauthentication_required"},
   managed  : BOOLEAN,
   op       : Commands \cup {NoOp},
   status   : [Commands -> {"none", "pending"} \cup Terminal],
   login    : [Commands -> BOOLEAN],
   receipts : SUBSET Commands]

NoCall == [kind |-> "idle", cmd |-> NoOp, op |-> NoOp, reply |-> "waiting"]

TypeOK ==
  /\ mem \in States /\ disk \in States /\ durable \subseteq States
  /\ call \in [kind : {"idle", "start", "check", "cancel", "logout"},
               cmd : Commands \cup {NoOp}, op : Commands \cup {NoOp},
               reply : Replies]
  /\ completion \in [Commands -> {"idle", "success", "failure", "reading",
                                  "error"} \cup Accounts]
  /\ stash \in [Commands -> {"none", "success", "failure"}]
  /\ overdue \in BOOLEAN
  /\ account \in Accounts
  /\ flow \in [Commands -> {"none", "open", "completed", "closed"}]
  /\ calls \in [Commands -> Nat]

-----------------------------------------------------------------------------
\* The file and the record.

Outcomes == {"ok", "failed", "indeterminate"}

\* persistProviderAuthLocked of state s, from the file as it is and as it may be.
Written(s, outcome, old) == IF outcome = "failed" THEN old ELSE s
Kept(s, outcome, old) == CASE outcome = "ok"     -> {s}
                           [] outcome = "failed" -> old
                           [] OTHER              -> old \cup {s}

Persist(s, outcome) ==
  /\ disk' = Written(s, outcome, disk)
  /\ durable' = Kept(s, outcome, durable)

\* The record has changed to s whatever becomes of the file.
Record(s, outcome) == mem' = s /\ Persist(s, outcome)

\* persistProviderAuthOrBlockLocked: when the first write fails the operation
\* has failed and the login is unknown, and that is written, if possible.
RecordOrBlock(s, o, first, second) ==
  LET blocked == [s EXCEPT !.state = "unknown", !.status[o] = "failed"] IN
  IF first = "ok" THEN Record(s, "ok")
  ELSE /\ mem' = blocked
       /\ disk' = Written(blocked, second, Written(s, first, disk))
       /\ durable' = Kept(blocked, second, Kept(s, first, durable))

Pending(s) == s.op # NoOp /\ s.status[s.op] = "pending"
IsPending(s, o) == s.op = o /\ s.status[o] = "pending"

\* The handlers that call expireProviderAuthLocked first go on only when there
\* is nothing to expire; Expire is that part of them.
Expiring == Pending(mem) /\ overdue

\* applyAccountReadLocked.  (An absent account of a provider that asks for none
\* is treated like an account of another kind.)
AccountRead(s, reply) ==
  CASE reply = "chatgpt" -> [s EXCEPT !.state = IF s.managed THEN "authenticated"
                                                ELSE "unauthenticated"]
    [] reply = "other"   -> [s EXCEPT !.state = "reauthentication_required",
                                      !.managed = FALSE]
    [] OTHER             -> [s EXCEPT !.state = "unauthenticated",
                                      !.managed = FALSE]

ReadOrUnknown(s, reply) == IF reply = "error" THEN [s EXCEPT !.state = "unknown"]
                           ELSE AccountRead(s, reply)

\* initializeProviderAuth: nobody waits for a pending operation any more.
Recovered(s) == IF Pending(s) THEN [s EXCEPT !.status[s.op] = "failed"] ELSE s

NewState == [state |-> "unknown", managed |-> FALSE, op |-> NoOp,
             status |-> [c \in Commands |-> "none"],
             login |-> [c \in Commands |-> FALSE], receipts |-> {}]

\* A new state directory; the App Server may know an account already.
Init ==
  /\ account \in Accounts
  /\ \E reply \in {account, "error"} : mem = ReadOrUnknown(NewState, reply)
  /\ disk = mem /\ durable = {mem}
  /\ call = NoCall
  /\ completion = [c \in Commands |-> "idle"]
  /\ stash = [c \in Commands |-> "none"]
  /\ overdue = FALSE
  /\ flow = [c \in Commands |-> "none"]
  /\ calls = [c \in Commands |-> 0]

-----------------------------------------------------------------------------
\* The first half of a handler: the receipt, before the App Server is called.

Receipted(c) == [mem EXCEPT !.receipts = @ \cup {c}]
Calling(kind, c, o) == [kind |-> kind, cmd |-> c, op |-> o, reply |-> "waiting"]

\* A command with a receipt is answered from it and changes nothing.
Admissible(c) == call.kind = "idle" /\ c \notin mem.receipts

StartAuth(c, outcome) ==
  LET next == [Receipted(c) EXCEPT !.op = c, !.status[c] = "pending"] IN
  /\ ~Expiring /\ Admissible(c) /\ ~Pending(mem)
  /\ Persist(next, outcome)
  /\ mem' = CASE outcome = "ok"     -> next
              [] outcome = "failed" -> mem
              [] OTHER -> [next EXCEPT !.status[c] = "failed", !.state = "unknown"]
  /\ call' = IF outcome = "ok" THEN Calling("start", c, c) ELSE call
  /\ overdue' = FALSE
  /\ UNCHANGED <<completion, stash, nativeVars>>

\* Mutant of Begin: the receipt is to be written with the result.
BeginUnsaved(kind, c, o, outcome) ==
  /\ Admissible(c)
  /\ mem' = Receipted(c) /\ UNCHANGED <<disk, durable>>
  /\ call' = Calling(kind, c, o)
  /\ UNCHANGED <<completion, stash, overdue, nativeVars>>

\* The receipt of the others stays, marked as failed, when it is not written.
Begin(kind, c, o, outcome) ==
  /\ Admissible(c)
  /\ Record(Receipted(c), outcome)
  /\ call' = IF outcome = "ok" THEN Calling(kind, c, o) ELSE call
  /\ UNCHANGED <<completion, stash, overdue, nativeVars>>

Check(c, outcome) == ~Expiring /\ Begin("check", c, NoOp, outcome)

CancelAuth(c, outcome) ==
  Pending(mem) /\ mem.login[mem.op] /\ Begin("cancel", c, mem.op, outcome)

Logout(c, outcome) == ~Pending(mem) /\ Begin("logout", c, NoOp, outcome)

-----------------------------------------------------------------------------
\* The App Server.

Answer(reply) == call' = [call EXCEPT !.reply = reply]
Asked(kind) == call.kind = kind /\ call.reply = "waiting"
Count == calls' = [calls EXCEPT ![call.cmd] = @ + 1]

\* account/login/start.  An answer that is lost or malformed may still have
\* opened a flow, of which nobody has learnt the login id.
NativeStart(reply, opens) ==
  /\ Asked("start")
  /\ reply = "opened" => opens
  /\ reply = "unwritten" => ~opens
  /\ Answer(reply)
  /\ flow' = IF opens THEN [flow EXCEPT ![call.cmd] = "open"] ELSE flow
  /\ IF reply = "unwritten" THEN UNCHANGED calls ELSE Count
  /\ UNCHANGED <<storeVars, completion, stash, overdue, account>>

\* account/read: for a check, and again at the end of a logout.
NativeRead(reply) ==
  /\ Asked("check") \/ (call.kind = "logout" /\ call.reply = "out")
  /\ reply \in {account, "error"}
  /\ Answer(reply)
  /\ UNCHANGED <<storeVars, completion, stash, overdue, nativeVars>>

\* account/login/cancel; a flow that is canceled may still send a completion.
NativeCancel(reply, notified) ==
  /\ Asked("cancel")
  /\ reply = "canceled" => flow[call.op] = "open"
  /\ reply = "notFound" => flow[call.op] # "open"
  /\ Answer(reply)
  /\ flow' = IF reply = "canceled" THEN [flow EXCEPT ![call.op] = "closed"]
             ELSE flow
  /\ completion' = IF reply = "canceled" /\ notified
                   THEN [completion EXCEPT ![call.op] = "failure"]
                   ELSE completion
  /\ Count
  /\ UNCHANGED <<storeVars, stash, overdue, account>>

\* account/logout, whose own answer nobody looks at.
NativeLogout(works) ==
  /\ Asked("logout")
  /\ account' = IF works THEN "none" ELSE account
  /\ Answer("out")
  /\ Count
  /\ UNCHANGED <<storeVars, completion, stash, overdue, flow>>

\* The user enters the code, and the App Server notifies the adapter.
UserDecides(o, accepts) ==
  /\ flow[o] = "open"
  /\ flow' = [flow EXCEPT ![o] = IF accepts THEN "completed" ELSE "closed"]
  /\ account' = IF accepts THEN "chatgpt" ELSE account
  /\ completion' = [completion EXCEPT ![o] = IF accepts THEN "success"
                                             ELSE "failure"]
  /\ UNCHANGED <<storeVars, call, stash, overdue, calls>>

\* The provider, or the cancel that Expire leaves behind, ends a flow unheard.
FlowLapses(o) ==
  /\ flow[o] = "open"
  /\ flow' = [flow EXCEPT ![o] = "closed"]
  /\ UNCHANGED <<storeVars, call, completion, stash, overdue, account, calls>>

-----------------------------------------------------------------------------
\* The second half of a handler.

Answered(kind) == call.kind = kind /\ call.reply \notin {"waiting", "out"}
Finished(s, o, status) == [s EXCEPT !.status[o] = status]

StartReturns(outcome) ==
  LET c == call.op
      early == stash[c] # "none" IN
  /\ Answered("start")
  /\ call' = NoCall
  /\ IF ~IsPending(mem, c)
     THEN UNCHANGED <<storeVars, completion, stash>>
     ELSE CASE call.reply \in {"unwritten", "invalid"} ->
                 /\ Record(Finished(mem, c, "failed"), outcome)
                 /\ UNCHANGED <<completion, stash>>
            [] call.reply = "unanswered" ->
                 /\ Record(mem, outcome)
                 /\ UNCHANGED <<completion, stash>>
            [] OTHER ->  \* "opened"
                 /\ Record([mem EXCEPT !.login[c] = TRUE], outcome)
                 /\ stash' = [stash EXCEPT ![c] = "none"]
                 /\ completion' = IF early /\ outcome = "ok"
                                  THEN [completion EXCEPT ![c] = stash[c]]
                                  ELSE completion
  /\ UNCHANGED <<overdue, nativeVars>>

CheckReturns(outcome) ==
  /\ ~Expiring /\ Answered("check")
  /\ Record(ReadOrUnknown(mem, call.reply), outcome)
  /\ call' = NoCall
  /\ UNCHANGED <<completion, stash, overdue, nativeVars>>

\* Mutant of CancelReturns: the operation is not looked at again.
CancelReturnsLate(outcome) ==
  /\ Answered("cancel")
  /\ Record(Finished(mem, call.op, IF call.reply = "canceled"
                                   THEN "cancelled" ELSE "failed"), outcome)
  /\ call' = NoCall
  /\ UNCHANGED <<completion, stash, overdue, nativeVars>>

CancelReturns(outcome) ==
  /\ Answered("cancel")
  /\ Record(IF ~IsPending(mem, call.op) THEN mem
            ELSE Finished(mem, call.op, IF call.reply = "canceled"
                                        THEN "cancelled" ELSE "failed"),
            outcome)
  /\ call' = NoCall
  /\ UNCHANGED <<completion, stash, overdue, nativeVars>>

LogoutReturns(outcome) ==
  /\ Answered("logout")
  /\ Record(ReadOrUnknown(mem, call.reply), outcome)
  /\ call' = NoCall
  /\ UNCHANGED <<completion, stash, overdue, nativeVars>>

-----------------------------------------------------------------------------
\* completeProviderLogin, before and after it reads the account.

Stashed == {c \in Commands : stash[c] # "none"}
Done(o) == completion' = [completion EXCEPT ![o] = "idle"]

CompleteLogin(o, first, second) ==
  /\ ~Expiring /\ completion[o] \in {"success", "failure"}
  /\ CASE ~(mem.op = o /\ mem.login[o]) ->
            /\ Done(o)
            /\ stash' = IF /\ Pending(mem) /\ ~mem.login[mem.op]
                           /\ Cardinality(Stashed) < StashCapacity
                        THEN [stash EXCEPT ![o] = completion[o]] ELSE stash
            /\ UNCHANGED storeVars
       [] mem.op = o /\ mem.login[o] /\ completion[o] = "failure" ->
            /\ Done(o)
            /\ IF IsPending(mem, o)
               THEN RecordOrBlock(Finished(mem, o, "failed"), o, first, second)
               ELSE UNCHANGED storeVars
            /\ UNCHANGED stash
       [] OTHER ->
            /\ completion' = [completion EXCEPT ![o] = "reading"]
            /\ UNCHANGED <<storeVars, stash>>
  /\ UNCHANGED <<call, overdue, nativeVars>>

NativeReadBack(o, reply) ==
  /\ completion[o] = "reading"
  /\ reply \in {account, "error"}
  /\ completion' = [completion EXCEPT ![o] = reply]
  /\ UNCHANGED <<storeVars, call, stash, overdue, nativeVars>>

\* Mutant of LoginRead: the operation is not compared again after the read.
LoginReadUnfenced(o, first, second) ==
  LET reply == completion[o]
      proved == IF reply = "chatgpt" THEN [mem EXCEPT !.managed = TRUE] ELSE mem
      read == ReadOrUnknown(proved, reply)
      next == IF ~Pending(mem) THEN read
              ELSE Finished(read, mem.op, IF reply = "chatgpt" THEN "succeeded"
                                          ELSE "failed") IN
  /\ ~Expiring /\ reply \in Accounts \cup {"error"}
  /\ Done(o)
  /\ RecordOrBlock(next, mem.op, first, second)
  /\ UNCHANGED <<call, stash, overdue, nativeVars>>

\* An operation that ended in the meantime keeps its status, while the account
\* that was read counts all the same.
LoginRead(o, first, second) ==
  LET reply == completion[o]
      proved == IF reply = "chatgpt" THEN [mem EXCEPT !.managed = TRUE] ELSE mem
      read == ReadOrUnknown(proved, reply)
      next == IF ~IsPending(mem, o) THEN read
              ELSE Finished(read, o, IF reply = "chatgpt" THEN "succeeded"
                                     ELSE "failed") IN
  /\ ~Expiring /\ reply \in Accounts \cup {"error"}
  /\ Done(o)
  /\ IF mem.op = o /\ mem.login[o] THEN RecordOrBlock(next, o, first, second)
     ELSE UNCHANGED storeVars
  /\ UNCHANGED <<call, stash, overdue, nativeVars>>

-----------------------------------------------------------------------------
\* Time and crashes.

TimePasses ==
  /\ Pending(mem) /\ ~overdue
  /\ overdue' = TRUE
  /\ UNCHANGED <<storeVars, call, completion, stash, nativeVars>>

\* Mutant of Expire: only a login whose id is known is timed out.
ExpireKnown(first, second) ==
  /\ Expiring /\ mem.login[mem.op]
  /\ RecordOrBlock(Finished(mem, mem.op, "expired"), mem.op, first, second)
  /\ UNCHANGED <<call, completion, stash, overdue, nativeVars>>

\* expireProviderAuthLocked, by whichever handler or snapshot comes first.
Expire(first, second) ==
  /\ Expiring
  /\ RecordOrBlock(Finished(mem, mem.op, "expired"), mem.op, first, second)
  /\ UNCHANGED <<call, completion, stash, overdue, nativeVars>>

\* The process dies with its App Server and starts again; it does not start
\* when it cannot write its file.
Restart(s, powerLost, reply) ==
  /\ s \in durable /\ (powerLost \/ s = disk)
  /\ mem' = ReadOrUnknown(Recovered(s), reply)
  /\ disk' = mem' /\ durable' = {mem'}
  /\ call' = NoCall
  /\ completion' = [c \in Commands |-> "idle"]
  /\ stash' = [c \in Commands |-> "none"]
  /\ overdue' = FALSE
  /\ flow' = [c \in Commands |-> IF flow[c] = "open" THEN "closed" ELSE flow[c]]
  /\ UNCHANGED <<account, calls>>

-----------------------------------------------------------------------------

Handler ==
  \E c \in Commands, outcome \in Outcomes :
    \/ StartAuth(c, outcome)
    \/ Check(c, outcome)
    \/ CancelAuth(c, outcome)
    \/ Logout(c, outcome)

HandlerReturns ==
  \E outcome \in Outcomes :
    \/ StartReturns(outcome)
    \/ CheckReturns(outcome)
    \/ CancelReturns(outcome)
    \/ LogoutReturns(outcome)

AppServer ==
  \/ \E reply \in {"opened", "unanswered", "unwritten", "invalid"},
        opens \in BOOLEAN : NativeStart(reply, opens)
  \/ \E reply \in {account, "error"} : NativeRead(reply)
  \/ \E reply \in {"canceled", "notFound", "error"}, notified \in BOOLEAN :
       NativeCancel(reply, notified)
  \/ \E works \in BOOLEAN : NativeLogout(works)
  \/ \E o \in Commands : \E reply \in {account, "error"} : NativeReadBack(o, reply)

User ==
  \E o \in Commands :
    \/ \E accepts \in BOOLEAN : UserDecides(o, accepts)
    \/ FlowLapses(o)

Completion ==
  \E o \in Commands, first \in Outcomes, second \in Outcomes :
    \/ CompleteLogin(o, first, second)
    \/ LoginRead(o, first, second)

Expiry == \E first \in Outcomes, second \in Outcomes : Expire(first, second)

Reboot == \E s \in durable, powerLost \in BOOLEAN, reply \in {account, "error"} :
            Restart(s, powerLost, reply)

Next == Handler \/ HandlerReturns \/ AppServer \/ User \/ Completion
        \/ TimePasses \/ Expiry \/ Reboot

Spec == Init /\ [][Next]_vars

\* The clock moves on, and the executor takes a snapshot in every round.
FairSpec == Spec /\ WF_vars(TimePasses) /\ WF_vars(Expiry)

-----------------------------------------------------------------------------
\* Properties.

\* Whatever account the App Server knows, the node takes itself for logged in
\* only on the proof of a device-code flow it started and a user completed, in
\* memory and in every state the file may come back with; and an operation
\* succeeds only by its own flow.
AuthorizationIsEarned ==
  \A s \in durable \cup {mem, disk} :
    /\ s.state = "authenticated" => s.managed
    /\ s.managed => \E o \in Commands : flow[o] = "completed"
    /\ \A o \in Commands : s.status[o] = "succeeded" => flow[o] = "completed"

\* The receipt that precedes a native request keeps it from being repeated, by
\* any number of deliveries of the command, failed writes and restarts.
NativeOncePerCommand == \A c \in Commands : calls[c] <= 1

\* An operation that has ended is not revived or ended otherwise by a late
\* answer or completion: it keeps its status or, when the record cannot be
\* written, fails; only a restart that finds an older record departs from that.
NotRevived ==
  [][\A o \in Commands :
       mem.status[o] \in Terminal /\ mem'.status[o] # mem.status[o] =>
         \/ mem'.status[o] = "failed"
         \/ mem.status[o] = "failed" /\ \E s \in durable : mem'.status[o] = s.status[o]
     ]_vars

\* A login nobody completes does not stay pending, which would block dispatch,
\* settings changes and every further login.
PendingEnds == \A o \in Commands : IsPending(mem, o) ~> ~IsPending(mem, o)

\* What the documentation says of logout: with no account there is no
\* readiness.  The completion of an earlier login breaks it.
AuthenticatedHasAccount ==
  mem.state = "authenticated" /\ call.kind = "idle" => account = "chatgpt"
=============================================================================
