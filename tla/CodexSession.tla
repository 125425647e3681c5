---------------------------- MODULE CodexSession ----------------------------
(***************************************************************************)
(* One native app-server process and the session the Codex adapter keeps   *)
(* with it (adapters/codex/bridge.go and session.go): calls and their      *)
(* replies, requests of the process and their answers, the handshake that  *)
(* makes a session ready, and the three ways it ends - the process exits,  *)
(* the adapter closes it, the handshake fails.                             *)
(*                                                                         *)
(* The goroutines are the reader of the process's output, one per call,    *)
(* one per answer, the starter (startNativeSession) and the closer         *)
(* (Session.Close followed by Wait). A step ends where the code takes or   *)
(* releases bridge.mu, bridge.writeMu or session.mu, or uses a channel.    *)
(***************************************************************************)
EXTENDS Integers, Sequences, FiniteSets, SequencesExt

CONSTANTS
  Initialize,   \* the call of the handshake
  Interrupts,   \* calls of turn/interrupt, whose hook cancels the tools
  Others,       \* any other calls
  Requests,     \* ids of the requests the process may send
  NoOne         \* no holder of a lock

\* What the constants have to be; the modules that put this one to work assume it.
SessionAssumption ==
  /\ Interrupts \cap Others = {} /\ Initialize \notin Interrupts \cup Others
  /\ ({Initialize} \cup Interrupts \cup Others) \cap Requests = {}
  /\ NoOne \notin {Initialize} \cup Interrupts \cup Others \cup Requests

Calls == {Initialize} \cup Interrupts \cup Others

VARIABLES
  child,      \* the app-server process runs
  reaped,     \* Cmd.Wait returned and bridge.wait was filled
  wire,       \* what was written to the process: ids of calls and of answered requests
  writer,     \* the call or request that holds writeMu
  call,       \* where a call stands
  result,     \* what a call returned
  reply,      \* the buffer of a call's response channel
  pending,    \* bridge.pending
  inbound,    \* bridge.inbound
  asked,      \* requests the process sent
  open,       \* requests that were handed to the adapter's handler
  answering,  \* how many answers to a request consumed its id and are not written yet
  reader,     \* where the reader goroutine stands
  done,       \* bridge.done is closed
  shut,       \* where bridge.shutdown stands, who runs it, the channels it must fail
  cancelled,  \* the interrupt's hook ran: the tools of the attempt are cancelled
  starter,    \* where startNativeSession stands
  closer,     \* where Close and Wait stand
  session,    \* the flags of the session
  published   \* how often handlers.Exit was called

bridgeVars == <<writer, wire, pending, inbound, done, shut>>
callVars == <<call, result, reply>>
requestVars == <<asked, open, answering>>
endVars == <<child, reaped, reader>>
sessionVars == <<starter, closer, session, published>>
vars == <<child, reaped, wire, writer, call, result, reply, pending, inbound, asked, open,
          answering, reader, done, shut, cancelled, starter, closer, session, published>>

Reading == [at |-> "read", id |-> NoOne]
At(step, id) == [at |-> step, id |-> id]

Init ==
  /\ child = TRUE /\ reaped = FALSE /\ wire = <<>> /\ writer = NoOne
  /\ call = [c \in Calls |-> "idle"] /\ result = [c \in Calls |-> "none"]
  /\ reply = [c \in Calls |-> <<>>]
  /\ pending = {} /\ inbound = {} /\ asked = {} /\ open = {}
  /\ answering = [r \in Requests |-> 0]
  /\ reader = Reading /\ done = FALSE
  /\ shut = [step |-> "no", by |-> "none", left |-> {}]
  /\ cancelled = FALSE /\ starter = "initialize" /\ closer = "no"
  /\ session = [bridge |-> FALSE, ready |-> FALSE, closing |-> FALSE, exited |-> FALSE]
  /\ published = 0

(* availableBridge and beginCallback. *)
Available == session.ready /\ ~session.closing /\ ~session.exited

-----------------------------------------------------------------------------
(* A call. *)

(* Call and CallAfterWrite look at the session before they use its bridge. *)
BeginCall(c) ==
  /\ c # Initialize /\ call[c] = "idle" /\ starter = "ready"
  /\ IF Available THEN /\ call' = [call EXCEPT ![c] = "admitted"]
                       /\ UNCHANGED result
                  ELSE /\ call' = [call EXCEPT ![c] = "returned"]
                       /\ result' = [result EXCEPT ![c] = "closed"]
  /\ UNCHANGED <<bridgeVars, reply, requestVars, endVars, cancelled, sessionVars>>

(* The response channel is registered under bridge.mu, unless it is done. *)
Register(c) ==
  /\ call[c] = "admitted"
  /\ IF done THEN /\ call' = [call EXCEPT ![c] = "returned"]
                  /\ result' = [result EXCEPT ![c] = "closed"]
                  /\ UNCHANGED pending
             ELSE /\ call' = [call EXCEPT ![c] = "registered"]
                  /\ pending' = pending \cup {c}
                  /\ UNCHANGED result
  /\ UNCHANGED <<wire, writer, inbound, done, shut, reply, requestVars, endVars, cancelled,
                 sessionVars>>

Ends(c, how) ==
  /\ call' = [call EXCEPT ![c] = "returned"]
  /\ result' = [result EXCEPT ![c] = how]
  /\ pending' = pending \ {c}

(* writeAfter finds the bridge done: the frame is not written. *)
NotWritten(c) ==
  /\ call[c] = "registered" /\ done
  /\ Ends(c, "lost")
  /\ UNCHANGED <<wire, writer, inbound, done, shut, reply, requestVars, endVars, cancelled,
                 sessionVars>>

CheckedDone(c) ==
  /\ call[c] = "registered" /\ ~done
  /\ call' = [call EXCEPT ![c] = "writing"]
  /\ UNCHANGED <<bridgeVars, result, reply, requestVars, endVars, cancelled, sessionVars>>

(* stdin.Write under writeMu; it fails once stdin is closed or the process ended. *)
Written(c) == IF child /\ ~done THEN [wire |-> Append(wire, c), at |-> "written"]
                                ELSE [wire |-> wire, at |-> "unwritten"]

WriteCall(c) ==
  /\ call[c] = "writing" /\ writer = NoOne
  /\ writer' = c
  /\ wire' = Written(c).wire
  /\ call' = [call EXCEPT ![c] = Written(c).at]
  /\ UNCHANGED <<pending, inbound, done, shut, result, reply, requestVars, endVars, cancelled,
                 sessionVars>>

\* Mutant of Unlock: the hook is not run under the lock.
UnlockBeforeHook(c) ==
  /\ call[c] \in {"written", "unwritten"} /\ writer = c
  /\ writer' = NoOne /\ UNCHANGED cancelled

(* The hook runs while writeMu is held, whether the write succeeded or not. *)
Unlock(c) ==
  /\ call[c] \in {"written", "unwritten"} /\ writer = c
  /\ writer' = NoOne
  /\ cancelled' = (cancelled \/ c \in Interrupts)

AfterWrite(c) ==
  /\ Unlock(c)
  /\ IF call[c] = "written" THEN /\ call' = [call EXCEPT ![c] = "waiting"]
                                 /\ UNCHANGED <<result, pending>>
                            ELSE Ends(c, "lost")
  /\ UNCHANGED <<wire, inbound, done, shut, reply, requestVars, endVars, sessionVars>>

(* The select of callAfterWrite. *)
TakeReply(c) ==
  /\ call[c] = "waiting" /\ reply[c] # <<>>
  /\ call' = [call EXCEPT ![c] = "returned"]
  /\ result' = [result EXCEPT ![c] = Head(reply[c])]
  /\ reply' = [reply EXCEPT ![c] = <<>>]
  /\ UNCHANGED <<bridgeVars, requestVars, endVars, cancelled, sessionVars>>

GiveUp(c) ==
  /\ call[c] = "waiting"
  /\ \/ Ends(c, "context")
     \/ done /\ Ends(c, "closed")
  /\ UNCHANGED <<wire, writer, inbound, done, shut, reply, requestVars, endVars, cancelled,
                 sessionVars>>

-----------------------------------------------------------------------------
(* The reader: bridge.read and bridge.route. *)

(* route deletes the entry under bridge.mu before it sends to its channel. *)
Routed(c) == pending \ {c}

RouteReply(c) ==
  /\ child /\ reader = Reading /\ Contains(wire, c)
  /\ c \in pending
  /\ pending' = Routed(c)
  /\ reader' = At("deliver", c)
  /\ UNCHANGED <<wire, writer, inbound, done, shut, callVars, requestVars, child, reaped,
                 cancelled, sessionVars>>

Deliver ==
  /\ reader.at = "deliver" /\ reply[reader.id] = <<>>
  /\ reply' = [reply EXCEPT ![reader.id] = <<"reply">>]
  /\ reader' = Reading
  /\ UNCHANGED <<bridgeVars, call, result, requestVars, child, reaped, cancelled, sessionVars>>

(* A request of the process; a second one under a pending id ends the session. *)
RouteRequest(r) ==
  /\ child /\ reader = Reading
  /\ r \notin asked \/ r \in inbound
  /\ asked' = asked \cup {r}
  /\ IF r \in inbound THEN /\ reader' = At("failed", NoOne)
                           /\ UNCHANGED inbound
                      ELSE /\ reader' = At("request", r)
                           /\ inbound' = inbound \cup {r}
  /\ UNCHANGED <<wire, writer, pending, done, shut, callVars, open, answering, child, reaped,
                 cancelled, sessionVars>>

(* session.handleRequest: handed to the adapter, or rejected before ready and after Close. *)
HandleRequest ==
  /\ reader.at = "request"
  /\ LET r == reader.id
     IN \/ /\ Available
           /\ open' = open \cup {r} /\ reader' = Reading
           /\ UNCHANGED <<inbound, answering>>
        \/ /\ ~Available /\ session.bridge /\ r \in inbound
           /\ inbound' = inbound \ {r} /\ answering' = [answering EXCEPT ![r] = @ + 1]
           /\ reader' = At("reject", r)
           /\ UNCHANGED open
        \/ /\ ~Available /\ ~(session.bridge /\ r \in inbound)
           /\ reader' = Reading
           /\ UNCHANGED <<inbound, open, answering>>
  /\ UNCHANGED <<wire, writer, pending, done, shut, callVars, asked, child, reaped, cancelled,
                 sessionVars>>

(* serverRequest/resolved: the process no longer wants an answer. *)
ResolveInbound(r) ==
  /\ child /\ reader = Reading /\ Available /\ r \in inbound
  /\ inbound' = inbound \ {r}
  /\ UNCHANGED <<wire, writer, pending, done, shut, callVars, requestVars, endVars, cancelled,
                 sessionVars>>

(* respond and reject take the id out of inbound before they write. *)
Consumed(r) == inbound \ {r}

Respond(r) ==
  /\ r \in open /\ Available /\ r \in inbound /\ answering[r] < 2
  /\ inbound' = Consumed(r)
  /\ answering' = [answering EXCEPT ![r] = @ + 1]
  /\ UNCHANGED <<wire, writer, pending, done, shut, callVars, asked, open, endVars, cancelled,
                 sessionVars>>

(* The answer's frame; a write that fails is not tried again. *)
WriteAnswer(r) ==
  /\ answering[r] > 0 /\ writer = NoOne
  /\ wire' = Written(r).wire
  /\ answering' = [answering EXCEPT ![r] = @ - 1]
  /\ reader' = IF reader = At("reject", r) THEN Reading ELSE reader
  /\ UNCHANGED <<writer, pending, inbound, done, shut, callVars, asked, open, child, reaped,
                 cancelled, sessionVars>>

-----------------------------------------------------------------------------
(* The end of the bridge. *)

(* The process exits by itself, or is killed by another. *)
ChildExits ==
  /\ child /\ child' = FALSE
  /\ UNCHANGED <<bridgeVars, callVars, requestVars, reaped, reader, cancelled, sessionVars>>

(* read returns at the end of the output or with an error; an error kills the process. *)
ReadEnds ==
  /\ \/ ~child /\ reader = Reading
     \/ reader.at = "failed"
  /\ reader' = At("shutdown", NoOne)
  /\ child' = FALSE
  /\ UNCHANGED <<bridgeVars, callVars, requestVars, reaped, cancelled, sessionVars>>

(* shutdown runs once; whoever comes second waits for the first. *)
Shutdown(who) ==
  /\ \/ who = "reader" /\ reader.at = "shutdown"
     \/ who = "closer" /\ closer = "stop"
     \/ who = "starter" /\ starter = "stop"
  /\ shut.step = "no"
  /\ done' = TRUE
  /\ shut' = [step |-> "fail", by |-> who, left |-> pending]
  /\ pending' = {} /\ inbound' = {}
  /\ UNCHANGED <<wire, writer, callVars, requestVars, endVars, cancelled, sessionVars>>

FailPending ==
  /\ shut.step = "fail"
  /\ IF shut.left = {}
     THEN /\ shut' = [shut EXCEPT !.step = "exit"]
          /\ UNCHANGED reply
     ELSE \E c \in shut.left :
            /\ reply[c] = <<>>
            /\ reply' = [reply EXCEPT ![c] = <<"closed">>]
            /\ shut' = [shut EXCEPT !.left = @ \ {c}]
  /\ UNCHANGED <<writer, wire, pending, inbound, done, call, result, requestVars, endVars,
                 cancelled, sessionVars>>

(* session.handleExit decides under session.mu whether the exit is news. *)
HandleExit ==
  /\ shut.step = "exit"
  /\ shut' = [shut EXCEPT !.step = "over"]
  /\ session' = [session EXCEPT !.ready = FALSE, !.exited = TRUE]
  /\ published' = IF Available THEN published + 1 ELSE published
  /\ UNCHANGED <<writer, wire, pending, inbound, done, callVars, requestVars, endVars,
                 cancelled, starter, closer>>

(* The reader's goroutine ends: the process is reaped. *)
Reap ==
  /\ reader.at = "shutdown" /\ shut.step = "over"
  /\ reader' = At("ended", NoOne) /\ reaped' = TRUE
  /\ UNCHANGED <<bridgeVars, callVars, requestVars, child, cancelled, sessionVars>>

-----------------------------------------------------------------------------
(* startNativeSession. *)

Begin(c) == /\ call[c] = "idle" /\ call' = [call EXCEPT ![c] = "admitted"]

StartHandshake ==
  /\ starter = "initialize" /\ ~session.bridge
  /\ session' = [session EXCEPT !.bridge = TRUE]
  /\ Begin(Initialize)
  /\ starter' = "calling"
  /\ UNCHANGED <<bridgeVars, result, reply, requestVars, endVars, cancelled, closer, published>>

(* fail: the session is closing, and the bridge is stopped and waited for. *)
Fails ==
  /\ session' = [session EXCEPT !.closing = TRUE, !.ready = FALSE]
  /\ starter' = "stop"

(* initialize returned; its answer may be one the node does not accept. *)
Initialized ==
  /\ starter = "calling" /\ call[Initialize] = "returned"
  /\ \/ /\ result[Initialize] = "reply"
        /\ starter' = "notify" /\ UNCHANGED session
     \/ Fails
  /\ UNCHANGED <<bridgeVars, callVars, requestVars, endVars, cancelled, closer, published>>

(* "initialized" is written, then bridge.done is looked at. *)
Notify ==
  /\ starter = "notify" /\ writer = NoOne
  /\ IF child /\ ~done THEN starter' = "notified" /\ UNCHANGED session
                       ELSE Fails
  /\ UNCHANGED <<bridgeVars, callVars, requestVars, endVars, cancelled, closer, published>>

CheckDone ==
  /\ starter = "notified"
  /\ IF done THEN Fails ELSE starter' = "generation" /\ UNCHANGED session
  /\ UNCHANGED <<bridgeVars, callVars, requestVars, endVars, cancelled, closer, published>>

(* store.beginProcess, which may fail. *)
BeginProcess ==
  /\ starter = "generation"
  /\ \/ starter' = "publish" /\ UNCHANGED session
     \/ Fails
  /\ UNCHANGED <<bridgeVars, callVars, requestVars, endVars, cancelled, closer, published>>

MayBecomeReady == ~session.exited

BecomeReady ==
  /\ starter = "publish"
  /\ IF MayBecomeReady
     THEN starter' = "ready" /\ session' = [session EXCEPT !.ready = TRUE]
     ELSE Fails
  /\ UNCHANGED <<bridgeVars, callVars, requestVars, endVars, cancelled, closer, published>>

(* Close of the bridge and of the session: stop, then wait for the reader's goroutine. *)
StarterStops ==
  /\ \/ /\ starter = "stop" /\ shut.step = "over"
        /\ starter' = "wait" /\ child' = FALSE
     \/ /\ starter = "wait" /\ reaped
        /\ starter' = "failed" /\ UNCHANGED child
  /\ UNCHANGED <<bridgeVars, callVars, requestVars, reaped, reader, cancelled, closer, session,
                 published>>

(* session.Close: an exited session is not stopped again. *)
CloseSession ==
  /\ closer = "no" /\ starter = "ready"
  /\ session' = [session EXCEPT !.closing = TRUE, !.ready = FALSE]
  /\ closer' = IF session.exited THEN "wait" ELSE "stop"
  /\ UNCHANGED <<bridgeVars, callVars, requestVars, endVars, cancelled, starter, published>>

CloserStops ==
  /\ \/ /\ closer = "stop" /\ shut.step = "over"
        /\ closer' = "wait" /\ child' = FALSE
     \/ /\ closer = "wait" /\ reaped
        /\ closer' = "closed" /\ UNCHANGED child
  /\ UNCHANGED <<bridgeVars, callVars, requestVars, reaped, reader, cancelled, starter, session,
                 published>>

-----------------------------------------------------------------------------
CallSteps(c) ==
  Register(c) \/ NotWritten(c) \/ CheckedDone(c) \/ WriteCall(c) \/ AfterWrite(c) \/ TakeReply(c)

StarterSteps ==
  \/ StartHandshake \/ Initialized \/ Notify \/ CheckDone \/ BeginProcess \/ BecomeReady
  \/ StarterStops

ReaderSteps == Deliver \/ HandleRequest \/ ReadEnds \/ Reap \/ Shutdown("reader")

ShutdownSteps == FailPending \/ HandleExit

Next ==
  \/ \E c \in Calls : BeginCall(c) \/ CallSteps(c) \/ GiveUp(c) \/ RouteReply(c)
  \/ \E r \in Requests : RouteRequest(r) \/ ResolveInbound(r) \/ Respond(r) \/ WriteAnswer(r)
  \/ ReaderSteps \/ ShutdownSteps \/ StarterSteps \/ ChildExits
  \/ CloseSession \/ CloserStops \/ Shutdown("closer") \/ Shutdown("starter")

Spec == Init /\ [][Next]_vars

-----------------------------------------------------------------------------
TypeOK ==
  /\ child \in BOOLEAN /\ reaped \in BOOLEAN /\ done \in BOOLEAN /\ cancelled \in BOOLEAN
  /\ wire \in Seq(Calls \cup Requests) /\ writer \in Calls \cup {NoOne}
  /\ call \in [Calls -> {"idle", "admitted", "registered", "writing", "written", "unwritten",
                         "waiting", "returned"}]
  /\ result \in [Calls -> {"none", "reply", "context", "closed", "lost"}]
  /\ reply \in [Calls -> {<<>>, <<"reply">>, <<"closed">>}]
  /\ pending \subseteq Calls /\ inbound \subseteq Requests
  /\ asked \subseteq Requests /\ open \subseteq asked
  /\ answering \in [Requests -> 0..1]
  /\ reader \in [at : {"read", "deliver", "request", "reject", "failed", "shutdown", "ended"},
                 id : Calls \cup Requests \cup {NoOne}]
  /\ shut \in [step : {"no", "fail", "exit", "over"},
               by : {"none", "reader", "closer", "starter"}, left : SUBSET Calls]
  /\ starter \in {"initialize", "calling", "notify", "notified", "generation", "publish", "ready",
                  "stop", "wait", "failed"}
  /\ closer \in {"no", "stop", "wait", "closed"}
  /\ session \in [bridge : BOOLEAN, ready : BOOLEAN, closing : BOOLEAN, exited : BOOLEAN]
  /\ published \in 0..1

(* A send to a response channel never blocks the reader or shutdown: the channel holds one   *)
(* value, and at any time at most one of route and shutdown may still send to it - the entry *)
(* is in bridge.pending, in what shutdown took, or in the reader's hand, and its buffer is   *)
(* empty.                                                                                    *)
OneSenderPerCall ==
  LET hand == IF reader.at = "deliver" THEN {reader.id} ELSE {}
  IN /\ \A c \in pending \cup shut.left \cup hand : reply[c] = <<>>
     /\ pending \cap shut.left = {} /\ hand \cap (pending \cup shut.left) = {}

(* bridge.pending holds the calls that wait for an answer and nothing else: a call that      *)
(* returned - answered, expired, closed or unable to write - left no entry behind, and after *)
(* shutdown none can be registered.                                                          *)
PendingIsWaited ==
  /\ \A c \in pending : call[c] \in {"registered", "writing", "written", "unwritten", "waiting"}
  /\ done => pending = {}

(* The process sees at most one answer to a request, however respond, reject, the            *)
(* resolution of the request and the end of the session interleave.                          *)
AnsweredOnce ==
  \A r \in Requests : Cardinality({i \in 1..Len(wire) : wire[i] = r}) <= 1

(* No answer to a request follows turn/interrupt on the wire while the tools of the attempt  *)
(* are not cancelled (the comment of callAfterWrite).                                        *)
InterruptCancelsFirst ==
  [][\A r \in Requests, i \in Interrupts :
       (Contains(wire, i) /\ wire' = Append(wire, r)) => cancelled]_vars

(* A session that saw its process exit is not handed to the adapter as ready, and one that   *)
(* is closed stays closed.                                                                   *)
ReadyMeansNotExited ==
  /\ session.ready => ~session.exited /\ ~session.closing
  /\ starter = "ready" /\ ~session.ready => session.exited \/ session.closing

(* handlers.Exit, which fails the active attempts, is called at most once and never for a    *)
(* session the adapter is closing.                                                           *)
ExitIsNotClose == [][published' # published => published = 0 /\ closer = "no"]_vars

(* The channels and the requests of a session are sound, and so is its handshake.            *)
BridgeIsSound ==
  TypeOK /\ OneSenderPerCall /\ PendingIsWaited /\ AnsweredOnce /\ ReadyMeansNotExited

(* The session is sound: its bridge, its interrupt and its exit.                             *)
SessionIsSound == []BridgeIsSound /\ InterruptCancelsFirst /\ ExitIsNotClose

(* Nothing is left over: a session that was handed out ready and whose process ended was     *)
(* reported to the adapter, unless the adapter closes it; no call waits on a bridge that is  *)
(* done; Close, Wait and a failed start returned.                                            *)
NothingLeftOver ==
  /\ starter = "ready" /\ ~child => published = 1 \/ closer # "no"
  /\ done => \A c \in Calls : call[c] \in {"idle", "returned"}
  /\ closer \in {"no", "closed"} /\ starter \notin {"stop", "wait"}

=============================================================================
