----------------------------- MODULE CodexTools -----------------------------
(***************************************************************************)
(* What the Codex adapter does while a turn runs: dynamic tools, operator  *)
(* approvals and questions, and the end of the turn                        *)
(* (adapters/codex/events.go; Steer, Cancel, RespondApproval, RespondInput *)
(* and Close of adapter.go).                                               *)
(*                                                                         *)
(* One attempt is modelled. The goroutine that reads the native process    *)
(* runs the handlers one after another; every answer of the operator runs  *)
(* on a goroutine of the node's, and every read command on one of its own. *)
(* A tool is an item of the native turn: item/tool/call asks the adapter   *)
(* to run it, item/completed reports what became of the adapter's answer.  *)
(***************************************************************************)
EXTENDS Integers, Sequences, FiniteSets

CONSTANTS
  Reads,                  \* items that are read commands, run without asking
  Writes,                 \* items an operator must approve
  Questions,              \* requests for input
  MaxRequests,            \* bound on the item/tool/call requests of one item
  MaximumToolCalls,       \* maximumToolCallsAttempt
  MaximumInteractions     \* maximumInteractionsTurn

Items == Reads \cup Writes
ToolRequests == Items \X (1..MaxRequests)   \* rpcID of item/tool/call, with its item
Asks == ToolRequests \cup Questions         \* requests an operator may be asked about

\* What the constants have to be; the modules that put this one to work assume it.
ToolsAssumption ==
  /\ MaxRequests \in Nat /\ MaximumToolCalls \in Nat /\ MaximumInteractions \in Nat
  /\ Reads \cap Writes = {} /\ ToolRequests \cap Questions = {}

VARIABLES
  tools,      \* native.tools
  inbound,    \* requests of the native process the session may still answer
  answered,   \* requests that were answered
  pending,    \* adapter.approvals and adapter.inputs
  results,    \* what was sent on pending.result
  call,       \* RespondApproval or RespondInput for a request
  allow,      \* requests whose decision was allow_once
  reading,    \* requests whose read command runs
  runs,       \* how often Runner.Run was given an item before tools were cancelled
  cancelled,  \* native.toolCtx is done
  outcome,    \* runtime.terminal
  waiting,    \* runtime.waiting
  observed,   \* executionObserved, turnStartedObserved or retryObserved
  finishing,  \* where finish stands, with what it collected
  up,         \* the session is not done
  exitOwed,   \* handleExit has not run
  over        \* the native turn ended

toolVars == <<tools, inbound, answered, reading, runs, cancelled>>
askVars  == <<pending, results, waiting>>
callVars == <<call, allow>>
turnVars == <<outcome, observed, finishing, up, exitOwed, over>>
vars == <<tools, inbound, answered, pending, results, call, allow, reading, runs, cancelled,
          outcome, waiting, observed, finishing, up, exitOwed, over>>

NoTool == [state |-> "none", byRequest |-> FALSE, request |-> <<>>, effect |-> "unset"]
NotFinishing == [step |-> "no", status |-> "none", ids |-> {}, unconfirmed |-> FALSE]

Init ==
  /\ tools = [i \in Items |-> NoTool]
  /\ inbound = {} /\ answered = {}
  /\ pending = [r \in Asks |-> "none"] /\ results = [r \in Asks |-> <<>>]
  /\ call = [r \in Asks |-> "none"] /\ allow = {}
  /\ reading = {} /\ runs = [i \in Items |-> 0] /\ cancelled = FALSE
  /\ outcome = "running" /\ waiting = 0 /\ observed = {}
  /\ finishing = NotFinishing
  /\ up = TRUE /\ exitOwed = FALSE /\ over = FALSE

-----------------------------------------------------------------------------
(* Shared steps *)

\* runtime.failUnknown.
FailUnknown == outcome' = IF outcome = "running" THEN "unknown" ELSE outcome
FailUnknownIf(condition) == outcome' = IF condition /\ outcome = "running" THEN "unknown" ELSE outcome

Open(r) == pending[r] \in {"asked", "responding", "resolved"}
OpenAsks == {r \in Asks : Open(r)}

\* resolvePendingApproval and resolvePendingInput for each of the ids, those that
\* were resolved meanwhile excepted.
Resolve(ids, applied) ==
  /\ pending' = [r \in DOMAIN pending |-> IF r \in ids /\ Open(r) THEN "gone" ELSE pending[r]]
  /\ results' = [r \in DOMAIN results |-> IF r \in ids /\ Open(r) THEN Append(results[r], applied) ELSE results[r]]
  /\ waiting' = waiting - Cardinality(ids \cap OpenAsks)

Responding(r) == pending[r] \in {"responding", "resolved"}

\* Mutant of Confirmed: any resolution confirms an answer.
ConfirmedByAnything == {r \in Asks : pending[r] = "resolved"}

\* A question that was answered is confirmed by the next activity of its turn.
Confirmed == {q \in Questions : pending[q] = "resolved"}

HasRoom == Cardinality(OpenAsks) < MaximumInteractions

\* setExpectedToolResponse succeeds once, on a tool that is not done.
MayExpect(i) == tools[i].state = "open" /\ tools[i].effect = "unset"

OpenTools == {i \in Items : tools[i].state = "open"}

\* session.Respond: consumes the request, and writes the answer while the session is up.
CanRespond(r) == up /\ r \in inbound

ReaderIdle == finishing.step = "no" /\ up

-----------------------------------------------------------------------------
(* Requests and notices of the native process *)

\* item/started of a dynamic tool.
ItemStarted(i) ==
  /\ ReaderIdle /\ ~over
  /\ observed' = observed \cup {"execution"}
  /\ Resolve(Confirmed, TRUE)
  /\ \/ /\ tools[i].state = "none"
        /\ tools' = [tools EXCEPT ![i].state = "open"]
        /\ UNCHANGED outcome
     \/ /\ tools[i].state = "open" /\ tools[i].byRequest
        /\ tools' = [tools EXCEPT ![i].byRequest = FALSE]
        /\ UNCHANGED outcome
     \/ /\ tools[i].state = "done" \/ (tools[i].state = "open" /\ ~tools[i].byRequest)
        /\ FailUnknown
        /\ UNCHANGED tools
  /\ UNCHANGED <<inbound, answered, reading, runs, cancelled, callVars, finishing, up, exitOwed, over>>

\* admitDynamicToolRequest and claimToolRequest: the item is known, not done and was
\* not asked for before.
Claims(i) == tools[i].state = "none" \/ (tools[i].state = "open" /\ tools[i].request = <<>>)

\* The tool is admitted and claimed by the request.
Claimed(i, r) ==
  [tools EXCEPT ![i].state = "open", ![i].request = r,
                ![i].byRequest = @ \/ tools[i].state = "none"]

\* item/tool/call for an item that was not asked for: a read command is run, a
\* write waits for an approval, and without room for either the tool fails.
ToolRequest(r) ==
  /\ ReaderIdle /\ ~over /\ r \notin inbound \cup answered /\ pending[r] = "none"
  /\ Claims(r[1])
  /\ observed' = observed \cup {"execution"}
  /\ \/ /\ r[1] \in Reads /\ Cardinality(reading) < MaximumToolCalls
        /\ tools' = Claimed(r[1], r)
        /\ inbound' = inbound \cup {r}
        /\ reading' = reading \cup {r}
        /\ runs' = [runs EXCEPT ![r[1]] = IF cancelled THEN @ ELSE @ + 1]
        /\ UNCHANGED <<answered, askVars, outcome>>
     \/ /\ r[1] \in Writes /\ HasRoom
        /\ tools' = Claimed(r[1], r)
        /\ inbound' = inbound \cup {r}
        /\ pending' = [pending EXCEPT ![r] = "asked"]
        /\ waiting' = waiting + 1
        /\ UNCHANGED <<answered, reading, runs, results, outcome>>
     \/ /\ IF r[1] \in Reads THEN Cardinality(reading) >= MaximumToolCalls ELSE ~HasRoom
        /\ tools' = [Claimed(r[1], r) EXCEPT ![r[1]].effect = "none"]
        /\ answered' = answered \cup {r}
        /\ UNCHANGED <<inbound, reading, runs, askVars, outcome>>
  /\ UNCHANGED <<cancelled, callVars, finishing, up, exitOwed, over>>

\* A second request for an item, or one for an item that is done: both requests are
\* answered as failed, tools are cancelled, approvals end and so does the attempt.
SecondRequest(r) ==
  /\ ReaderIdle /\ ~over /\ r \notin inbound \cup answered /\ pending[r] = "none"
  /\ ~Claims(r[1])
  /\ observed' = observed \cup {"execution"}
  /\ cancelled' = TRUE
  /\ answered' = answered \cup {r} \cup ({tools[r[1]].request} \cap inbound)
  /\ LET ids == {x \in ToolRequests : Open(x)}
     IN Resolve(ids, FALSE) /\ inbound' = inbound \ (ids \cup {tools[r[1]].request})
  /\ FailUnknown
  /\ UNCHANGED <<tools, reading, runs, callVars, finishing, up, exitOwed, over>>

\* handleInputRequest.
InputRequest(q) ==
  /\ ReaderIdle /\ ~over /\ q \notin inbound \cup answered /\ pending[q] = "none"
  /\ observed' = observed \cup {"execution"}
  /\ IF HasRoom
     THEN /\ inbound' = inbound \cup {q}
          /\ pending' = [pending EXCEPT ![q] = "asked"]
          /\ waiting' = waiting + 1
          /\ UNCHANGED <<answered, results, outcome>>
     ELSE /\ answered' = answered \cup {q}
          /\ FailUnknown
          /\ UNCHANGED <<inbound, askVars>>
  /\ UNCHANGED <<tools, reading, runs, cancelled, callVars, finishing, up, exitOwed, over>>

\* serverRequest/resolved: the native process no longer waits for an answer.
RequestResolved(r) ==
  /\ ReaderIdle /\ ~over /\ Open(r)
  /\ inbound' = inbound \ {r}
  /\ \/ /\ pending[r] = "asked"
        /\ pending' = [pending EXCEPT ![r] = "gone"]
        /\ waiting' = waiting - 1
        /\ results' = IF r \in Questions THEN [results EXCEPT ![r] = Append(@, FALSE)] ELSE results
        /\ UNCHANGED outcome
     \/ /\ pending[r] = "responding"
        /\ IF r \in ToolRequests /\ tools[r[1]].state = "done"
           THEN Resolve({r}, TRUE)
           ELSE pending' = [pending EXCEPT ![r] = "resolved"] /\ UNCHANGED <<results, waiting>>
        /\ UNCHANGED outcome
     \/ /\ pending[r] = "resolved" /\ r \in ToolRequests
        /\ FailUnknown
        /\ UNCHANGED askVars
  /\ UNCHANGED <<tools, answered, reading, runs, cancelled, callVars, observed, finishing, up, exitOwed, over>>

\* Mutant of Completes: an effect nobody knows ends the tool quietly.
CompletesUnknown(i) ==
  /\ tools' = [tools EXCEPT ![i].state = "done"]
  /\ Resolve(Confirmed \cup {r \in ToolRequests : r[1] = i /\ Responding(r)}, TRUE)
  /\ UNCHANGED outcome

\* item/completed that repeats the answer the adapter gave: the tool is done and
\* its approval applied. An effect nobody knows makes the attempt unknown.
Completes(i) ==
  /\ tools' = [tools EXCEPT ![i].state = "done"]
  /\ Resolve(Confirmed \cup {r \in ToolRequests : r[1] = i /\ Responding(r)}, TRUE)
  /\ FailUnknownIf(tools[i].effect = "unknown")

ItemCompleted(i) ==
  /\ ReaderIdle /\ ~over
  /\ observed' = observed \cup {"execution"}
  /\ LET r == tools[i].request
         matching == MayExpect(i) = FALSE /\ tools[i].state = "open" /\ r \in answered
     IN \/ /\ matching
           /\ Completes(i)
           /\ inbound' = inbound \ {x \in ToolRequests : x[1] = i}
        \/ /\ Resolve(Confirmed, TRUE)
           /\ FailUnknown
           /\ UNCHANGED <<tools, inbound>>
  /\ UNCHANGED <<answered, reading, runs, cancelled, callVars, finishing, up, exitOwed, over>>

\* A delta, a message, usage or any other activity of the turn.
Activity ==
  /\ ReaderIdle /\ ~over
  /\ observed' = observed \cup {"execution"}
  /\ Resolve(Confirmed, TRUE)
  /\ UNCHANGED <<toolVars, callVars, outcome, finishing, up, exitOwed, over>>

\* turn/started, or an error that will be retried.
Notice ==
  /\ ReaderIdle /\ ~over
  /\ \E note \in {"started", "retry"} : observed' = observed \cup {note}
  /\ UNCHANGED <<toolVars, askVars, callVars, outcome, finishing, up, exitOwed, over>>

\* A native shell, file or MCP item, which the adapter has disabled.
ForbiddenItem ==
  /\ ReaderIdle /\ ~over
  /\ observed' = observed \cup {"execution"}
  /\ Resolve(Confirmed, TRUE)
  /\ FailUnknown
  /\ UNCHANGED <<toolVars, callVars, finishing, up, exitOwed, over>>

-----------------------------------------------------------------------------
(* The end of the turn. finish collects the open questions, then the open  *)
(* approvals, under the adapter's lock, and resolves them without it.      *)

\* turn/completed, or an error without a retry; rejected is the one provider error
\* that may say that nothing was executed.
FinishBegins(status, ends) ==
  /\ ReaderIdle /\ ~over
  /\ cancelled' = TRUE
  /\ over' = ends
  /\ \/ UNCHANGED observed
     \/ observed' = observed \cup {"execution"}
  /\ LET ids == {q \in Questions : Open(q)}
     IN finishing' = [step |-> "questions", status |-> status, ids |-> ids,
                      unconfirmed |-> \E q \in ids : Responding(q)]
  /\ UNCHANGED <<tools, inbound, answered, reading, runs, askVars, callVars, outcome, up, exitOwed>>

FinishQuestions ==
  /\ finishing.step = "questions"
  /\ Resolve(finishing.ids, FALSE)
  /\ inbound' = inbound \ finishing.ids
  /\ LET ids == {r \in ToolRequests : Open(r)}
     IN finishing' = [finishing EXCEPT !.step = "approvals", !.ids = ids,
                        !.unconfirmed = @ \/ \E r \in ids : Responding(r)]
  /\ UNCHANGED <<tools, answered, reading, runs, cancelled, callVars, outcome, observed, up, exitOwed, over>>

\* The rest of finish. An attempt is unknown while an answer is unconfirmed or a
\* tool is open; nothing was executed only if the whole turn was seen and showed
\* no activity.
Finished ==
  IF finishing.unconfirmed \/ OpenTools # {} THEN "unknown"
  ELSE CASE finishing.status = "rejected" ->
              IF observed = {"started"} /\ \A i \in Items : tools[i].state = "none"
              THEN "failed_none" ELSE "failed_unknown"
         [] finishing.status = "failed"   -> "failed_unknown"
         [] OTHER -> finishing.status

FinishEnds ==
  /\ finishing.step = "approvals"
  /\ Resolve(finishing.ids, FALSE)
  /\ inbound' = inbound \ finishing.ids
  /\ outcome' = IF outcome = "running" THEN Finished ELSE outcome
  /\ finishing' = NotFinishing
  /\ UNCHANGED <<tools, answered, reading, runs, cancelled, callVars, observed, up, exitOwed, over>>

\* failActive: a notice outside the protocol.
FailActive ==
  /\ cancelled' = TRUE
  /\ Resolve(OpenAsks, FALSE)
  /\ inbound' = inbound \ OpenAsks
  /\ FailUnknown

Violation ==
  /\ ReaderIdle
  /\ FailActive
  /\ UNCHANGED <<tools, answered, reading, runs, callVars, observed, finishing, up, exitOwed, over>>

\* The session ends: requests can no longer be answered. handleExit follows.
Exit ==
  /\ ReaderIdle
  /\ up' = FALSE /\ exitOwed' = TRUE /\ over' = TRUE
  /\ inbound' = {}
  /\ UNCHANGED <<tools, answered, reading, runs, cancelled, askVars, callVars, outcome, observed, finishing>>

HandleExit ==
  /\ exitOwed
  /\ exitOwed' = FALSE
  /\ FailActive
  /\ UNCHANGED <<tools, answered, reading, runs, callVars, observed, finishing, up, over>>

-----------------------------------------------------------------------------
(* The node's calls, and the goroutine of a read command *)

\* runReadDynamicTool after the runner returned.
ReadEnds(r) ==
  /\ r \in reading
  /\ reading' = reading \ {r}
  /\ inbound' = inbound \ {r}
  /\ answered' = IF CanRespond(r) THEN answered \cup {r} ELSE answered
  /\ tools' = IF MayExpect(r[1]) THEN [tools EXCEPT ![r[1]].effect = "none"] ELSE tools
  /\ FailUnknownIf(~MayExpect(r[1]) \/ ~CanRespond(r))
  /\ UNCHANGED <<runs, cancelled, askVars, callVars, observed, finishing, up, exitOwed, over>>

\* An answer that could not be given.
AnswerFails(r) ==
  /\ Resolve({r}, FALSE)
  /\ inbound' = inbound \ {r}
  /\ FailUnknown
  /\ call' = [call EXCEPT ![r] = "unknown"]

\* Mutant of MayRespond: an answer under way is not looked at.
RespondAgain(r) == Open(r)

\* RespondApproval and RespondInput: only one of several calls goes on.
MayRespond(r) == pending[r] = "asked"

Answer(r) ==
  /\ MayRespond(r)
  /\ pending' = [pending EXCEPT ![r] = "responding"]
  /\ \/ /\ r \in Questions
        /\ call' = [call EXCEPT ![r] = "respond"]
        /\ UNCHANGED allow
     \/ /\ r \in ToolRequests
        /\ call' = [call EXCEPT ![r] = "check"]
        /\ \E decision \in BOOLEAN : allow' = IF decision THEN allow \cup {r} ELSE allow
  /\ UNCHANGED <<toolVars, results, waiting, turnVars>>

\* The tool is still the one the operator saw: it is run, or declined.
Check(r) ==
  /\ call[r] = "check"
  /\ IF tools[r[1]].state = "open"
     THEN /\ call' = [call EXCEPT ![r] = IF r \in allow THEN "run" ELSE "decline"]
          /\ UNCHANGED <<inbound, askVars, outcome>>
     ELSE AnswerFails(r)
  /\ UNCHANGED <<tools, answered, reading, runs, cancelled, allow, observed, finishing, up, exitOwed, over>>

\* Runner.Run: nothing is executed once the tools of the attempt were cancelled.
Run(r) ==
  /\ call[r] = "run"
  /\ runs' = [runs EXCEPT ![r[1]] = IF cancelled THEN @ ELSE @ + 1]
  /\ call' = [call EXCEPT ![r] = "running"]
  /\ UNCHANGED <<tools, inbound, answered, reading, cancelled, askVars, allow, turnVars>>

\* The effect of a run that returned an error is unknown, that of any other known. A run
\* that found tools cancelled returns one; one they were cancelled under may still end well.
RunReturns(r) ==
  /\ \/ call[r] = "running" /\ \E effect \in {"known", "unknown"} :
          /\ runs[r[1]] = 0 => effect = "unknown"
          /\ IF MayExpect(r[1])
             THEN tools' = [tools EXCEPT ![r[1]].effect = effect] ELSE UNCHANGED tools
     \/ call[r] = "decline" /\
          IF MayExpect(r[1])
          THEN tools' = [tools EXCEPT ![r[1]].effect = "none"] ELSE UNCHANGED tools
  /\ IF MayExpect(r[1])
     THEN call' = [call EXCEPT ![r] = "respond"] /\ UNCHANGED <<inbound, askVars, outcome>>
     ELSE AnswerFails(r)
  /\ UNCHANGED <<answered, reading, runs, cancelled, allow, observed, finishing, up, exitOwed, over>>

Respond(r) ==
  /\ call[r] = "respond"
  /\ IF CanRespond(r)
     THEN /\ inbound' = inbound \ {r}
          /\ answered' = answered \cup {r}
          /\ call' = [call EXCEPT ![r] = "wait"]
          /\ UNCHANGED <<askVars, outcome>>
     ELSE AnswerFails(r) /\ UNCHANGED answered
  /\ UNCHANGED <<tools, reading, runs, cancelled, allow, observed, finishing, up, exitOwed, over>>

\* The wait for the acknowledgement ends with the result or with the session.
Wait(r) ==
  /\ call[r] = "wait"
  /\ \/ /\ results[r] # <<>>
        /\ call' = [call EXCEPT ![r] = IF results[r][1] THEN "applied" ELSE "unknown"]
        /\ UNCHANGED outcome
     \/ /\ ~up
        /\ call' = [call EXCEPT ![r] = "unknown"]
        /\ FailUnknown
  /\ UNCHANGED <<toolVars, askVars, allow, observed, finishing, up, exitOwed, over>>

\* The context of the call ends first.
WaitTimesOut(r) ==
  /\ call[r] = "wait"
  /\ call' = [call EXCEPT ![r] = "unknown"]
  /\ FailUnknown
  /\ UNCHANGED <<toolVars, askVars, allow, observed, finishing, up, exitOwed, over>>

\* Steer and Cancel leave no doubt that the turn may have acted. The interrupt is
\* written before tools are cancelled, and they are cancelled in any case.
SteerOrCancel ==
  /\ outcome = "running"
  /\ observed' = observed \cup {"execution"}
  /\ \/ waiting = 0 /\ UNCHANGED cancelled
     \/ cancelled' = TRUE
  /\ UNCHANGED <<tools, inbound, answered, reading, runs, askVars, callVars, outcome, finishing, up, exitOwed, over>>

Reader ==
  \/ \E i \in Items : ItemStarted(i) \/ ItemCompleted(i)
  \/ \E r \in ToolRequests : ToolRequest(r) \/ SecondRequest(r)
  \/ \E q \in Questions : InputRequest(q)
  \/ \E r \in Asks : RequestResolved(r)
  \/ \E status \in {"completed", "interrupted", "rejected"} : FinishBegins(status, TRUE)
  \/ \E ends \in BOOLEAN : FinishBegins("failed", ends)
  \/ Activity \/ Notice \/ ForbiddenItem \/ Violation

\* What goes on without the operator or the native process.
Progress ==
  \/ FinishQuestions \/ FinishEnds \/ HandleExit
  \/ \E r \in Reads \X (1..MaxRequests) : ReadEnds(r)
  \/ \E r \in ToolRequests : Check(r) \/ Run(r) \/ RunReturns(r)
  \/ \E r \in Asks : Respond(r) \/ Wait(r)

Next ==
  \/ Reader \/ Exit \/ Progress \/ SteerOrCancel
  \/ \E r \in Asks : Answer(r) \/ WaitTimesOut(r)

Spec == Init /\ [][Next]_vars

-----------------------------------------------------------------------------
(* Properties *)

Calls == {"none", "check", "run", "decline", "running", "respond", "wait", "applied", "unknown"}

\* TypeOK: a type for every variable.
TypeOK ==
  /\ tools \in [Items -> [state : {"none", "open", "done"}, byRequest : BOOLEAN,
                          request : ToolRequests \cup {<<>>},
                          effect : {"unset", "none", "known", "unknown"}]]
  /\ inbound \subseteq Asks /\ answered \subseteq Asks
  /\ pending \in [Asks -> {"none", "asked", "responding", "resolved", "gone"}]
  /\ \A r \in Asks : results[r] \in {<<>>, <<TRUE>>, <<FALSE>>}
  /\ call \in [Asks -> Calls] /\ allow \subseteq ToolRequests
  /\ reading \subseteq ToolRequests /\ runs \in [Items -> Nat] /\ cancelled \in BOOLEAN
  /\ outcome \in {"running", "unknown", "completed", "interrupted", "failed_none", "failed_unknown"}
  /\ waiting \in Nat /\ observed \subseteq {"execution", "started", "retry"}
  /\ finishing.step \in {"no", "questions", "approvals"} /\ finishing.ids \subseteq Asks
  /\ up \in BOOLEAN /\ exitOwed \in BOOLEAN /\ over \in BOOLEAN

\* RunsOnce: whatever the native process repeats and the operator answers, an item is
\* executed at most once, and never after a refusal.
RunsOnce ==
  \A i \in Items : runs[i] <= 1 /\ (i \in Writes /\ runs[i] = 1 => \E r \in allow : r[1] = i)

\* AppliedMeansDone: an answer reported as applied reached the native process, and the
\* native process has said what became of the tool.
AppliedMeansDone ==
  \A r \in Asks : call[r] = "applied" =>
    r \in answered /\ (r \in ToolRequests => tools[r[1]].state = "done")

\* WaitingIsCounted: an attempt reports that it waits for the operator exactly while
\* something is asked.
WaitingIsCounted == waiting = Cardinality(OpenAsks)

\* NoneMeansUntouched: "nothing was executed" is never said of a turn of which an item
\* ran or was asked for.
NoneMeansUntouched ==
  outcome = "failed_none" => \A i \in Items : runs[i] = 0 /\ tools[i].state = "none"

\* EndIsSettled: a turn is reported completed or interrupted only when every tool is done
\* with an effect that is known and no runner is at work.
EndIsSettled ==
  [][outcome = "running" /\ outcome' \in {"completed", "interrupted"} =>
       /\ \A i \in Items : tools[i].state = "none" \/
                           (tools[i].state = "done" /\ tools[i].effect \in {"none", "known"})
       /\ \A r \in ToolRequests : call[r] \notin {"run", "running"}
       /\ reading = {}]_vars

\* NothingRunsAfterEnd: no item is executed after the end of the turn was reported.
NothingRunsAfterEnd ==
  [][outcome \notin {"running", "unknown"} => runs' = runs]_vars

\* The turn or the session is over and no call that answers an approval or a question
\* is on its way, or the turn goes on.
Answers == over => \A r \in Asks : call[r] \in {"none", "applied", "unknown"}

\* EffectsAreTrue: what is said of the effect of a turn is what was done: an item runs once,
\* when it was allowed, and "nothing was executed" is said of nothing that was.
EffectsAreTrue == TypeOK /\ RunsOnce /\ NoneMeansUntouched

\* AnswersAreTrue: what is said of the operator's answers is what became of them: applied
\* ones were done, and the attempt waits exactly while something is asked.
AnswersAreTrue == AppliedMeansDone /\ WaitingIsCounted

\* EndIsQuiet: the end of a turn is reported when nothing is open, and nothing follows it.
EndIsQuiet == EndIsSettled /\ NothingRunsAfterEnd
=============================================================================
