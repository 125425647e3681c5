---------------------------- MODULE Native_proofs ----------------------------
(***************************************************************************)
(* Theorems about the adapter and its native process, as MCNative puts     *)
(* them to work: the verification of a thread (CodexVerify), for any       *)
(* names, cursors and pages the native process may return; the tools,      *)
(* approvals and questions of a turn (CodexTools), for any items, requests *)
(* and bounds; and the session with its calls and requests (CodexSession). *)
(*                                                                         *)
(* What makes the second inductive is that an item is claimed by one       *)
(* request: whoever is asked, reads or runs for an item is that request,   *)
(* and until its runner returns nothing is known of the effect.  In the    *)
(* third it is that a call, or an answer, is owed to one owner at a time:  *)
(* pending, what the shutdown took and the reader's hand never share one.  *)
(***************************************************************************)
EXTENDS MCNative, FiniteSetTheorems, TLAPS

-----------------------------------------------------------------------------
\* The verification of a thread.

\* While the loop reads on, what it observed is what was listed of the wanted
\* names; no feature has two values; and the servers are wanted ones, each
\* listed once.
ObservedInv ==
  verdict # "refused" =>
    /\ found = {e \in listed : e[1] \in Wanted}
    /\ list = "features" => \A e, g \in found : e[1] = g[1] => e[2] = g[2]
    /\ list = "servers" => Verify!Named(listed) \subseteq Wanted /\ ~twice

\* The inductive invariant of the verification.
VerifyInv ==
  /\ Verify!TypeOK
  /\ ObservedInv
  /\ verdict = "verified" => Verify!Complete(found)

\* Nothing is listed at first.
LEMMA VerifyInit == Verify!Init => VerifyInv
<1> SUFFICES ASSUME Verify!Init PROVE VerifyInv
  OBVIOUS
<1>1. MaximumPages \in Nat
  BY NativeAssumption DEF Verify!VerifyAssumption
<1>2. Verify!TypeOK
  <2>1. page \in 0..MaximumPages
    BY <1>1 DEF Verify!Init
  <2>2. found \subseteq Verify!Entries /\ listed \subseteq Verify!Entries
    BY DEF Verify!Init
  <2> QED BY <2>1, <2>2 DEF Verify!Init, Verify!TypeOK
<1>3. ObservedInv
  BY DEF Verify!Init, ObservedInv, Verify!Named
<1> QED BY <1>2, <1>3 DEF Verify!Init, VerifyInv

\* A page of entries that agree with what is wanted and with the pages before.
LEMMA PageAgrees ==
  ASSUME VerifyInv, verdict = "reading",
         NEW entries \in SUBSET Verify!Entries, Verify!Agrees(entries),
         found' = Verify!Observed(entries), listed' = listed \cup entries,
         twice' = (twice \/ Verify!Named(entries) \cap Verify!Named(listed) # {}
                         \/ Verify!Cardinality(Verify!Named(entries))
                              # Verify!Cardinality(entries)),
         list' = list
  PROVE  ObservedInv'
<1>1. found' = {e \in listed' : e[1] \in Wanted}
  BY DEF VerifyInv, ObservedInv, Verify!Observed
<1>2. CASE list = "features"
  <2>1. \A e, g \in found' : e[1] = g[1] => e[2] = g[2]
    BY <1>2 DEF Verify!Agrees, Verify!FeaturesAgree, Verify!Observed
  <2> QED BY <1>1, <1>2, <2>1 DEF ObservedInv
<1>3. CASE list = "servers"
  <2>1. /\ Verify!Named(listed) \subseteq Wanted /\ ~twice
        /\ found = {e \in listed : e[1] \in Wanted}
    BY <1>3 DEF VerifyInv, ObservedInv
  <2>2. /\ Verify!Named(entries) \subseteq Wanted
        /\ Verify!Named(entries) \cap Verify!Named(found) = {}
        /\ Verify!Cardinality(Verify!Named(entries)) = Verify!Cardinality(entries)
    BY <1>3 DEF Verify!Agrees, Verify!ServersAgree
  <2>3. found = listed
    BY <2>1 DEF Verify!Named
  <2>4. ~twice'
    BY <2>1, <2>2, <2>3
  <2>5. Verify!Named(listed)' \subseteq Wanted
    BY <2>1, <2>2 DEF Verify!Named
  <2> QED BY <1>1, <1>3, <2>4, <2>5 DEF ObservedInv
<1> QED BY <1>2, <1>3 DEF VerifyInv, Verify!TypeOK

\* A page is read, or the loop gives up.
LEMMA VerifyNext ==
  ASSUME VerifyInv, [Verify!Next]_verifyVars
  PROVE  VerifyInv'
<1>1. CASE Verify!Page
  <2>1. PICK entries \in SUBSET Verify!Entries, next \in Cursors \cup {"last"} :
          /\ listed' = listed \cup entries
          /\ twice' = (twice
                        \/ Verify!Named(entries) \cap Verify!Named(listed) # {}
                        \/ Verify!Cardinality(Verify!Named(entries))
                             # Verify!Cardinality(entries))
          /\ IF ~Verify!Agrees(entries)
             THEN verdict' = "refused" /\ UNCHANGED <<cursor, seen, found>>
             ELSE /\ found' = Verify!Observed(entries)
                  /\ IF next = "last"
                     THEN /\ verdict' = IF Verify!Complete(Verify!Observed(entries))
                                        THEN "verified" ELSE "refused"
                          /\ UNCHANGED <<cursor, seen>>
                     ELSE IF Verify!NewCursor(next)
                          THEN /\ cursor' = next /\ seen' = seen \cup {next}
                               /\ UNCHANGED verdict
                          ELSE verdict' = "refused" /\ UNCHANGED <<cursor, seen>>
    BY <1>1 DEF Verify!Page
  <2>2. verdict = "reading" /\ list' = list /\ page < MaximumPages /\ page' = page + 1
    BY <1>1 DEF Verify!Page, Verify!MorePages
  <2>3. Verify!TypeOK'
    <3>1. page' \in 0..MaximumPages
      BY <2>2, NativeAssumption DEF VerifyInv, Verify!TypeOK, Verify!VerifyAssumption
    <3>2. found' \subseteq Verify!Entries /\ listed' \subseteq Verify!Entries
      BY <2>1 DEF VerifyInv, Verify!TypeOK, Verify!Observed
    <3>3. twice' \in BOOLEAN
      BY <2>1
    <3>4. /\ cursor' \in Cursors \cup {"first"} /\ seen' \subseteq Cursors
          /\ verdict' \in {"reading", "verified", "refused"}
      BY <2>1, <2>2 DEF VerifyInv, Verify!TypeOK
    <3> QED BY <2>2, <3>1, <3>2, <3>3, <3>4 DEF VerifyInv, Verify!TypeOK
  <2>4. CASE ~Verify!Agrees(entries)
    BY <2>1, <2>3, <2>4 DEF VerifyInv, ObservedInv
  <2>5. CASE Verify!Agrees(entries)
    <3>1. ObservedInv'
      BY <2>1, <2>2, <2>5, PageAgrees
    <3>2. verdict' = "verified" => Verify!Complete(found)'
      BY <2>1, <2>2, <2>5 DEF Verify!Complete
    <3> QED BY <2>3, <3>1, <3>2 DEF VerifyInv
  <2> QED BY <2>4, <2>5
<1>2. CASE Verify!Refuse
  BY <1>2 DEF VerifyInv, Verify!TypeOK, ObservedInv, Verify!Refuse
<1>3. CASE UNCHANGED verifyVars
  <2>1. Verify!TypeOK' /\ ObservedInv'
    BY <1>3 DEF VerifyInv, Verify!TypeOK, ObservedInv, verifyVars, Verify!Named
  <2> QED BY <1>3, <2>1 DEF VerifyInv, verifyVars, Verify!Complete
<1> QED BY <1>1, <1>2, <1>3 DEF Verify!Next

\* The verification runs in its own part, and nothing of it moves elsewhere.
LEMMA VerifyPart == Spec => Verify!Init /\ [][Verify!Next]_verifyVars
<1>1. Init => Verify!Init
  BY DEF Init
<1>2. [Next]_vars => [Verify!Next]_verifyVars
  BY DEF Next, vars, ToolsStep, SessionStep, VerifyStep, verifyVars
<1> QED BY <1>1, <1>2, PTL DEF Spec

\* VerifyInv is an invariant of the verification.
THEOREM VerifyInvariance == Spec => []VerifyInv
BY VerifyPart, VerifyInit, VerifyNext, PTL

\* A complete list without contradiction is what the node wants, nothing more.
LEMMA CompleteEnforces ==
  ASSUME VerifyInv
  PROVE  Verify!VerifiedMeansEnforced
<1> SUFFICES ASSUME verdict = "verified"
             PROVE  IF list = "features"
                    THEN {e \in listed : e[1] \in Wanted}
                           = {<<n, n \in Enabled>> : n \in Wanted}
                    ELSE Verify!Named(listed) = Wanted /\ ~twice
  BY DEF Verify!VerifiedMeansEnforced
<1>1. /\ found = {e \in listed : e[1] \in Wanted}
      /\ Verify!Complete(found) /\ found \subseteq Verify!Entries
      /\ list \in {"features", "servers"}
  BY DEF VerifyInv, ObservedInv, Verify!TypeOK
<1>2. CASE list = "features"
  <2>1. \A n \in Wanted : <<n, n \in Enabled>> \in found
    BY <1>1, <1>2 DEF Verify!Complete
  <2>2. \A e, g \in found : e[1] = g[1] => e[2] = g[2]
    BY <1>2 DEF VerifyInv, ObservedInv
  <2>3. ASSUME NEW e \in found
        PROVE  e[1] \in Wanted /\ e = <<e[1], e[1] \in Enabled>>
    <3>1. e[1] \in Wanted /\ e = <<e[1], e[2]>>
      BY <1>1 DEF Verify!Entries
    <3>2. e[2] = (e[1] \in Enabled)
      BY <2>1, <2>2, <3>1
    <3> QED BY <3>1, <3>2
  <2>4. found = {<<n, n \in Enabled>> : n \in Wanted}
    BY <2>1, <2>3
  <2> QED BY <1>1, <1>2, <2>4
<1>3. CASE list = "servers"
  <2>1. Verify!Named(listed) \subseteq Wanted /\ ~twice
    BY <1>3 DEF VerifyInv, ObservedInv
  <2>2. found = listed
    BY <1>1, <2>1 DEF Verify!Named
  <2>3. Verify!Named(found) = Wanted
    BY <1>1, <1>3 DEF Verify!Complete
  <2> QED BY <1>3, <2>1, <2>2, <2>3
<1> QED BY <1>1, <1>2, <1>3

\* A thread is verified only when each wanted feature was listed with its value
\* and with no other, and the servers are exactly the wanted ones, each once,
\* whatever pages and cursors the native process returns.
THEOREM VerificationEnforces == Spec => []VerifiedMeansEnforced
<1>1. VerifyInv => VerifiedMeansEnforced
  BY CompleteEnforces DEF VerifyInv, VerifiedMeansEnforced
<1> QED BY <1>1, VerifyInvariance, PTL

-----------------------------------------------------------------------------
\* Tools, approvals and questions of a turn.

\* The requests have their types, and as many wait as are counted.
AskOK ==
  /\ pending \in [Tools!Asks -> {"none", "asked", "responding", "resolved", "gone"}]
  /\ results \in [Tools!Asks -> {<<>>, <<TRUE>>, <<FALSE>>}]
  /\ IsFiniteSet(Tools!OpenAsks) /\ waiting = Cardinality(Tools!OpenAsks)

\* The types of the others.
ToolTypes ==
  [Tools!Items -> [state : {"none", "open", "done"}, byRequest : BOOLEAN,
             request : Tools!ToolRequests \cup {<<>>},
             effect : {"unset", "none", "known", "unknown"}]]

RestOK ==
  /\ tools \in ToolTypes
  /\ answerable \subseteq Tools!Asks /\ answered \subseteq Tools!Asks
  /\ answer \in [Tools!Asks -> Tools!Calls] /\ allow \subseteq Tools!ToolRequests
  /\ reading \subseteq Tools!ToolRequests /\ runs \in [Tools!Items -> Nat] /\ stopped \in BOOLEAN
  /\ outcome \in {"running", "unknown", "completed", "interrupted", "failed_none",
                   "failed_unknown"}
  /\ observed \subseteq {"execution", "started", "retry"}
  /\ up \in BOOLEAN /\ exitOwed \in BOOLEAN /\ over \in BOOLEAN

\* The tools are cancelled when finish begins, and only the end of the turn may
\* say that nothing was executed.
FinishInv ==
  /\ finishing \in [step : {"no", "questions", "approvals"},
                    status : {"none", "completed", "interrupted", "rejected", "failed"},
                    ids : SUBSET Tools!Asks, unconfirmed : BOOLEAN]
  /\ finishing.step # "no" => /\ stopped /\ finishing.status # "none"
                              /\ finishing.status = "rejected" => over
  /\ outcome \notin {"running", "unknown"} => stopped
  /\ outcome = "failed_none" => over /\ \A i \in Tools!Items : tools[i].state = "none"

\* An answer was asked for, a result is the last word, and who waits has answered.
AskInv ==
  \A r \in Tools!Asks :
    /\ answer[r] # "none" => pending[r] \in {"responding", "resolved", "gone"}
    /\ results[r] # <<>> => pending[r] = "gone"
    /\ answer[r] \in {"wait", "applied"} => r \in answered

\* An item that nobody requested has no effect, and one that is done has one.
ItemInv ==
  \A i \in Tools!Items :
    /\ tools[i].state = "none" => tools[i].request = <<>>
    /\ tools[i].request = <<>> => tools[i].effect = "unset" /\ runs[i] = 0
    /\ tools[i].request # <<>> => tools[i].request[1] = i
    /\ tools[i].state = "done" => /\ tools[i].effect # "unset"
                                  /\ tools[i].effect = "unknown" => outcome # "running"

\* A request at work is the one its item was claimed by, and until its runner
\* returns nothing is known of the effect.
RequestInv ==
  \A r \in Tools!ToolRequests :
    /\ pending[r] # "none" => r[1] \in Writes /\ tools[r[1]].request = r
    /\ r \in reading => r[1] \in Reads /\ tools[r[1]].request = r
    /\ (\/ pending[r] = "asked" \/ r \in reading
        \/ answer[r] \in {"check", "run", "decline", "running"}) => Tools!MayExpect(r[1])
    /\ answer[r] \in {"run", "running"} => r \in allow
    /\ results[r] = <<TRUE>> \/ answer[r] = "applied" => tools[r[1]].state = "done"

\* An item that ran did so once, for a decision that allowed it.
RunInv ==
  \A i \in Tools!Items :
    /\ runs[i] <= 1
    /\ i \in Writes /\ runs[i] = 1 =>
         /\ tools[i].request \in allow
         /\ answer[tools[i].request] \notin {"none", "check", "run", "decline"}

\* The inductive invariant of a turn.
TurnInv == AskOK /\ RestOK /\ FinishInv /\ AskInv /\ ItemInv /\ RequestInv /\ RunInv

-----------------------------------------------------------------------------
\* What the steps of a turn have in common.

\* What may become of a request that was there, of an item, and of a call.
AskMove(r) ==
  \/ pending'[r] = pending[r] /\ results'[r] = results[r]
  \/ pending[r] = "responding" /\ pending'[r] = "resolved" /\ results'[r] = results[r]
  \/ /\ Tools!Open(r) /\ pending'[r] = "gone"
     /\ \/ results'[r] = results[r] \/ results'[r] = <<FALSE>>
        \/ results'[r] = <<TRUE>> /\ (r \in Tools!ToolRequests => tools'[r[1]].state = "done")

ItemMove(i) ==
  \/ tools'[i] = tools[i]
  \/ /\ tools[i].state \in {"none", "open"} /\ tools'[i].state = "open"
     /\ tools'[i].request = tools[i].request /\ tools'[i].effect = tools[i].effect
  \/ /\ tools[i].state = "open" /\ tools[i].effect # "unset" /\ tools'[i].state = "done"
     /\ tools'[i].request = tools[i].request /\ tools'[i].effect = tools[i].effect
     /\ tools[i].effect = "unknown" => outcome' # "running"

CallMove(r) ==
  \/ answer'[r] = answer[r]
  \/ answer[r] # "none" /\ answer'[r] = "unknown"
  \/ answer[r] = "respond" /\ answer'[r] = "wait" /\ r \in answered'
  \/ answer[r] = "wait" /\ answer'[r] = "applied" /\ results[r] = <<TRUE>>
  \/ answer[r] = "check" /\ answer'[r] = "run" /\ r \in allow
  \/ answer[r] = "check" /\ answer'[r] = "decline"

\* The end of an attempt is final.
OutcomeMove == outcome' = outcome \/ outcome = "running"

\* An answer that was refused was not applied.
LEMMA RefusedIsNotApplied == <<TRUE>> # <<FALSE>>
OBVIOUS

\* An item keeps its request and, until its runner returns, its openness.
LEMMA ItemKept ==
  ASSUME RestOK, ItemInv, NEW i \in Tools!Items, ItemMove(i)
  PROVE  /\ tools'[i].request = tools[i].request
         /\ tools'[i].effect = tools[i].effect
         /\ Tools!MayExpect(i) => Tools!MayExpect(i)'
         /\ tools[i].state = "done" => tools'[i].state = "done"
         /\ tools'[i].state = "none" => tools[i].state = "none"
BY DEF ItemMove, Tools!MayExpect

\* Steps in which requests, items and calls only go on as they may.
LEMMA MoveInv ==
  ASSUME TurnInv, AskOK', RestOK',
         \A r \in Tools!Asks : AskMove(r) /\ CallMove(r),
         \A i \in Tools!Items : ItemMove(i),
         UNCHANGED <<reading, runs, allow>>, answered \subseteq answered', OutcomeMove
  PROVE  AskInv' /\ ItemInv' /\ RequestInv' /\ RunInv'
<1> USE DEF TurnInv
<1>1. AskInv'
  <2> SUFFICES ASSUME NEW r \in Tools!Asks
               PROVE  /\ answer'[r] # "none"
                         => pending'[r] \in {"responding", "resolved", "gone"}
                      /\ results'[r] # <<>> => pending'[r] = "gone"
                      /\ answer'[r] \in {"wait", "applied"} => r \in answered'
    BY DEF AskInv
  <2>1. AskMove(r) /\ CallMove(r)
    OBVIOUS
  <2>2. /\ answer[r] # "none" => pending[r] \in {"responding", "resolved", "gone"}
        /\ results[r] # <<>> => pending[r] = "gone"
        /\ answer[r] \in {"wait", "applied"} => r \in answered
    BY DEF AskInv
  <2> QED  BY <2>1, <2>2 DEF AskMove, CallMove, Tools!Open
<1>2. ItemInv'
  <2> SUFFICES ASSUME NEW i \in Tools!Items
               PROVE  /\ tools'[i].state = "none" => tools'[i].request = <<>>
                      /\ tools'[i].request = <<>>
                         => tools'[i].effect = "unset" /\ runs'[i] = 0
                      /\ tools'[i].request # <<>> => tools'[i].request[1] = i
                      /\ tools'[i].state = "done"
                         => /\ tools'[i].effect # "unset"
                            /\ tools'[i].effect = "unknown" => outcome' # "running"
    BY DEF ItemInv
  <2>1. ItemMove(i)
    OBVIOUS
  <2>2. /\ tools[i].state = "none" => tools[i].request = <<>>
        /\ tools[i].request = <<>> => tools[i].effect = "unset" /\ runs[i] = 0
        /\ tools[i].request # <<>> => tools[i].request[1] = i
        /\ tools[i].state = "done" => /\ tools[i].effect # "unset"
                                      /\ tools[i].effect = "unknown" => outcome # "running"
    BY DEF ItemInv
  <2> QED  BY <2>1, <2>2 DEF ItemMove, OutcomeMove
<1>3. RequestInv'
  <2> SUFFICES ASSUME NEW r \in Tools!ToolRequests
               PROVE  /\ pending'[r] # "none" => r[1] \in Writes /\ tools'[r[1]].request = r
                      /\ r \in reading' => r[1] \in Reads /\ tools'[r[1]].request = r
                      /\ (\/ pending'[r] = "asked" \/ r \in reading'
                          \/ answer'[r] \in {"check", "run", "decline", "running"})
                         => Tools!MayExpect(r[1])'
                      /\ answer'[r] \in {"run", "running"} => r \in allow'
                      /\ results'[r] = <<TRUE>> \/ answer'[r] = "applied"
                         => tools'[r[1]].state = "done"
    BY DEF RequestInv, Tools!MayExpect
  <2>1. r \in Tools!Asks /\ r[1] \in Tools!Items
    BY DEF Tools!Asks, Tools!ToolRequests
  <2>2. AskMove(r) /\ CallMove(r) /\ ItemMove(r[1])
    BY <2>1
  <2>3. /\ tools'[r[1]].request = tools[r[1]].request
        /\ Tools!MayExpect(r[1]) => Tools!MayExpect(r[1])'
        /\ tools[r[1]].state = "done" => tools'[r[1]].state = "done"
    BY <2>1, <2>2, ItemKept
  <2>4. /\ pending[r] # "none" => r[1] \in Writes /\ tools[r[1]].request = r
        /\ r \in reading => r[1] \in Reads /\ tools[r[1]].request = r
        /\ (\/ pending[r] = "asked" \/ r \in reading
            \/ answer[r] \in {"check", "run", "decline", "running"}) => Tools!MayExpect(r[1])
        /\ answer[r] \in {"run", "running"} => r \in allow
        /\ results[r] = <<TRUE>> \/ answer[r] = "applied" => tools[r[1]].state = "done"
    BY DEF RequestInv
  <2>5. pending'[r] # "none" => pending[r] # "none"
    BY <2>2 DEF AskMove, Tools!Open
  <2>6. pending'[r] = "asked" => pending[r] = "asked"
    BY <2>2 DEF AskMove
  <2>7. answer'[r] \in {"check", "run", "decline", "running"}
        => answer[r] \in {"check", "run", "decline", "running"}
    BY <2>2 DEF CallMove
  <2>8. answer'[r] \in {"run", "running"} => r \in allow'
    BY <2>2, <2>4 DEF CallMove
  <2>9. results'[r] = <<TRUE>> \/ answer'[r] = "applied" => tools'[r[1]].state = "done"
    <3>1. results'[r] = <<TRUE>> => \/ results[r] = <<TRUE>>
                                   \/ tools'[r[1]].state = "done"
      BY <2>2, RefusedIsNotApplied DEF AskMove
    <3>2. answer'[r] = "applied" => answer[r] = "applied" \/ results[r] = <<TRUE>>
      BY <2>2 DEF CallMove
    <3> QED  BY <2>3, <2>4, <3>1, <3>2
  <2> QED  BY <2>3, <2>4, <2>5, <2>6, <2>7, <2>8, <2>9
<1>4. RunInv'
  <2> SUFFICES ASSUME NEW i \in Tools!Items
               PROVE  /\ runs'[i] <= 1
                      /\ i \in Writes /\ runs'[i] = 1 =>
                           /\ tools'[i].request \in allow'
                           /\ answer'[tools'[i].request]
                                \notin {"none", "check", "run", "decline"}
    BY DEF RunInv
  <2>1. /\ runs[i] <= 1
        /\ i \in Writes /\ runs[i] = 1 =>
             /\ tools[i].request \in allow
             /\ answer[tools[i].request] \notin {"none", "check", "run", "decline"}
    BY DEF RunInv
  <2>2. tools'[i].request = tools[i].request
    BY ItemKept
  <2>3. tools[i].request \in allow => tools[i].request \in Tools!Asks
    BY DEF RestOK, Tools!Asks
  <2>4. \A r \in Tools!Asks : answer[r] \notin {"none", "check", "run", "decline"}
          => answer'[r] \notin {"none", "check", "run", "decline"}
    BY DEF CallMove
  <2> QED  BY <2>1, <2>2, <2>3, <2>4
<1> QED  BY <1>1, <1>2, <1>3, <1>4

\* CodexTools counts as this module does.
LEMMA ToolsCardinality == \A S : Tools!Cardinality(S) = Cardinality(S)
BY DEF Tools!Cardinality, Cardinality

\* resolvePendingApproval and resolvePendingInput.
LEMMA ResolveMoves ==
  ASSUME AskOK, AskInv, NEW ids, NEW applied \in BOOLEAN, Tools!Resolve(ids, applied)
  PROVE  /\ AskOK'
         /\ \A r \in Tools!Asks :
              \/ pending'[r] = pending[r] /\ results'[r] = results[r]
              \/ /\ r \in ids /\ Tools!Open(r) /\ pending'[r] = "gone"
                 /\ results'[r] = <<applied>>
<1>1. /\ pending' = [r \in Tools!Asks |-> IF r \in ids /\ Tools!Open(r) THEN "gone" ELSE pending[r]]
      /\ results' = [r \in Tools!Asks |-> IF r \in ids /\ Tools!Open(r)
                                    THEN Append(results[r], applied) ELSE results[r]]
      /\ waiting' = waiting - Cardinality(ids \cap Tools!OpenAsks)
  BY ToolsCardinality DEF Tools!Resolve, AskOK
<1>2. ASSUME NEW r \in Tools!Asks, Tools!Open(r)
      PROVE  results[r] = <<>> /\ Append(results[r], applied) = <<applied>>
  <2>1. results[r] = <<>>
    BY <1>2 DEF AskInv, Tools!Open
  <2> QED  BY <2>1
<1>3. \A r \in Tools!Asks :
        \/ pending'[r] = pending[r] /\ results'[r] = results[r]
        \/ /\ r \in ids /\ Tools!Open(r) /\ pending'[r] = "gone"
           /\ results'[r] = <<applied>>
  BY <1>1, <1>2
<1>4. pending' \in [Tools!Asks -> {"none", "asked", "responding", "resolved", "gone"}]
  BY <1>1 DEF AskOK
<1>5. results' \in [Tools!Asks -> {<<>>, <<TRUE>>, <<FALSE>>}]
  <2>1. \A r \in Tools!Asks : results'[r] \in {<<>>, <<TRUE>>, <<FALSE>>}
    BY <1>3 DEF AskOK
  <2> QED  BY <1>1, <2>1
<1>6. Tools!OpenAsks' = Tools!OpenAsks \ (ids \cap Tools!OpenAsks)
  BY <1>1 DEF Tools!OpenAsks, Tools!Open
<1>7. IsFiniteSet(Tools!OpenAsks)' /\ waiting' = Cardinality(Tools!OpenAsks)'
  <2>1. IsFiniteSet(Tools!OpenAsks) /\ waiting = Cardinality(Tools!OpenAsks)
    BY DEF AskOK
  <2>2. IsFiniteSet(ids \cap Tools!OpenAsks)
    BY <2>1, FS_Subset
  <2>3. /\ IsFiniteSet(Tools!OpenAsks \ (ids \cap Tools!OpenAsks))
        /\ Cardinality(Tools!OpenAsks \ (ids \cap Tools!OpenAsks))
             = Cardinality(Tools!OpenAsks)
                 - Cardinality(Tools!OpenAsks \cap (ids \cap Tools!OpenAsks))
    BY <2>1, FS_Difference
  <2>4. Tools!OpenAsks \cap (ids \cap Tools!OpenAsks) = ids \cap Tools!OpenAsks
    OBVIOUS
  <2> QED  BY <1>1, <1>6, <2>1, <2>3, <2>4
<1> QED  BY <1>3, <1>4, <1>5, <1>7 DEF AskOK

\* The requests are left alone.
LEMMA AsksUntouched ==
  ASSUME AskOK, UNCHANGED Tools!askVars
  PROVE  AskOK' /\ \A r \in Tools!Asks : AskMove(r)
BY DEF AskOK, Tools!askVars, Tools!OpenAsks, Tools!Open, AskMove

\* Every answer that a step refuses.
LEMMA RefuseMoves ==
  ASSUME AskOK, AskInv, NEW ids, Tools!Resolve(ids, FALSE)
  PROVE  AskOK' /\ \A r \in Tools!Asks : AskMove(r)
BY ResolveMoves DEF AskMove

\* The questions the turn has confirmed.
LEMMA ConfirmMoves ==
  ASSUME AskOK, AskInv, Tools!ToolsAssumption, Tools!Resolve(Tools!Confirmed, TRUE)
  PROVE  AskOK' /\ \A r \in Tools!Asks : AskMove(r)
<1>1. \A r \in Tools!Confirmed : r \notin Tools!ToolRequests
  BY DEF Tools!Confirmed, Tools!ToolsAssumption
<1> QED  BY <1>1, ResolveMoves DEF AskMove

\* finish is not concerned, and no outcome is reached but unknown.
LEMMA FinishUntouched ==
  ASSUME FinishInv, RestOK, UNCHANGED finishing,
         stopped => stopped', over => over',
         outcome' = outcome \/ outcome' = "unknown",
         over => \A i \in Tools!Items : tools[i].state = "none" => tools'[i].state = "none"
  PROVE  FinishInv'
BY DEF FinishInv
\* The steps that leave items, runners and calls alone.
LEMMA AskStepInv ==
  ASSUME TurnInv, AskOK', \A r \in Tools!Asks : AskMove(r),
         UNCHANGED <<tools, reading, runs, Tools!callVars, finishing>>,
         answerable' \subseteq Tools!Asks, answered \subseteq answered',
         answered' \subseteq Tools!Asks,
         stopped' \in BOOLEAN, stopped => stopped', over' \in BOOLEAN, over => over',
         observed' \subseteq {"execution", "started", "retry"},
         up' \in BOOLEAN, exitOwed' \in BOOLEAN,
         outcome' = outcome \/ (outcome = "running" /\ outcome' = "unknown")
  PROVE  TurnInv'
<1> USE DEF TurnInv, Tools!callVars
<1>1. RestOK'
  BY DEF RestOK
<1>2. \A r \in Tools!Asks : CallMove(r)
  BY DEF CallMove
<1>3. \A i \in Tools!Items : ItemMove(i)
  BY DEF ItemMove
<1>4. AskInv' /\ ItemInv' /\ RequestInv' /\ RunInv'
  BY <1>1, <1>2, <1>3, MoveInv DEF OutcomeMove
<1>5. FinishInv'
  BY FinishUntouched
<1> QED  BY <1>1, <1>4, <1>5

\* The steps that leave the requests and the items alone too.
LEMMA QuietInv ==
  ASSUME TurnInv, Tools!ToolsAssumption,
         Tools!Notice \/ Tools!Exit \/ Tools!SteerOrCancel
  PROVE  TurnInv'
<1>1. AskOK' /\ \A r \in Tools!Asks : AskMove(r)
  BY AsksUntouched DEF TurnInv, Tools!Notice, Tools!Exit, Tools!SteerOrCancel
<1>2. CASE Tools!Notice
  BY <1>1, <1>2, AskStepInv DEF TurnInv, RestOK, Tools!Notice, Tools!toolVars, Tools!callVars
<1>3. CASE Tools!Exit
  BY <1>1, <1>3, AskStepInv DEF TurnInv, RestOK, Tools!Exit, Tools!callVars
<1>4. CASE Tools!SteerOrCancel
  BY <1>1, <1>4, AskStepInv DEF TurnInv, RestOK, Tools!SteerOrCancel, Tools!callVars
<1> QED  BY <1>2, <1>3, <1>4

\* The activity of a turn confirms what was answered.
LEMMA ActivityInv ==
  ASSUME TurnInv, Tools!ToolsAssumption, Tools!Activity \/ Tools!ForbiddenItem
  PROVE  TurnInv'
<1>1. Tools!Resolve(Tools!Confirmed, TRUE)
  BY DEF Tools!Activity, Tools!ForbiddenItem
<1>2. AskOK' /\ \A r \in Tools!Asks : AskMove(r)
  BY <1>1, ConfirmMoves DEF TurnInv
<1> QED
  BY <1>2, AskStepInv
  DEF TurnInv, RestOK, Tools!Activity, Tools!ForbiddenItem, Tools!FailUnknown, Tools!toolVars,
      Tools!callVars

\* The steps that refuse what is open.
LEMMA FailActiveInv ==
  ASSUME TurnInv, Tools!Violation \/ Tools!HandleExit
  PROVE  TurnInv'
<1>1. Tools!FailActive
  BY DEF Tools!Violation, Tools!HandleExit
<1>2. AskOK' /\ \A r \in Tools!Asks : AskMove(r)
  BY <1>1, RefuseMoves DEF TurnInv, Tools!FailActive
<1> QED
  BY <1>1, <1>2, AskStepInv
  DEF TurnInv, RestOK, Tools!FailActive, Tools!Violation, Tools!HandleExit, Tools!FailUnknown,
      Tools!callVars

\* A second request refuses the first.
LEMMA SecondRequestInv ==
  ASSUME TurnInv, NEW r \in Tools!ToolRequests, Tools!SecondRequest(r)
  PROVE  TurnInv'
<1>1. AskOK' /\ \A x \in Tools!Asks : AskMove(x)
  BY RefuseMoves DEF TurnInv, Tools!SecondRequest
<1>2. r \in Tools!Asks
  BY DEF Tools!Asks
<1>3. /\ answerable' \subseteq Tools!Asks
      /\ answered \subseteq answered' /\ answered' \subseteq Tools!Asks
  BY <1>2 DEF TurnInv, RestOK, Tools!SecondRequest
<1> QED
  BY <1>1, <1>3, AskStepInv
  DEF TurnInv, RestOK, Tools!SecondRequest, Tools!FailUnknown, Tools!callVars

\* One more request waits for the operator.
LEMMA AskedMoves ==
  ASSUME AskOK, NEW r \in Tools!Asks, pending[r] = "none",
         pending' = [pending EXCEPT ![r] = "asked"], waiting' = waiting + 1,
         UNCHANGED results
  PROVE  AskOK'
<1>1. Tools!OpenAsks' = Tools!OpenAsks \cup {r} /\ r \notin Tools!OpenAsks
  BY DEF AskOK, Tools!OpenAsks, Tools!Open
<1>2. IsFiniteSet(Tools!OpenAsks)' /\ waiting' = Cardinality(Tools!OpenAsks)'
  BY <1>1, FS_AddElement DEF AskOK
<1> QED  BY <1>2 DEF AskOK

\* A question is asked, or there is no room for it.
LEMMA InputRequestInv ==
  ASSUME TurnInv, Tools!ToolsAssumption, NEW q \in Questions, Tools!InputRequest(q)
  PROVE  TurnInv'
<1> USE DEF TurnInv
<1>1. q \in Tools!Asks /\ q \notin Tools!ToolRequests /\ pending[q] = "none"
  BY DEF Tools!Asks, Tools!ToolsAssumption, Tools!InputRequest
<1>2. CASE Tools!HasRoom
  <2>1. AskOK'
    BY <1>1, <1>2, AskedMoves DEF Tools!InputRequest
  <2>2. RestOK' /\ FinishInv'
    BY <1>1, <1>2 DEF Tools!InputRequest, RestOK, FinishInv, Tools!callVars
  <2>3. AskInv'
    BY <1>1, <1>2 DEF Tools!InputRequest, AskInv, AskOK, Tools!callVars
  <2>4. RequestInv'
    <3>1. /\ UNCHANGED <<tools, reading, answer, allow, results>>
          /\ \A r \in Tools!ToolRequests : pending'[r] = pending[r]
      BY <1>1, <1>2 DEF Tools!InputRequest, AskOK, Tools!Asks, Tools!callVars
    <3> QED  BY <3>1 DEF RequestInv, Tools!MayExpect
  <2>5. ItemInv' /\ RunInv'
    BY <1>2 DEF Tools!InputRequest, ItemInv, RunInv, Tools!callVars
  <2> QED  BY <2>1, <2>2, <2>3, <2>4, <2>5
<1>3. CASE ~Tools!HasRoom
  <2>1. AskOK' /\ \A r \in Tools!Asks : AskMove(r)
    BY <1>3, AsksUntouched DEF Tools!InputRequest
  <2> QED
    BY <1>1, <1>3, <2>1, AskStepInv
    DEF RestOK, Tools!InputRequest, Tools!FailUnknown, Tools!callVars
<1> QED  BY <1>2, <1>3

\* The native process gives a request up, or has taken its answer.
LEMMA RequestResolvedInv ==
  ASSUME TurnInv, NEW r \in Tools!Asks, Tools!RequestResolved(r)
  PROVE  TurnInv'
<1> USE DEF TurnInv
<1>1. AskOK' /\ \A x \in Tools!Asks : AskMove(x)
  <2>1. CASE pending[r] = "asked"
    <3>1. /\ pending' = [pending EXCEPT ![r] = "gone"] /\ waiting' = waiting - 1
          /\ results' = IF r \in Questions THEN [results EXCEPT ![r] = Append(@, FALSE)]
                        ELSE results
      BY <2>1 DEF Tools!RequestResolved
    <3>2. results[r] = <<>>
      BY <2>1 DEF AskInv
    <3>3. Append(results[r], FALSE) = <<FALSE>>
      BY <3>2
    <3>4. Tools!OpenAsks' = Tools!OpenAsks \ {r} /\ r \in Tools!OpenAsks
      BY <2>1, <3>1 DEF AskOK, Tools!OpenAsks, Tools!Open
    <3>5. IsFiniteSet(Tools!OpenAsks)' /\ waiting' = Cardinality(Tools!OpenAsks)'
      BY <3>1, <3>4, FS_RemoveElement DEF AskOK
    <3>6. pending' \in [Tools!Asks -> {"none", "asked", "responding", "resolved", "gone"}]
      BY <3>1 DEF AskOK
    <3>7. results' \in [Tools!Asks -> {<<>>, <<TRUE>>, <<FALSE>>}]
      BY <3>1, <3>3 DEF AskOK
    <3>8. \A x \in Tools!Asks : AskMove(x)
      BY <2>1, <3>1, <3>3 DEF AskOK, AskMove, Tools!Open
    <3> QED  BY <3>5, <3>6, <3>7, <3>8 DEF AskOK
  <2>2. CASE pending[r] = "responding" /\ r \in Tools!ToolRequests /\ tools[r[1]].state = "done"
    <3>1. Tools!Resolve({r}, TRUE) /\ tools' = tools
      BY <2>2 DEF Tools!RequestResolved
    <3>2. /\ AskOK'
          /\ \A x \in Tools!Asks :
               \/ pending'[x] = pending[x] /\ results'[x] = results[x]
               \/ /\ x \in {r} /\ Tools!Open(x) /\ pending'[x] = "gone"
                  /\ results'[x] = <<TRUE>>
      BY <3>1, ResolveMoves
    <3>3. \A x \in Tools!Asks : AskMove(x)
      BY <2>2, <3>1, <3>2 DEF AskMove
    <3> QED  BY <3>2, <3>3
  <2>3. CASE pending[r] = "responding" /\ ~(r \in Tools!ToolRequests /\ tools[r[1]].state = "done")
    <3>1. pending' = [pending EXCEPT ![r] = "resolved"] /\ UNCHANGED <<results, waiting>>
      BY <2>3 DEF Tools!RequestResolved
    <3>2. Tools!OpenAsks' = Tools!OpenAsks
      BY <2>3, <3>1 DEF AskOK, Tools!OpenAsks, Tools!Open
    <3> QED  BY <2>3, <3>1, <3>2 DEF AskOK, AskMove
  <2>4. CASE pending[r] = "resolved"
    BY <2>4, AsksUntouched DEF Tools!RequestResolved
  <2> QED  BY <2>1, <2>2, <2>3, <2>4 DEF Tools!RequestResolved, Tools!Open
<1> QED
  BY <1>1, AskStepInv DEF RestOK, Tools!RequestResolved, Tools!FailUnknown, Tools!callVars
\* item/started of a tool: it is open now, or the attempt has failed.
LEMMA ItemStartedInv ==
  ASSUME TurnInv, Tools!ToolsAssumption, NEW i \in Tools!Items, Tools!ItemStarted(i)
  PROVE  TurnInv'
<1> USE DEF TurnInv
<1>1. AskOK' /\ \A r \in Tools!Asks : AskMove(r)
  BY ConfirmMoves DEF Tools!ItemStarted
<1>2. \/ tools' = tools
      \/ tools[i].state = "none" /\ tools' = [tools EXCEPT ![i].state = "open"]
      \/ tools[i].state = "open" /\ tools' = [tools EXCEPT ![i].byRequest = FALSE]
  BY DEF Tools!ItemStarted
<1>3. RestOK'
  <2>1. tools' \in ToolTypes
    <3>1. CASE tools' = [tools EXCEPT ![i].state = "open"]
      BY <3>1 DEF RestOK, ToolTypes
    <3>2. CASE tools' = [tools EXCEPT ![i].byRequest = FALSE]
      BY <3>2 DEF RestOK, ToolTypes
    <3> QED  BY <1>2, <3>1, <3>2 DEF RestOK
  <2> QED  BY <2>1 DEF RestOK, Tools!ItemStarted, Tools!FailUnknown, Tools!callVars
<1>4. \A j \in Tools!Items : ItemMove(j)
  BY <1>2 DEF RestOK, ToolTypes, ItemMove
<1>5. \A r \in Tools!Asks : CallMove(r)
  BY DEF CallMove, Tools!ItemStarted, Tools!callVars
<1>6. outcome' = outcome \/ (outcome = "running" /\ outcome' = "unknown")
  BY DEF Tools!ItemStarted, Tools!FailUnknown
<1>7. AskInv' /\ ItemInv' /\ RequestInv' /\ RunInv'
  BY <1>1, <1>3, <1>4, <1>5, <1>6, MoveInv DEF Tools!ItemStarted, OutcomeMove, Tools!callVars
<1>8. FinishInv'
  BY <1>6, FinishUntouched DEF Tools!ItemStarted
<1> QED  BY <1>1, <1>3, <1>7, <1>8

\* item/completed: the tool is done with the effect that was reported of it.
LEMMA ItemCompletedInv ==
  ASSUME TurnInv, Tools!ToolsAssumption, NEW i \in Tools!Items, Tools!ItemCompleted(i)
  PROVE  TurnInv'
<1> USE DEF TurnInv
<1>1. CASE /\ ~Tools!MayExpect(i) /\ tools[i].state = "open" /\ Tools!Completes(i)
           /\ answerable' = answerable \ {x \in Tools!ToolRequests : x[1] = i}
  <2> DEFINE ids == Tools!Confirmed
                      \cup {r \in Tools!ToolRequests : r[1] = i /\ Tools!Responding(r)}
  <2>1. /\ tools' = [tools EXCEPT ![i].state = "done"] /\ tools'[i].state = "done"
        /\ Tools!Resolve(ids, TRUE)
        /\ outcome' = IF tools[i].effect = "unknown" /\ outcome = "running"
                      THEN "unknown" ELSE outcome
    BY <1>1 DEF Tools!Completes, Tools!FailUnknownIf, RestOK, ToolTypes
  <2>2. \A r \in ids : r \in Tools!ToolRequests => r[1] = i
    BY DEF Tools!Confirmed, Tools!ToolsAssumption
  <2> HIDE DEF ids
  <2>3. /\ AskOK'
        /\ \A x \in Tools!Asks :
             \/ pending'[x] = pending[x] /\ results'[x] = results[x]
             \/ /\ x \in ids /\ Tools!Open(x) /\ pending'[x] = "gone"
                /\ results'[x] = <<TRUE>>
    BY <2>1, ResolveMoves
  <2>4. \A r \in Tools!Asks : AskMove(r)
    BY <2>1, <2>2, <2>3 DEF AskMove
  <2>5. RestOK'
    <3>1. tools' \in ToolTypes
      BY <2>1 DEF RestOK, ToolTypes
    <3> QED  BY <1>1, <2>1, <3>1 DEF RestOK, Tools!ItemCompleted, Tools!callVars
  <2>6. \A j \in Tools!Items : ItemMove(j)
    BY <1>1, <2>1 DEF RestOK, ToolTypes, ItemMove, Tools!MayExpect
  <2>7. \A r \in Tools!Asks : CallMove(r)
    BY DEF CallMove, Tools!ItemCompleted, Tools!callVars
  <2>8. AskInv' /\ ItemInv' /\ RequestInv' /\ RunInv'
    BY <2>1, <2>3, <2>4, <2>5, <2>6, <2>7, MoveInv
    DEF Tools!ItemCompleted, OutcomeMove, Tools!callVars
  <2>9. FinishInv'
    BY <2>1, FinishUntouched DEF Tools!ItemCompleted, Tools!ReaderIdle
  <2> QED  BY <2>3, <2>5, <2>8, <2>9
<1>2. CASE /\ Tools!Resolve(Tools!Confirmed, TRUE) /\ Tools!FailUnknown
           /\ UNCHANGED <<tools, answerable>>
  <2>1. AskOK' /\ \A r \in Tools!Asks : AskMove(r)
    BY <1>2, ConfirmMoves
  <2> QED
    BY <1>2, <2>1, AskStepInv DEF RestOK, Tools!ItemCompleted, Tools!FailUnknown, Tools!callVars
<1> QED  BY <1>1, <1>2 DEF Tools!ItemCompleted

\* finish begins, and cancels the tools.
LEMMA FinishBeginsInv ==
  ASSUME TurnInv, NEW ends \in BOOLEAN,
         NEW status \in {"completed", "interrupted", "rejected", "failed"},
         status = "rejected" => ends, Tools!FinishBegins(status, ends)
  PROVE  TurnInv'
<1> USE DEF TurnInv
<1>1. AskOK' /\ \A r \in Tools!Asks : AskMove(r)
  BY AsksUntouched DEF Tools!FinishBegins
<1>2. RestOK'
  BY DEF RestOK, Tools!FinishBegins, Tools!callVars
<1>3. AskInv' /\ ItemInv' /\ RequestInv' /\ RunInv'
  BY <1>1, <1>2, MoveInv
  DEF Tools!FinishBegins, OutcomeMove, CallMove, ItemMove, Tools!callVars
<1>4. finishing' \in [step : {"no", "questions", "approvals"},
                      status : {"none", "completed", "interrupted", "rejected", "failed"},
                      ids : SUBSET Tools!Asks, unconfirmed : BOOLEAN]
  BY DEF Tools!FinishBegins, Tools!Asks
<1>5. finishing'.status = status
  BY DEF Tools!FinishBegins
<1>6. FinishInv'
  BY <1>4, <1>5 DEF FinishInv, Tools!FinishBegins
<1> QED  BY <1>1, <1>2, <1>3, <1>6

\* It refuses the open questions, then the open approvals.
LEMMA FinishQuestionsInv ==
  ASSUME TurnInv, Tools!FinishQuestions
  PROVE  TurnInv'
<1> USE DEF TurnInv
<1>1. AskOK' /\ \A r \in Tools!Asks : AskMove(r)
  BY RefuseMoves DEF Tools!FinishQuestions
<1>2. RestOK'
  BY DEF RestOK, Tools!FinishQuestions, Tools!callVars
<1>3. AskInv' /\ ItemInv' /\ RequestInv' /\ RunInv'
  BY <1>1, <1>2, MoveInv
  DEF Tools!FinishQuestions, OutcomeMove, CallMove, ItemMove, Tools!callVars
<1>4. /\ finishing' \in [step : {"no", "questions", "approvals"},
                         status : {"none", "completed", "interrupted", "rejected", "failed"},
                         ids : SUBSET Tools!Asks, unconfirmed : BOOLEAN]
      /\ finishing'.status = finishing.status
  BY DEF Tools!FinishQuestions, FinishInv, Tools!Asks
<1>5. FinishInv'
  BY <1>4 DEF FinishInv, Tools!FinishQuestions
<1> QED  BY <1>1, <1>2, <1>3, <1>5

\* Nothing was executed, if that is what it says.
LEMMA FinishEndsInv ==
  ASSUME TurnInv, Tools!FinishEnds
  PROVE  TurnInv'
<1> USE DEF TurnInv
<1>1. AskOK' /\ \A r \in Tools!Asks : AskMove(r)
  BY RefuseMoves DEF Tools!FinishEnds
<1>2. /\ finishing.status \in {"completed", "interrupted", "rejected", "failed"}
      /\ stopped /\ (finishing.status = "rejected" => over)
  BY DEF FinishInv, Tools!FinishEnds
<1>3. /\ outcome' = outcome \/ outcome = "running"
      /\ outcome' \in {"running", "unknown", "completed", "interrupted", "failed_none",
                       "failed_unknown"}
  BY <1>2 DEF Tools!FinishEnds, Tools!Finished, RestOK
<1>4. RestOK'
  BY <1>3 DEF RestOK, Tools!FinishEnds, Tools!callVars
<1>5. AskInv' /\ ItemInv' /\ RequestInv' /\ RunInv'
  BY <1>1, <1>3, <1>4, MoveInv
  DEF Tools!FinishEnds, OutcomeMove, CallMove, ItemMove, Tools!callVars
<1>6. outcome' = "failed_none" =>
        over /\ \A i \in Tools!Items : tools[i].state = "none"
  BY <1>2 DEF Tools!FinishEnds, Tools!Finished, FinishInv
<1>7. FinishInv'
  BY <1>2, <1>6 DEF FinishInv, Tools!FinishEnds, Tools!NotFinishing
<1> QED  BY <1>1, <1>4, <1>5, <1>7
\* item/tool/call of an item nobody requested before: the item has no request at
\* work, and nothing of it ran.
LEMMA ToolRequestInv ==
  ASSUME TurnInv, Tools!ToolsAssumption, NEW r \in Tools!ToolRequests, Tools!ToolRequest(r)
  PROVE  TurnInv'
<1> USE DEF TurnInv
<1> DEFINE i == r[1]
<1>1. r \in Tools!Asks /\ i \in Tools!Items /\ r # <<>> /\ pending[r] = "none"
  BY DEF Tools!Asks, Tools!ToolRequests, Tools!ToolRequest
<1>2. /\ tools[i].request = <<>> /\ tools[i].state # "done" /\ tools[i].effect = "unset"
      /\ runs[i] = 0
  BY <1>1 DEF Tools!ToolRequest, Tools!Claims, ItemInv
<1>3. \A x \in Tools!ToolRequests : x[1] = i => pending[x] = "none" /\ x \notin reading
  <2>1. \A x \in Tools!ToolRequests : x # <<>>
    BY DEF Tools!ToolRequests
  <2> QED  BY <1>2, <2>1 DEF RequestInv
<1>4. r \notin Questions /\ r[1] \notin Reads \cap Writes
  BY DEF Tools!ToolsAssumption
<1>5. ~over /\ outcome' = outcome
  BY DEF Tools!ToolRequest
<1>6. PICK effect \in {"unset", "none"} :
        /\ tools'[i].state = "open" /\ tools'[i].request = r /\ tools'[i].effect = effect
        /\ effect = "unset" \/ UNCHANGED <<reading, runs, Tools!askVars>>
        /\ \A j \in Tools!Items : j # i => tools'[j] = tools[j]
        /\ tools' \in ToolTypes
  <2> DEFINE c == Tools!Claimed(i, r)
  <2>1. /\ c[i].state = "open" /\ c[i].request = r /\ c[i].effect = "unset"
        /\ \A j \in Tools!Items : j # i => c[j] = tools[j]
        /\ c \in ToolTypes
    <3>1. PICK b \in BOOLEAN :
            c = [tools EXCEPT ![i].state = "open", ![i].request = r, ![i].byRequest = b]
      BY DEF Tools!Claimed
    <3>2. tools \in ToolTypes
      BY DEF RestOK
    <3> HIDE DEF c
    <3> QED  BY <1>1, <1>2, <3>1, <3>2 DEF ToolTypes
  <2>2. \/ tools' = c
        \/ /\ tools' = [c EXCEPT ![i].effect = "none"]
           /\ UNCHANGED <<reading, runs, Tools!askVars>>
    BY DEF Tools!ToolRequest
  <2> HIDE DEF c
  <2>3. CASE tools' = c
    BY <2>1, <2>3
  <2>4. CASE /\ tools' = [c EXCEPT ![i].effect = "none"]
             /\ UNCHANGED <<reading, runs, Tools!askVars>>
    BY <1>1, <2>1, <2>4 DEF ToolTypes
  <2> QED  BY <2>2, <2>3, <2>4
<1>7. \/ i \in Reads /\ reading' = reading \cup {r} /\ UNCHANGED Tools!askVars
         /\ runs' = [runs EXCEPT ![i] = IF stopped THEN @ ELSE @ + 1]
      \/ i \in Writes /\ UNCHANGED <<reading, runs, results>>
         /\ pending' = [pending EXCEPT ![r] = "asked"] /\ waiting' = waiting + 1
      \/ UNCHANGED <<reading, runs, Tools!askVars>>
  BY DEF Tools!ToolRequest
<1>8. AskOK'
  BY <1>1, <1>7, AskedMoves, AsksUntouched
<1>9. RestOK'
  <2>1. /\ answerable' \subseteq Tools!Asks
        /\ answered' \subseteq Tools!Asks /\ answered \subseteq answered'
    BY <1>1 DEF Tools!ToolRequest, RestOK
  <2>2. reading' \subseteq Tools!ToolRequests /\ runs' \in [Tools!Items -> Nat]
    BY <1>7 DEF RestOK
  <2> QED  BY <1>6, <2>1, <2>2 DEF Tools!ToolRequest, RestOK, Tools!callVars
<1>10. UNCHANGED <<answer, allow, results, finishing, stopped, over>>
       /\ answered \subseteq answered'
  BY DEF Tools!ToolRequest, Tools!callVars, Tools!askVars
<1>11. /\ \A x \in Tools!Asks : x # r => pending'[x] = pending[x]
       /\ pending'[r] = "none" \/ (pending'[r] = "asked" /\ i \in Writes
                                   /\ tools'[i].effect = "unset")
  <2>1. CASE pending' = pending
    BY <1>1, <2>1
  <2>2. CASE i \in Writes /\ pending' = [pending EXCEPT ![r] = "asked"]
    <3>1. pending' # pending
      BY <1>1, <2>2 DEF AskOK
    <3> QED  BY <1>1, <1>6, <2>2, <3>1 DEF AskOK, Tools!askVars
  <2> QED  BY <1>7, <2>1, <2>2 DEF Tools!askVars
<1>12. AskInv'
  <2>1. answer[r] = "none" /\ results[r] = <<>>
    BY <1>1 DEF AskInv
  <2> QED  BY <1>10, <1>11, <2>1 DEF AskInv
<1>13. /\ runs'[i] = 0 \/ (i \in Reads /\ runs'[i] = 1)
       /\ \A j \in Tools!Items : j # i => runs'[j] = runs[j]
  BY <1>1, <1>2, <1>7 DEF RestOK
<1>14. ItemInv'
  BY <1>1, <1>5, <1>6, <1>13 DEF ItemInv
<1>15. RunInv'
  <2> SUFFICES ASSUME NEW j \in Tools!Items
               PROVE  /\ runs'[j] <= 1
                      /\ j \in Writes /\ runs'[j] = 1 =>
                           /\ tools'[j].request \in allow'
                           /\ answer'[tools'[j].request]
                                \notin {"none", "check", "run", "decline"}
    BY DEF RunInv
  <2>1. CASE j = i
    BY <1>4, <1>13, <2>1
  <2>2. CASE j # i
    BY <1>6, <1>10, <1>13, <2>2 DEF RunInv
  <2> QED  BY <2>1, <2>2
<1>16. RequestInv'
  <2> SUFFICES ASSUME NEW x \in Tools!ToolRequests
               PROVE  /\ pending'[x] # "none" => x[1] \in Writes /\ tools'[x[1]].request = x
                      /\ x \in reading' => x[1] \in Reads /\ tools'[x[1]].request = x
                      /\ (\/ pending'[x] = "asked" \/ x \in reading'
                          \/ answer'[x] \in {"check", "run", "decline", "running"})
                         => Tools!MayExpect(x[1])'
                      /\ answer'[x] \in {"run", "running"} => x \in allow'
                      /\ results'[x] = <<TRUE>> \/ answer'[x] = "applied"
                         => tools'[x[1]].state = "done"
    BY DEF RequestInv, Tools!MayExpect
  <2>1. x \in Tools!Asks /\ x[1] \in Tools!Items
    BY DEF Tools!Asks, Tools!ToolRequests
  <2>2. x # r => (x \in reading' <=> x \in reading)
    BY <1>7
  <2>3. r \in reading' => i \in Reads /\ tools'[i].effect = "unset"
    BY <1>3, <1>6, <1>7
  <2>4. CASE x[1] = i
    <3>1. pending[x] = "none" /\ x \notin reading
      BY <1>3, <2>4
    <3>2. answer[x] = "none" /\ results[x] = <<>>
      BY <2>1, <3>1 DEF AskInv
    <3>3. CASE x = r
      BY <1>6, <1>10, <1>11, <2>3, <3>2, <3>3 DEF Tools!MayExpect
    <3>4. CASE x # r
      BY <1>10, <1>11, <2>1, <2>2, <3>1, <3>2, <3>4
    <3> QED  BY <3>3, <3>4
  <2>5. CASE x[1] # i
    <3>1. tools'[x[1]] = tools[x[1]] /\ x # r
      BY <1>6, <2>1, <2>5
    <3>2. /\ pending[x] # "none" => x[1] \in Writes /\ tools[x[1]].request = x
          /\ x \in reading => x[1] \in Reads /\ tools[x[1]].request = x
          /\ (\/ pending[x] = "asked" \/ x \in reading
              \/ answer[x] \in {"check", "run", "decline", "running"}) => Tools!MayExpect(x[1])
          /\ answer[x] \in {"run", "running"} => x \in allow
          /\ results[x] = <<TRUE>> \/ answer[x] = "applied" => tools[x[1]].state = "done"
      BY DEF RequestInv
    <3>3. pending'[x] = pending[x] /\ (x \in reading' <=> x \in reading)
      BY <1>11, <2>1, <2>2, <3>1
    <3> QED  BY <1>10, <3>1, <3>2, <3>3 DEF Tools!MayExpect
  <2> QED  BY <2>4, <2>5
<1>17. FinishInv'
  BY <1>5, <1>10 DEF FinishInv
<1> QED  BY <1>8, <1>9, <1>12, <1>14, <1>15, <1>16, <1>17

\* An effect is recorded of an item.
LEMMA EffectTyped ==
  ASSUME NEW t \in ToolTypes, NEW i \in Tools!Items, NEW effect \in {"none", "known", "unknown"}
  PROVE  [t EXCEPT ![i].effect = effect] \in ToolTypes
BY DEF ToolTypes

\* The effect of a request's runner is recorded, once.
LEMMA EffectInv ==
  ASSUME TurnInv, NEW r \in Tools!ToolRequests, tools[r[1]].request = r,
         Tools!MayExpect(r[1]), pending[r] # "asked",
         NEW effect \in {"none", "known", "unknown"},
         tools' = [tools EXCEPT ![r[1]].effect = effect],
         AskOK', UNCHANGED <<pending, results, runs, allow, finishing, stopped, over>>,
         RestOK', answered \subseteq answered',
         outcome' = outcome \/ (outcome = "running" /\ outcome' = "unknown"),
         \/ answer' = answer /\ reading' = reading \ {r} /\ pending[r] = "none"
         \/ /\ answer' = [answer EXCEPT ![r] = "respond"] /\ reading' = reading
            /\ pending[r] # "none" /\ answer[r] # "none" /\ r \notin reading
  PROVE  TurnInv'
<1> USE DEF TurnInv
<1>1. r \in Tools!Asks /\ r[1] \in Tools!Items
  BY DEF Tools!Asks, Tools!ToolRequests
<1>2. /\ tools'[r[1]].state = "open" /\ tools'[r[1]].request = r
      /\ tools'[r[1]].effect = effect /\ effect # "unset"
      /\ \A j \in Tools!Items : j # r[1] => tools'[j] = tools[j]
      /\ tools[r[1]].state = "open"
  BY <1>1 DEF RestOK, ToolTypes, Tools!MayExpect
<1>3. /\ \A x \in Tools!Asks : x # r => answer'[x] = answer[x]
      /\ answer'[r] = answer[r] \/ answer'[r] = "respond"
  BY <1>1 DEF RestOK
<1>4. AskInv'
  BY <1>1, <1>3 DEF AskInv, RestOK
<1>5. r # <<>>
  BY DEF Tools!ToolRequests
<1>6. ItemInv'
  BY <1>1, <1>2, <1>5 DEF ItemInv
<1>7. RunInv'
  <2> SUFFICES ASSUME NEW j \in Tools!Items
               PROVE  /\ runs'[j] <= 1
                      /\ j \in Writes /\ runs'[j] = 1 =>
                           /\ tools'[j].request \in allow'
                           /\ answer'[tools'[j].request]
                                \notin {"none", "check", "run", "decline"}
    BY DEF RunInv
  <2>1. tools'[j].request = tools[j].request
    BY <1>2
  <2>2. tools[j].request \in allow => tools[j].request \in Tools!Asks
    BY DEF RestOK, Tools!Asks
  <2> QED  BY <1>3, <2>1, <2>2 DEF RunInv
<1>8. RequestInv'
  <2> SUFFICES ASSUME NEW x \in Tools!ToolRequests
               PROVE  /\ pending'[x] # "none" => x[1] \in Writes /\ tools'[x[1]].request = x
                      /\ x \in reading' => x[1] \in Reads /\ tools'[x[1]].request = x
                      /\ (\/ pending'[x] = "asked" \/ x \in reading'
                          \/ answer'[x] \in {"check", "run", "decline", "running"})
                         => Tools!MayExpect(x[1])'
                      /\ answer'[x] \in {"run", "running"} => x \in allow'
                      /\ results'[x] = <<TRUE>> \/ answer'[x] = "applied"
                         => tools'[x[1]].state = "done"
    BY DEF RequestInv, Tools!MayExpect
  <2>1. x \in Tools!Asks /\ x[1] \in Tools!Items
    BY DEF Tools!Asks, Tools!ToolRequests
  <2>2. /\ pending[x] # "none" => x[1] \in Writes /\ tools[x[1]].request = x
        /\ x \in reading => x[1] \in Reads /\ tools[x[1]].request = x
        /\ (\/ pending[x] = "asked" \/ x \in reading
            \/ answer[x] \in {"check", "run", "decline", "running"}) => Tools!MayExpect(x[1])
        /\ answer[x] \in {"run", "running"} => x \in allow
        /\ results[x] = <<TRUE>> \/ answer[x] = "applied" => tools[x[1]].state = "done"
    BY DEF RequestInv
  <2>3. /\ answer[x] # "none" => pending[x] # "none"
        /\ results[x] # <<>> => pending[x] # "none"
    BY <2>1 DEF AskInv
  <2>4. CASE x = r
    <3>1. x \notin reading'
      BY <2>4
    <3>2. answer'[x] \notin {"check", "run", "decline", "running"}
      BY <1>1, <2>3, <2>4 DEF RestOK
    <3>3. results[x] # <<TRUE>> /\ answer[x] # "applied"
      BY <1>2, <2>2, <2>4
    <3>4. answer'[x] # "applied"
      BY <1>3, <2>4, <3>3
    <3> QED  BY <1>2, <2>2, <2>4, <3>1, <3>2, <3>3, <3>4
  <2>5. CASE x # r /\ x[1] = r[1]
    <3>1. pending[x] = "none" /\ x \notin reading
      BY <2>2, <2>5
    <3>2. answer[x] = "none" /\ results[x] = <<>>
      BY <2>3, <3>1
    <3> QED  BY <1>3, <2>1, <2>5, <3>1, <3>2
  <2>6. CASE x[1] # r[1]
    <3>1. tools'[x[1]] = tools[x[1]] /\ answer'[x] = answer[x]
      BY <1>2, <1>3, <2>1, <2>6
    <3> QED  BY <2>2, <3>1 DEF Tools!MayExpect
  <2> QED  BY <2>4, <2>5, <2>6
<1>9. FinishInv'
  BY <1>1, <1>2 DEF FinishInv
<1> QED  BY <1>4, <1>6, <1>7, <1>8, <1>9
\* A read command returns: its tool has no effect, and the answer is written.
LEMMA ReadEndsInv ==
  ASSUME TurnInv, Tools!ToolsAssumption, NEW r \in Tools!ToolRequests, Tools!ReadEnds(r)
  PROVE  TurnInv'
<1> USE DEF TurnInv
<1>1. r \in Tools!Asks /\ r[1] \in Tools!Items
  BY DEF Tools!Asks, Tools!ToolRequests
<1>2. /\ r \in reading /\ r[1] \in Reads /\ tools[r[1]].request = r /\ Tools!MayExpect(r[1])
      /\ pending[r] = "none"
  BY DEF Tools!ReadEnds, RequestInv, Tools!ToolsAssumption
<1>3. tools' = [tools EXCEPT ![r[1]].effect = "none"]
  BY <1>2 DEF Tools!ReadEnds
<1>4. AskOK'
  BY AsksUntouched DEF Tools!ReadEnds
<1>5. RestOK'
  <2>1. tools' \in ToolTypes
    BY <1>1, <1>3, EffectTyped DEF RestOK
  <2>2. answerable' \subseteq Tools!Asks /\ answered' \subseteq Tools!Asks
    BY <1>1 DEF Tools!ReadEnds, RestOK
  <2>3. outcome' \in {"running", "unknown", "completed", "interrupted", "failed_none",
                      "failed_unknown"}
    BY DEF Tools!ReadEnds, RestOK, Tools!FailUnknownIf
  <2> QED  BY <2>1, <2>2, <2>3 DEF Tools!ReadEnds, RestOK, Tools!callVars
<1>6. outcome' = outcome \/ (outcome = "running" /\ outcome' = "unknown")
  BY DEF Tools!ReadEnds, Tools!FailUnknownIf
<1> QED
  BY <1>2, <1>3, <1>4, <1>5, <1>6, EffectInv DEF Tools!ReadEnds, Tools!askVars, Tools!callVars

\* The runner of an approved tool returns, or the tool is declined.
LEMMA RunReturnsInv ==
  ASSUME TurnInv, Tools!ToolsAssumption, NEW r \in Tools!ToolRequests, Tools!RunReturns(r)
  PROVE  TurnInv'
<1> USE DEF TurnInv
<1>1. r \in Tools!Asks /\ r[1] \in Tools!Items
  BY DEF Tools!Asks, Tools!ToolRequests
<1>2. answer[r] \in {"running", "decline"}
  BY DEF Tools!RunReturns
<1>3. /\ pending[r] # "none" /\ pending[r] # "asked" /\ tools[r[1]].request = r
      /\ Tools!MayExpect(r[1]) /\ r[1] \in Writes
  BY <1>1, <1>2 DEF AskInv, RequestInv
<1>4. r \notin reading
  BY <1>3 DEF RequestInv, Tools!ToolsAssumption
<1>5. PICK effect \in {"none", "known", "unknown"} :
        tools' = [tools EXCEPT ![r[1]].effect = effect]
  BY <1>3 DEF Tools!RunReturns
<1>6. answer' = [answer EXCEPT ![r] = "respond"] /\ UNCHANGED <<answerable, Tools!askVars,
                                                                outcome>>
  BY <1>3 DEF Tools!RunReturns
<1>7. AskOK'
  BY <1>6, AsksUntouched
<1>8. RestOK'
  <2>1. tools' \in ToolTypes
    BY <1>1, <1>5, EffectTyped DEF RestOK
  <2>2. answer' \in [Tools!Asks -> Tools!Calls]
    BY <1>1, <1>6 DEF RestOK, Tools!Calls
  <2> QED  BY <1>6, <2>1, <2>2 DEF Tools!RunReturns, RestOK
<1> QED
  BY <1>2, <1>3, <1>4, <1>5, <1>6, <1>7, <1>8, EffectInv DEF Tools!RunReturns, Tools!askVars

\* The steps of a call that change no item.
LEMMA CallStepInv ==
  ASSUME TurnInv, AskOK', \A x \in Tools!Asks : AskMove(x), NEW r \in Tools!Asks,
         NEW state \in Tools!Calls,
         answer' = [answer EXCEPT ![r] = state], CallMove(r),
         UNCHANGED <<tools, reading, runs, stopped, allow, observed, finishing, up, exitOwed,
                     over>>,
         answerable' \subseteq Tools!Asks, answered \subseteq answered',
         answered' \subseteq Tools!Asks,
         outcome' = outcome \/ (outcome = "running" /\ outcome' = "unknown")
  PROVE  TurnInv'
<1> USE DEF TurnInv
<1>1. RestOK'
  BY DEF RestOK
<1>2. \A x \in Tools!Asks : CallMove(x)
  <2>1. \A x \in Tools!Asks : x # r => answer'[x] = answer[x]
    BY DEF RestOK
  <2> QED  BY <2>1 DEF CallMove
<1>3. AskInv' /\ ItemInv' /\ RequestInv' /\ RunInv'
  BY <1>1, <1>2, MoveInv DEF OutcomeMove, ItemMove
<1>4. FinishInv'
  BY FinishUntouched
<1> QED  BY <1>1, <1>3, <1>4

\* An answer that could not be given.
LEMMA AnswerFailsInv ==
  ASSUME TurnInv, NEW r \in Tools!Asks, answer[r] # "none", Tools!AnswerFails(r),
         UNCHANGED <<tools, answered, reading, runs, stopped, allow, observed, finishing, up,
                     exitOwed, over>>
  PROVE  TurnInv'
<1>1. AskOK' /\ \A x \in Tools!Asks : AskMove(x)
  BY RefuseMoves DEF Tools!AnswerFails, TurnInv
<1>2. answer' = [answer EXCEPT ![r] = "unknown"] /\ "unknown" \in Tools!Calls
  BY DEF Tools!AnswerFails, Tools!Calls
<1>3. answer'[r] = "unknown"
  BY <1>2 DEF TurnInv, RestOK
<1>4. CallMove(r)
  BY <1>3 DEF CallMove
<1> QED
  BY <1>1, <1>2, <1>4, CallStepInv DEF Tools!AnswerFails, Tools!FailUnknown, TurnInv, RestOK

\* The tool is looked at again.
LEMMA CheckInv ==
  ASSUME TurnInv, NEW r \in Tools!ToolRequests, Tools!Check(r)
  PROVE  TurnInv'
<1>1. r \in Tools!Asks /\ answer[r] = "check"
  BY DEF Tools!Asks, Tools!Check
<1>2. CASE tools[r[1]].state = "open"
  <2>1. AskOK' /\ \A x \in Tools!Asks : AskMove(x)
    BY <1>2, AsksUntouched DEF Tools!Check, TurnInv
  <2>2. PICK state \in {"run", "decline"} :
          answer' = [answer EXCEPT ![r] = state] /\ (state = "run" => r \in allow)
    BY <1>2 DEF Tools!Check
  <2>3. answer'[r] = state
    BY <1>1, <2>2 DEF TurnInv, RestOK
  <2>4. CallMove(r) /\ state \in Tools!Calls
    BY <1>1, <2>2, <2>3 DEF CallMove, Tools!Calls
  <2> QED
    BY <1>1, <1>2, <2>1, <2>2, <2>4, CallStepInv DEF Tools!Check, TurnInv, RestOK
<1>3. CASE tools[r[1]].state # "open"
  BY <1>1, <1>3, AnswerFailsInv DEF Tools!Check
<1> QED  BY <1>2, <1>3

\* The answer is written, or it is too late.
LEMMA RespondInv ==
  ASSUME TurnInv, NEW r \in Tools!Asks, Tools!Respond(r)
  PROVE  TurnInv'
<1>1. CASE Tools!CanRespond(r)
  <2>1. AskOK' /\ \A x \in Tools!Asks : AskMove(x)
    BY <1>1, AsksUntouched DEF Tools!Respond, TurnInv
  <2>2. answer' = [answer EXCEPT ![r] = "wait"] /\ answered' = answered \cup {r}
    BY <1>1 DEF Tools!Respond
  <2>3. answer'[r] = "wait"
    BY <2>2 DEF TurnInv, RestOK
  <2>4. CallMove(r) /\ "wait" \in Tools!Calls
    BY <2>2, <2>3 DEF CallMove, Tools!Calls, Tools!Respond
  <2> QED
    BY <1>1, <2>1, <2>2, <2>4, CallStepInv DEF Tools!Respond, TurnInv, RestOK
<1>2. CASE ~Tools!CanRespond(r)
  BY <1>2, AnswerFailsInv DEF Tools!Respond
<1> QED  BY <1>1, <1>2

\* The wait ends.
LEMMA WaitEndsInv ==
  ASSUME TurnInv, NEW r \in Tools!Asks, Tools!Wait(r) \/ Tools!WaitTimesOut(r)
  PROVE  TurnInv'
<1>1. AskOK' /\ \A x \in Tools!Asks : AskMove(x)
  BY AsksUntouched DEF Tools!Wait, Tools!WaitTimesOut, TurnInv
<1>2. PICK state \in {"applied", "unknown"} :
        answer' = [answer EXCEPT ![r] = state] /\ (state = "applied" => results[r] = <<TRUE>>)
  <2>1. results[r] \in {<<>>, <<TRUE>>, <<FALSE>>}
    BY DEF TurnInv, AskOK
  <2>2. <<FALSE>>[1] = FALSE
    OBVIOUS
  <2>3. results[r] # <<>> /\ results[r][1] => results[r] = <<TRUE>>
    BY <2>1, <2>2
  <2> QED  BY <2>3 DEF Tools!Wait, Tools!WaitTimesOut
<1>3. answer[r] = "wait" /\ answer'[r] = state /\ state \in Tools!Calls
  BY <1>2 DEF Tools!Wait, Tools!WaitTimesOut, TurnInv, RestOK, Tools!Calls
<1>4. CallMove(r)
  BY <1>2, <1>3 DEF CallMove
<1>5. /\ UNCHANGED <<tools, answerable, answered, reading, runs, stopped, allow, observed,
                     finishing, up, exitOwed, over>>
      /\ outcome' = outcome \/ (outcome = "running" /\ outcome' = "unknown")
  BY DEF Tools!Wait, Tools!WaitTimesOut, Tools!FailUnknown, Tools!toolVars
<1> QED
  BY <1>1, <1>2, <1>3, <1>4, <1>5, CallStepInv DEF TurnInv, RestOK
\* The operator answers: the tool is open, and nothing is known of it.
LEMMA AnswerInv ==
  ASSUME TurnInv, Tools!ToolsAssumption, NEW r \in Tools!Asks, Tools!Answer(r)
  PROVE  TurnInv'
<1> USE DEF TurnInv
<1>1. pending[r] = "asked" /\ answer[r] = "none" /\ results[r] = <<>>
  BY DEF Tools!Answer, Tools!MayRespond, AskInv
<1>2. /\ pending' = [pending EXCEPT ![r] = "responding"]
      /\ UNCHANGED <<Tools!toolVars, results, waiting, Tools!turnVars>>
  BY DEF Tools!Answer
<1>3. PICK state \in {"respond", "check"} :
        /\ answer' = [answer EXCEPT ![r] = state]
        /\ state = "respond" => r \notin Tools!ToolRequests
  BY DEF Tools!Answer, Tools!ToolsAssumption
<1>4. allow \subseteq allow' /\ allow' \subseteq Tools!ToolRequests
  BY DEF Tools!Answer, RestOK
<1>5. AskOK'
  <2>1. Tools!OpenAsks' = Tools!OpenAsks
    BY <1>1, <1>2 DEF AskOK, Tools!OpenAsks, Tools!Open
  <2> QED  BY <1>2, <2>1 DEF AskOK
<1>6. RestOK'
  <2>1. answer' \in [Tools!Asks -> Tools!Calls]
    BY <1>3 DEF RestOK, Tools!Calls
  <2> QED  BY <1>2, <1>4, <2>1 DEF RestOK, Tools!toolVars, Tools!turnVars
<1>7. /\ pending'[r] = "responding" /\ answer'[r] = state
      /\ \A x \in Tools!Asks : x # r => pending'[x] = pending[x] /\ answer'[x] = answer[x]
  BY <1>2, <1>3 DEF AskOK, RestOK
<1>8. AskInv'
  BY <1>1, <1>2, <1>7 DEF AskInv, Tools!toolVars
<1>9. ItemInv' /\ FinishInv'
  BY <1>2 DEF ItemInv, FinishInv, Tools!toolVars, Tools!turnVars
<1>10. RunInv'
  <2> SUFFICES ASSUME NEW i \in Tools!Items
               PROVE  /\ runs'[i] <= 1
                      /\ i \in Writes /\ runs'[i] = 1 =>
                           /\ tools'[i].request \in allow'
                           /\ answer'[tools'[i].request]
                                \notin {"none", "check", "run", "decline"}
    BY DEF RunInv
  <2>1. tools' = tools /\ runs' = runs
    BY <1>2 DEF Tools!toolVars
  <2>2. i \in Writes /\ runs[i] = 1 => tools[i].request \in Tools!Asks /\ tools[i].request # r
    BY <1>1 DEF RunInv, RestOK, Tools!Asks
  <2> QED  BY <1>4, <1>7, <2>1, <2>2 DEF RunInv
<1>11. RequestInv'
  <2> SUFFICES ASSUME NEW x \in Tools!ToolRequests
               PROVE  /\ pending'[x] # "none" => x[1] \in Writes /\ tools'[x[1]].request = x
                      /\ x \in reading' => x[1] \in Reads /\ tools'[x[1]].request = x
                      /\ (\/ pending'[x] = "asked" \/ x \in reading'
                          \/ answer'[x] \in {"check", "run", "decline", "running"})
                         => Tools!MayExpect(x[1])'
                      /\ answer'[x] \in {"run", "running"} => x \in allow'
                      /\ results'[x] = <<TRUE>> \/ answer'[x] = "applied"
                         => tools'[x[1]].state = "done"
    BY DEF RequestInv, Tools!MayExpect
  <2>1. x \in Tools!Asks
    BY DEF Tools!Asks
  <2>2. UNCHANGED <<tools, reading, results>>
    BY <1>2 DEF Tools!toolVars
  <2>3. /\ pending[x] # "none" => x[1] \in Writes /\ tools[x[1]].request = x
        /\ x \in reading => x[1] \in Reads /\ tools[x[1]].request = x
        /\ (\/ pending[x] = "asked" \/ x \in reading
            \/ answer[x] \in {"check", "run", "decline", "running"}) => Tools!MayExpect(x[1])
        /\ answer[x] \in {"run", "running"} => x \in allow
        /\ results[x] = <<TRUE>> \/ answer[x] = "applied" => tools[x[1]].state = "done"
    BY DEF RequestInv
  <2>4. Tools!MayExpect(x[1])' <=> Tools!MayExpect(x[1])
    BY <2>2 DEF Tools!MayExpect
  <2>5. CASE x = r
    BY <1>1, <1>7, <2>2, <2>3, <2>4, <2>5
  <2>6. CASE x # r
    BY <1>4, <1>7, <2>1, <2>2, <2>3, <2>4, <2>6
  <2> QED  BY <2>5, <2>6
<1> QED  BY <1>5, <1>6, <1>8, <1>9, <1>10, <1>11

\* The runner is given an item that did not run.
LEMMA RunStepInv ==
  ASSUME TurnInv, Tools!ToolsAssumption, NEW r \in Tools!ToolRequests, Tools!Run(r)
  PROVE  TurnInv'
<1> USE DEF TurnInv
<1> DEFINE i == r[1]
<1>1. r \in Tools!Asks /\ i \in Tools!Items /\ answer[r] = "run"
  BY DEF Tools!Asks, Tools!ToolRequests, Tools!Run
<1>2. /\ pending[r] \in {"responding", "resolved", "gone"}
      /\ i \in Writes /\ tools[i].request = r /\ Tools!MayExpect(i) /\ r \in allow
  BY <1>1 DEF AskInv, RequestInv
<1>3. runs[i] = 0
  <2>1. runs[i] # 1 /\ runs[i] <= 1 /\ runs[i] \in Nat
    BY <1>1, <1>2 DEF RunInv, RestOK
  <2> QED  BY <2>1
<1>4. /\ runs' = [runs EXCEPT ![i] = IF stopped THEN @ ELSE @ + 1]
      /\ answer' = [answer EXCEPT ![r] = "running"]
      /\ UNCHANGED <<tools, answerable, answered, reading, stopped, Tools!askVars, allow,
                     Tools!turnVars>>
  BY DEF Tools!Run
<1>5. /\ answer'[r] = "running" /\ \A x \in Tools!Asks : x # r => answer'[x] = answer[x]
      /\ runs'[i] \in {0, 1} /\ \A j \in Tools!Items : j # i => runs'[j] = runs[j]
      /\ runs' \in [Tools!Items -> Nat] /\ answer' \in [Tools!Asks -> Tools!Calls]
  BY <1>1, <1>3, <1>4 DEF RestOK, Tools!Calls
<1>6. AskOK'
  BY <1>4, AsksUntouched
<1>7. RestOK'
  BY <1>4, <1>5 DEF RestOK, Tools!turnVars
<1>8. AskInv'
  BY <1>2, <1>4, <1>5 DEF AskInv, Tools!askVars
<1>9. r # <<>>
  BY DEF Tools!ToolRequests
<1>10. ItemInv' /\ FinishInv'
  BY <1>1, <1>2, <1>4, <1>5, <1>9 DEF ItemInv, FinishInv, Tools!turnVars
<1>11. RunInv'
  <2> SUFFICES ASSUME NEW j \in Tools!Items
               PROVE  /\ runs'[j] <= 1
                      /\ j \in Writes /\ runs'[j] = 1 =>
                           /\ tools'[j].request \in allow'
                           /\ answer'[tools'[j].request]
                                \notin {"none", "check", "run", "decline"}
    BY DEF RunInv
  <2>1. CASE j = i
    BY <1>2, <1>4, <1>5, <2>1
  <2>2. CASE j # i
    <3>1. /\ runs[j] <= 1
          /\ j \in Writes /\ runs[j] = 1 =>
               /\ tools[j].request \in allow
               /\ answer[tools[j].request] \notin {"none", "check", "run", "decline"}
      BY DEF RunInv
    <3>2. tools[j].request \in allow => tools[j].request \in Tools!Asks
      BY DEF RestOK, Tools!Asks
    <3> QED  BY <1>1, <1>4, <1>5, <2>2, <3>1, <3>2
  <2> QED  BY <2>1, <2>2
<1>12. RequestInv'
  <2> SUFFICES ASSUME NEW x \in Tools!ToolRequests
               PROVE  /\ pending'[x] # "none" => x[1] \in Writes /\ tools'[x[1]].request = x
                      /\ x \in reading' => x[1] \in Reads /\ tools'[x[1]].request = x
                      /\ (\/ pending'[x] = "asked" \/ x \in reading'
                          \/ answer'[x] \in {"check", "run", "decline", "running"})
                         => Tools!MayExpect(x[1])'
                      /\ answer'[x] \in {"run", "running"} => x \in allow'
                      /\ results'[x] = <<TRUE>> \/ answer'[x] = "applied"
                         => tools'[x[1]].state = "done"
    BY DEF RequestInv, Tools!MayExpect
  <2>1. x \in Tools!Asks
    BY DEF Tools!Asks
  <2>2. UNCHANGED <<tools, reading, results, pending, allow>>
    BY <1>4 DEF Tools!askVars
  <2>3. /\ pending[x] # "none" => x[1] \in Writes /\ tools[x[1]].request = x
        /\ x \in reading => x[1] \in Reads /\ tools[x[1]].request = x
        /\ (\/ pending[x] = "asked" \/ x \in reading
            \/ answer[x] \in {"check", "run", "decline", "running"}) => Tools!MayExpect(x[1])
        /\ answer[x] \in {"run", "running"} => x \in allow
        /\ results[x] = <<TRUE>> \/ answer[x] = "applied" => tools[x[1]].state = "done"
    BY DEF RequestInv
  <2>4. Tools!MayExpect(x[1])' <=> Tools!MayExpect(x[1])
    BY <2>2 DEF Tools!MayExpect
  <2>5. CASE x = r
    BY <1>1, <1>5, <2>2, <2>3, <2>4, <2>5
  <2>6. CASE x # r
    BY <1>5, <2>1, <2>2, <2>3, <2>4, <2>6
  <2> QED  BY <2>5, <2>6
<1> QED  BY <1>6, <1>7, <1>8, <1>10, <1>11, <1>12

\* A turn begins with nothing.
LEMMA TurnInit ==
  ASSUME Tools!Init
  PROVE  TurnInv
<1>1. AskOK
  <2>1. Tools!OpenAsks = {}
    BY DEF Tools!Init, Tools!OpenAsks, Tools!Open
  <2> QED  BY <2>1, FS_EmptySet DEF Tools!Init, AskOK
<1>2. RestOK /\ FinishInv
  BY DEF Tools!Init, RestOK, ToolTypes, FinishInv, Tools!NoTool, Tools!NotFinishing, Tools!Calls
<1>3. AskInv
  BY DEF Tools!Init, AskInv
<1>4. ItemInv /\ RunInv
  BY DEF Tools!Init, ItemInv, RunInv, Tools!NoTool
<1>5. RequestInv
  <2>1. \A r \in Tools!ToolRequests : r \in Tools!Asks
    BY DEF Tools!Asks
  <2> QED  BY <2>1 DEF Tools!Init, RequestInv
<1> QED  BY <1>1, <1>2, <1>3, <1>4, <1>5 DEF TurnInv

\* One step per action of a turn.
LEMMA TurnNext ==
  ASSUME TurnInv, Tools!ToolsAssumption, Tools!Next
  PROVE  TurnInv'
<1>1. CASE Tools!Reader
  <2>1. ASSUME NEW i \in Tools!Items, Tools!ItemStarted(i) \/ Tools!ItemCompleted(i)
        PROVE  TurnInv'
    BY <2>1, ItemStartedInv, ItemCompletedInv
  <2>2. ASSUME NEW r \in Tools!ToolRequests, Tools!ToolRequest(r) \/ Tools!SecondRequest(r)
        PROVE  TurnInv'
    BY <2>2, ToolRequestInv, SecondRequestInv
  <2>3. ASSUME NEW q \in Questions, Tools!InputRequest(q) PROVE TurnInv'
    BY <2>3, InputRequestInv
  <2>4. ASSUME NEW r \in Tools!Asks, Tools!RequestResolved(r) PROVE TurnInv'
    BY <2>4, RequestResolvedInv
  <2>5. ASSUME NEW status \in {"completed", "interrupted", "rejected"},
               Tools!FinishBegins(status, TRUE)
        PROVE  TurnInv'
    BY <2>5, FinishBeginsInv
  <2>6. ASSUME NEW ends \in BOOLEAN, Tools!FinishBegins("failed", ends) PROVE TurnInv'
    BY <2>6, FinishBeginsInv
  <2> QED
    BY <1>1, <2>1, <2>2, <2>3, <2>4, <2>5, <2>6, ActivityInv, QuietInv, FailActiveInv
    DEF Tools!Reader
<1>2. CASE Tools!Progress
  <2>1. \A r \in Reads \X (1..MaxRequests) : r \in Tools!ToolRequests
    BY DEF Tools!ToolRequests, Tools!Items
  <2>2. ASSUME NEW r \in Tools!ToolRequests, Tools!Check(r) \/ Tools!Run(r) \/ Tools!RunReturns(r)
        PROVE  TurnInv'
    BY <2>2, CheckInv, RunStepInv, RunReturnsInv
  <2>3. ASSUME NEW r \in Tools!Asks, Tools!Respond(r) \/ Tools!Wait(r) PROVE TurnInv'
    BY <2>3, RespondInv, WaitEndsInv
  <2> QED
    BY <1>2, <2>1, <2>2, <2>3, FinishQuestionsInv, FinishEndsInv, FailActiveInv, ReadEndsInv
    DEF Tools!Progress
<1>3. CASE Tools!Exit \/ Tools!SteerOrCancel
  BY <1>3, QuietInv
<1>4. CASE \E r \in Tools!Asks : Tools!Answer(r) \/ Tools!WaitTimesOut(r)
  BY <1>4, AnswerInv, WaitEndsInv
<1> QED  BY <1>1, <1>2, <1>3, <1>4 DEF Tools!Next
-----------------------------------------------------------------------------
\* What the end of a turn says.

\* What the invariant says of types, effects and answers.
LEMMA TurnIsTrue ==
  ASSUME TurnInv
  PROVE  Tools!EffectsAreTrue /\ Tools!AnswersAreTrue
<1> USE DEF TurnInv
<1>1. Tools!TypeOK
  <2>1. waiting \in Nat
    BY FS_CardinalityType DEF AskOK
  <2> QED  BY <2>1 DEF Tools!TypeOK, AskOK, RestOK, ToolTypes, FinishInv
<1>2. Tools!RunsOnce
  BY DEF Tools!RunsOnce, RunInv, ItemInv, RestOK, Tools!ToolRequests
<1>3. Tools!NoneMeansUntouched
  BY DEF Tools!NoneMeansUntouched, FinishInv, ItemInv
<1>4. Tools!AppliedMeansDone
  BY DEF Tools!AppliedMeansDone, AskInv, RequestInv
<1>5. Tools!WaitingIsCounted
  BY ToolsCardinality DEF Tools!WaitingIsCounted, AskOK
<1> QED
  BY <1>1, <1>2, <1>3, <1>4, <1>5 DEF Tools!EffectsAreTrue, Tools!AnswersAreTrue

\* An end is reported by FinishEnds alone, which finds no tool open; a runner at
\* work would keep its tool open, and an unknown effect would have been the end.
LEMMA EndSettles ==
  ASSUME TurnInv, Tools!Next, outcome = "running", outcome' \in {"completed", "interrupted"}
  PROVE  /\ \A i \in Tools!Items : tools[i].state = "none" \/
                             (tools[i].state = "done" /\ tools[i].effect \in {"none", "known"})
         /\ \A r \in Tools!ToolRequests : answer[r] \notin {"run", "running"}
         /\ reading = {}
<1> USE DEF TurnInv
<1>1. Tools!FinishEnds
  BY DEF Tools!Next, Tools!Reader, Tools!Progress, Tools!ItemStarted, Tools!ItemCompleted,
         Tools!Completes, Tools!ToolRequest,
         Tools!SecondRequest, Tools!InputRequest, Tools!RequestResolved, Tools!FinishBegins,
         Tools!Activity, Tools!Notice,
         Tools!ForbiddenItem, Tools!Violation, Tools!Exit, Tools!SteerOrCancel, Tools!Answer,
         Tools!WaitTimesOut,
         Tools!FinishQuestions, Tools!HandleExit, Tools!ReadEnds, Tools!Check, Tools!Run,
         Tools!RunReturns, Tools!Respond, Tools!Wait,
         Tools!FailActive, Tools!AnswerFails, Tools!FailUnknown, Tools!FailUnknownIf,
         Tools!turnVars
<1>2. Tools!OpenTools = {}
  BY <1>1 DEF Tools!FinishEnds, Tools!Finished
<1>3. ASSUME NEW i \in Tools!Items
      PROVE  tools[i].state = "none" \/
             (tools[i].state = "done" /\ tools[i].effect \in {"none", "known"})
  <2>1. tools[i].state \in {"none", "done"}
    BY <1>2 DEF Tools!OpenTools, RestOK, ToolTypes
  <2>2. tools[i].effect \in {"unset", "none", "known", "unknown"}
    BY DEF RestOK, ToolTypes
  <2> QED  BY <2>1, <2>2 DEF ItemInv
<1>4. ASSUME NEW r \in Tools!ToolRequests
      PROVE  answer[r] \notin {"run", "running"} /\ r \notin reading
  <2>1. r[1] \in Tools!Items
    BY DEF Tools!ToolRequests
  <2>2. ~Tools!MayExpect(r[1])
    BY <1>2, <2>1 DEF Tools!OpenTools, Tools!MayExpect
  <2> QED  BY <2>2 DEF RequestInv
<1> QED  BY <1>3, <1>4 DEF RestOK

\* The tools were cancelled before the end was reported: a runner that is called
\* after that runs nothing.
LEMMA EndIsStill ==
  ASSUME TurnInv, Tools!Next, outcome \notin {"running", "unknown"}
  PROVE  runs' = runs
<1> USE DEF TurnInv
<1>1. stopped
  BY DEF FinishInv
<1>2. \/ UNCHANGED runs
      \/ \E r \in Tools!ToolRequests : Tools!ToolRequest(r) \/ Tools!Run(r)
  BY DEF Tools!Next, Tools!Reader, Tools!Progress, Tools!ItemStarted, Tools!ItemCompleted,
         Tools!SecondRequest, Tools!InputRequest, Tools!RequestResolved, Tools!FinishBegins,
         Tools!Activity, Tools!Notice,
         Tools!ForbiddenItem, Tools!Violation, Tools!Exit, Tools!SteerOrCancel, Tools!Answer,
         Tools!WaitTimesOut,
         Tools!FinishQuestions, Tools!FinishEnds, Tools!HandleExit, Tools!ReadEnds,
         Tools!Check, Tools!RunReturns, Tools!Respond, Tools!Wait,
         Tools!toolVars
<1>3. ASSUME NEW r \in Tools!ToolRequests, Tools!ToolRequest(r) \/ Tools!Run(r)
      PROVE  runs' = runs
  <2>1. UNCHANGED runs \/ runs' = [runs EXCEPT ![r[1]] = runs[r[1]]]
    BY <1>1, <1>3 DEF Tools!ToolRequest, Tools!Run
  <2> QED  BY <2>1 DEF RestOK
<1> QED  BY <1>2, <1>3

\* The tools of a turn move in their own parts, and stay elsewhere.
LEMMA ToolsPart == Spec => Tools!Init /\ [][Tools!Next]_toolsVars
<1>1. Init => Tools!Init
  BY DEF Init
<1>2. [Next]_vars => [Tools!Next]_toolsVars
  BY DEF Next, vars, ToolsStep, SessionStep, VerifyStep
<1> QED BY <1>1, <1>2, PTL DEF Spec

\* Nothing changes.
LEMMA TurnStutter ==
  ASSUME TurnInv, UNCHANGED toolsVars
  PROVE  TurnInv'
<1>1. AskOK'
  BY DEF TurnInv, AskOK, toolsVars, Tools!OpenAsks, Tools!Open
<1>2. RestOK' /\ FinishInv' /\ AskInv' /\ ItemInv' /\ RunInv'
  BY DEF TurnInv, RestOK, FinishInv, AskInv, ItemInv, RunInv, toolsVars
<1>3. RequestInv'
  BY DEF TurnInv, RequestInv, toolsVars, Tools!MayExpect
<1> QED BY <1>1, <1>2, <1>3 DEF TurnInv

\* TurnInv is an invariant of every turn.
THEOREM TurnInvariance == Spec => []TurnInv
<1>1. Tools!ToolsAssumption
  BY NativeAssumption
<1>2. TurnInv /\ [Tools!Next]_toolsVars => TurnInv'
  BY <1>1, TurnNext, TurnStutter
<1>3. Tools!Init => TurnInv
  BY TurnInit
<1> QED BY <1>2, <1>3, ToolsPart, PTL

\* An item runs at most once and only when it was allowed, whatever is requested
\* again, answered, cancelled or finished meanwhile, and a turn of which anything
\* ran or was asked for is never said to have had no effect (claimToolRequest,
\* RespondApproval, finish).
THEOREM EffectsTrue == Spec => []EffectsAreTrue
<1>1. TurnInv => EffectsAreTrue
  BY TurnIsTrue DEF EffectsAreTrue
<1> QED BY <1>1, TurnInvariance, PTL

\* An answer reported as applied reached the native process, which has said what
\* became of the tool, and the attempt waits exactly while something is asked
\* (resolvePendingApproval, resolvePendingInput).
THEOREM AnswersTrue == Spec => []AnswersAreTrue
<1>1. TurnInv => AnswersAreTrue
  BY TurnIsTrue DEF AnswersAreTrue
<1> QED BY <1>1, TurnInvariance, PTL

\* A turn is reported completed or interrupted only when every tool is done with
\* an effect that is known and no runner is at work, and nothing runs after that
\* (finish, cancelTools).
THEOREM EndQuiet == Spec => EndIsQuiet
<1>1. TurnInv /\ [Tools!Next]_toolsVars =>
      [outcome = "running" /\ outcome' \in {"completed", "interrupted"} =>
         /\ \A i \in Tools!Items :
              tools[i].state = "none" \/
              (tools[i].state = "done" /\ tools[i].effect \in {"none", "known"})
         /\ \A r \in Tools!ToolRequests : answer[r] \notin {"run", "running"}
         /\ reading = {}]_(Tools!vars)
  BY EndSettles DEF toolsVars, Tools!vars
<1>2. TurnInv /\ [Tools!Next]_toolsVars =>
      [outcome \notin {"running", "unknown"} => runs' = runs]_(Tools!vars)
  BY EndIsStill DEF toolsVars, Tools!vars
<1>3. Spec => Tools!EndIsSettled
  BY <1>1, ToolsPart, TurnInvariance, PTL DEF Tools!EndIsSettled
<1>4. Spec => Tools!NothingRunsAfterEnd
  BY <1>2, ToolsPart, TurnInvariance, PTL DEF Tools!NothingRunsAfterEnd
<1> QED BY <1>3, <1>4, PTL DEF EndIsQuiet, Tools!EndIsQuiet

-----------------------------------------------------------------------------
\* The native session.

\* The call in the reader's hand.
Hand == IF reader.at = "deliver" THEN {reader.id} ELSE {}

\* An id that the process has not read.
Unread(x) == \A i \in 1..Len(wire) : wire[i] # x

\* What the reader holds is a call, or a request of the process.
ReaderInv ==
  /\ reader.at = "deliver" => reader.id \in Session!Calls
  /\ reader.at = "request" => reader.id \in asked

\* Who may still send to a call's channel; a call that did not register has no sender.
SenderInv ==
  /\ Session!OneSenderPerCall
  /\ \A c \in Session!Calls : call[c] \in {"idle", "admitted"} =>
       reply[c] = <<>> /\ c \notin calls /\ c \notin shut.left /\ c \notin Hand

\* The bridge is done from the moment its shutdown begins, and an exit is news once.
ShutInv ==
  /\ Session!PendingIsWaited
  /\ done <=> shut.step # "no"
  /\ published = 0 \/ shut.step = "over"

\* A request is answered before or after, never twice: one that may still be answered, or
\* is being answered, is not on the wire.
InboundInv ==
  /\ inbound \subseteq asked
  /\ \A r \in Requests :
       /\ r \in inbound => answering[r] = 0
       /\ r \notin asked => answering[r] = 0
       /\ r \in inbound \/ r \notin asked \/ answering[r] = 1 => Unread(r)
       /\ \A i, j \in 1..Len(wire) : wire[i] = r /\ wire[j] = r => i = j

\* An interrupt that was written has cancelled, or holds the lock of the wire.
InterruptInv == \A i \in Interrupts : Unread(i) \/ writer = i \/ cancelled

\* The flags of the session, and who closes it.
StarterInv ==
  /\ Session!ReadyMeansNotExited
  /\ session.closing => starter \in {"stop", "wait", "failed"} \/ closer # "no"
  /\ closer # "no" => session.closing /\ starter = "ready"

\* The inductive invariant of a session.
SessionInv ==
  /\ Session!TypeOK /\ ReaderInv /\ SenderInv /\ ShutInv /\ InboundInv /\ InterruptInv
  /\ StarterInv

-----------------------------------------------------------------------------
USE DEF Session!bridgeVars, Session!callVars, Session!requestVars, Session!endVars,
    Session!sessionVars

\* What a frame adds to the wire.
LEMMA WireGrows ==
  ASSUME SessionInv, NEW x \in Session!Calls \cup Requests,
         wire' = Session!Written(x).wire
  PROVE  /\ wire' \in Seq(Session!Calls \cup Requests)
         /\ \A y : Unread(y) /\ y # x => Unread(y)'
         /\ \A r \in Requests :
              (r = x => Unread(r)) =>
                \A i, j \in 1..Len(wire') : wire'[i] = r /\ wire'[j] = r => i = j
<1>1. wire \in Seq(Session!Calls \cup Requests) /\ Len(wire) \in Nat
  BY DEF SessionInv, Session!TypeOK
<1>2. CASE wire' = wire
  BY <1>1, <1>2 DEF SessionInv, InboundInv, Unread
<1>3. CASE wire' = Append(wire, x)
  <2>1. /\ wire' \in Seq(Session!Calls \cup Requests) /\ Len(wire') = Len(wire) + 1
        /\ \A i \in 1..Len(wire) : wire'[i] = wire[i]
        /\ wire'[Len(wire) + 1] = x
    BY <1>1, <1>3
  <2>2. \A y : Unread(y) /\ y # x => Unread(y)'
    <3> SUFFICES ASSUME NEW y, Unread(y), y # x, NEW i \in 1..Len(wire')
                 PROVE  wire'[i] # y
      BY DEF Unread
    <3>1. i \in 1..Len(wire) \/ i = Len(wire) + 1
      BY <1>1, <2>1
    <3> QED  BY <2>1, <3>1 DEF Unread
  <2>3. ASSUME NEW r \in Requests, r = x => Unread(r),
               NEW i \in 1..Len(wire'), NEW j \in 1..Len(wire'), wire'[i] = r, wire'[j] = r
        PROVE  i = j
    <3>1. /\ i \in 1..Len(wire) \/ i = Len(wire) + 1
          /\ j \in 1..Len(wire) \/ j = Len(wire) + 1
      BY <1>1, <2>1
    <3>2. CASE r = x
      BY <2>1, <2>3, <3>1, <3>2 DEF Unread
    <3>3. CASE r # x
      BY <2>1, <2>3, <3>1, <3>3 DEF SessionInv, InboundInv
    <3> QED  BY <3>2, <3>3
  <2> QED  BY <2>1, <2>2, <2>3
<1> QED  BY <1>2, <1>3 DEF Session!Written

\* The session is looked at before its bridge is used.
LEMMA BeginCallKeeps ==
  ASSUME Session!SessionAssumption, SessionInv, NEW c \in Session!Calls,
         Session!BeginCall(c)
  PROVE  SessionInv'
<1>1. Session!TypeOK'
  BY DEF SessionInv, Session!TypeOK, Session!BeginCall, Session!Available
<1>2. ReaderInv'
  BY DEF SessionInv, ReaderInv, Session!BeginCall
<1>3. SenderInv'
  BY DEF SessionInv, Session!TypeOK, SenderInv, Session!OneSenderPerCall, Hand, ShutInv,
     Session!PendingIsWaited, ReaderInv, Session!BeginCall, Session!Available
<1>4. ShutInv'
  BY DEF SessionInv, Session!TypeOK, ShutInv, Session!PendingIsWaited, SenderInv,
     Session!OneSenderPerCall, Hand, Session!BeginCall, Session!Available
<1>5. InboundInv'
  BY DEF SessionInv, InboundInv, Unread, Session!BeginCall
<1>6. InterruptInv'
  BY DEF SessionInv, InterruptInv, Unread, Session!BeginCall
<1>7. StarterInv'
  BY DEF SessionInv, StarterInv, Session!ReadyMeansNotExited, Session!BeginCall
<1> QED  BY <1>1, <1>2, <1>3, <1>4, <1>5, <1>6, <1>7 DEF SessionInv

\* A call registers its channel.
LEMMA RegisterKeeps ==
  ASSUME Session!SessionAssumption, SessionInv, NEW c \in Session!Calls, Session!Register(c)
  PROVE  SessionInv'
<1>1. Session!TypeOK'
  BY DEF SessionInv, Session!TypeOK, Session!Register
<1>2. ReaderInv'
  BY DEF SessionInv, ReaderInv, Session!Register
<1>3. SenderInv'
  BY DEF SessionInv, Session!TypeOK, SenderInv, Session!OneSenderPerCall, Hand, ShutInv,
     Session!PendingIsWaited, ReaderInv, Session!Register
<1>4. ShutInv'
  BY DEF SessionInv, Session!TypeOK, ShutInv, Session!PendingIsWaited, SenderInv,
     Session!OneSenderPerCall, Hand, Session!Register
<1>5. InboundInv'
  BY DEF SessionInv, InboundInv, Unread, Session!Register
<1>6. InterruptInv'
  BY DEF SessionInv, InterruptInv, Unread, Session!Register
<1>7. StarterInv'
  BY DEF SessionInv, StarterInv, Session!ReadyMeansNotExited, Session!Register
<1> QED  BY <1>1, <1>2, <1>3, <1>4, <1>5, <1>6, <1>7 DEF SessionInv

\* A call whose bridge is done.
LEMMA NotWrittenKeeps ==
  ASSUME Session!SessionAssumption, SessionInv, NEW c \in Session!Calls,
         Session!NotWritten(c)
  PROVE  SessionInv'
<1>1. Session!TypeOK'
  BY DEF SessionInv, Session!TypeOK, Session!NotWritten, Session!Ends
<1>2. ReaderInv'
  BY DEF SessionInv, ReaderInv, Session!NotWritten
<1>3. SenderInv'
  BY DEF SessionInv, Session!TypeOK, SenderInv, Session!OneSenderPerCall, Hand, ShutInv,
     Session!PendingIsWaited, ReaderInv, Session!NotWritten, Session!Ends
<1>4. ShutInv'
  BY DEF SessionInv, Session!TypeOK, ShutInv, Session!PendingIsWaited, SenderInv,
     Session!OneSenderPerCall, Hand, Session!NotWritten, Session!Ends
<1>5. InboundInv'
  BY DEF SessionInv, InboundInv, Unread, Session!NotWritten
<1>6. InterruptInv'
  BY DEF SessionInv, InterruptInv, Unread, Session!NotWritten
<1>7. StarterInv'
  BY DEF SessionInv, StarterInv, Session!ReadyMeansNotExited, Session!NotWritten
<1> QED  BY <1>1, <1>2, <1>3, <1>4, <1>5, <1>6, <1>7 DEF SessionInv

\* A call that is about to be written.
LEMMA CheckedDoneKeeps ==
  ASSUME Session!SessionAssumption, SessionInv, NEW c \in Session!Calls,
         Session!CheckedDone(c)
  PROVE  SessionInv'
<1>1. Session!TypeOK'
  BY DEF SessionInv, Session!TypeOK, Session!CheckedDone
<1>2. ReaderInv'
  BY DEF SessionInv, ReaderInv, Session!CheckedDone
<1>3. SenderInv'
  BY DEF SessionInv, Session!TypeOK, SenderInv, Session!OneSenderPerCall, Hand, ShutInv,
     Session!PendingIsWaited, ReaderInv, Session!CheckedDone
<1>4. ShutInv'
  BY DEF SessionInv, Session!TypeOK, ShutInv, Session!PendingIsWaited, SenderInv,
     Session!OneSenderPerCall, Hand, Session!CheckedDone
<1>5. InboundInv'
  BY DEF SessionInv, InboundInv, Unread, Session!CheckedDone
<1>6. InterruptInv'
  BY DEF SessionInv, InterruptInv, Unread, Session!CheckedDone
<1>7. StarterInv'
  BY DEF SessionInv, StarterInv, Session!ReadyMeansNotExited, Session!CheckedDone
<1> QED  BY <1>1, <1>2, <1>3, <1>4, <1>5, <1>6, <1>7 DEF SessionInv

\* The frame of a call is written under the lock.
LEMMA WriteCallKeeps ==
  ASSUME Session!SessionAssumption, SessionInv, NEW c \in Session!Calls,
         Session!WriteCall(c)
  PROVE  SessionInv'
<1>1. /\ call[c] = "writing" /\ writer = NoOne /\ writer' = c
      /\ call' = [call EXCEPT ![c] = "written"] \/ call' = [call EXCEPT ![c] = "unwritten"]
      /\ UNCHANGED <<calls, inbound, done, shut, result, reply, Session!requestVars,
                     Session!endVars, cancelled,
                     Session!sessionVars>>
  BY DEF Session!WriteCall, Session!Written
<1>2. wire' = Session!Written(c).wire /\ c \in Session!Calls \cup Requests
  BY DEF Session!WriteCall, Session!Calls
<1>3. Session!TypeOK'
  <2>1. wire' \in Seq(Session!Calls \cup Requests)
    BY <1>2, WireGrows
  <2>2. writer' \in Session!Calls /\ call' \in [Session!Calls -> {"idle", "admitted", "registered", "writing",
                                          "written", "unwritten", "waiting", "returned"}]
    BY <1>1 DEF SessionInv, Session!TypeOK
  <2>3. UNCHANGED Session!endVars
    BY DEF Session!WriteCall
  <2> QED  BY <1>1, <2>1, <2>2, <2>3 DEF SessionInv, Session!TypeOK
<1>4. ReaderInv'
  BY DEF SessionInv, ReaderInv, Session!WriteCall
<1>5. SenderInv'
  BY <1>2, <1>1, WireGrows DEF SessionInv, Session!TypeOK, SenderInv,
     Session!OneSenderPerCall, Hand
<1>6. ShutInv'
  BY <1>2, <1>1, WireGrows DEF SessionInv, Session!TypeOK, ShutInv, Session!PendingIsWaited
<1>7. InboundInv'
  <2> SUFFICES ASSUME NEW q \in Requests
               PROVE  /\ q \in inbound' => answering'[q] = 0
                      /\ q \notin asked' => answering'[q] = 0
                      /\ q \in inbound' \/ q \notin asked' \/ answering'[q] = 1
                            => Unread(q)'
                      /\ \A i, j \in 1..Len(wire') : wire'[i] = q /\ wire'[j] = q => i = j
    BY <1>1 DEF SessionInv, InboundInv
  <2>1. /\ q \in inbound => answering[q] = 0
        /\ q \notin asked => answering[q] = 0
        /\ q \in inbound \/ q \notin asked \/ answering[q] = 1 => Unread(q)
    BY DEF SessionInv, InboundInv
  <2>2. q # c
    BY DEF Session!SessionAssumption, Session!Calls
  <2>3. Unread(q) => Unread(q)'
    BY <1>2, <2>2, WireGrows
  <2>4. \A i, j \in 1..Len(wire') : wire'[i] = q /\ wire'[j] = q => i = j
    BY <1>2, <2>2, WireGrows
  <2> QED  BY <1>1, <2>1, <2>3, <2>4
<1>8. InterruptInv'
  <2> SUFFICES ASSUME NEW i \in Interrupts PROVE Unread(i)' \/ writer' = i \/ cancelled'
    BY DEF InterruptInv
  <2>1. writer # i
    BY <1>1 DEF Session!SessionAssumption
  <2> QED  BY <1>2, <1>1, <2>1, WireGrows DEF SessionInv, InterruptInv
<1>9. StarterInv'
  BY DEF SessionInv, StarterInv, Session!ReadyMeansNotExited, Session!WriteCall
<1> QED  BY <1>3, <1>4, <1>5, <1>6, <1>7, <1>8, <1>9 DEF SessionInv

\* The hook of an interrupt runs before the lock is released.
LEMMA AfterWriteKeeps ==
  ASSUME Session!SessionAssumption, SessionInv, NEW c \in Session!Calls,
         Session!AfterWrite(c)
  PROVE  SessionInv'
<1>1. Session!TypeOK'
  BY DEF SessionInv, Session!TypeOK, Session!AfterWrite, Session!Unlock, Session!Ends
<1>2. ReaderInv'
  BY DEF SessionInv, ReaderInv, Session!AfterWrite
<1>3. SenderInv'
  BY DEF SessionInv, Session!TypeOK, SenderInv, Session!OneSenderPerCall, Hand, ShutInv,
     Session!PendingIsWaited, ReaderInv, Session!AfterWrite, Session!Unlock, Session!Ends
<1>4. ShutInv'
  BY DEF SessionInv, Session!TypeOK, ShutInv, Session!PendingIsWaited, SenderInv,
     Session!OneSenderPerCall, Hand, Session!AfterWrite, Session!Unlock, Session!Ends
<1>5. InboundInv'
  BY DEF SessionInv, InboundInv, Unread, Session!AfterWrite
<1>6. InterruptInv'
  <2>1. /\ wire' = wire /\ writer = c
        /\ cancelled' = (cancelled \/ c \in Interrupts)
    BY DEF Session!AfterWrite, Session!Unlock
  <2>2. InterruptInv
    BY DEF SessionInv
  <2> SUFFICES ASSUME NEW i \in Interrupts PROVE Unread(i)' \/ cancelled'
    BY DEF InterruptInv
  <2>3. Unread(i) \/ writer = i \/ cancelled
    BY <2>2 DEF InterruptInv
  <2>4. CASE Unread(i)
    BY <2>1, <2>4 DEF Unread
  <2>5. CASE writer = i
    BY <2>1, <2>5
  <2>6. CASE cancelled
    BY <2>1, <2>6
  <2> QED  BY <2>3, <2>4, <2>5, <2>6
<1>7. StarterInv'
  BY DEF SessionInv, StarterInv, Session!ReadyMeansNotExited, Session!AfterWrite
<1> QED  BY <1>1, <1>2, <1>3, <1>4, <1>5, <1>6, <1>7 DEF SessionInv

\* A call takes its reply.
LEMMA TakeReplyKeeps ==
  ASSUME Session!SessionAssumption, SessionInv, NEW c \in Session!Calls,
         Session!TakeReply(c)
  PROVE  SessionInv'
<1>1. Session!TypeOK'
  BY DEF SessionInv, Session!TypeOK, Session!TakeReply
<1>2. ReaderInv'
  BY DEF SessionInv, ReaderInv, Session!TakeReply
<1>3. SenderInv'
  BY DEF SessionInv, Session!TypeOK, SenderInv, Session!OneSenderPerCall, Hand, ShutInv,
     Session!PendingIsWaited, ReaderInv, Session!TakeReply
<1>4. ShutInv'
  BY DEF SessionInv, Session!TypeOK, ShutInv, Session!PendingIsWaited, SenderInv,
     Session!OneSenderPerCall, Hand, Session!TakeReply
<1>5. InboundInv'
  BY DEF SessionInv, InboundInv, Unread, Session!TakeReply
<1>6. InterruptInv'
  BY DEF SessionInv, InterruptInv, Unread, Session!TakeReply
<1>7. StarterInv'
  BY DEF SessionInv, StarterInv, Session!ReadyMeansNotExited, Session!TakeReply
<1> QED  BY <1>1, <1>2, <1>3, <1>4, <1>5, <1>6, <1>7 DEF SessionInv

\* A call gives up.
LEMMA GiveUpKeeps ==
  ASSUME Session!SessionAssumption, SessionInv, NEW c \in Session!Calls, Session!GiveUp(c)
  PROVE  SessionInv'
<1>1. Session!TypeOK'
  BY DEF SessionInv, Session!TypeOK, Session!GiveUp, Session!Ends
<1>2. ReaderInv'
  BY DEF SessionInv, ReaderInv, Session!GiveUp
<1>3. SenderInv'
  BY DEF SessionInv, Session!TypeOK, SenderInv, Session!OneSenderPerCall, Hand, ShutInv,
     Session!PendingIsWaited, ReaderInv, Session!GiveUp, Session!Ends
<1>4. ShutInv'
  BY DEF SessionInv, Session!TypeOK, ShutInv, Session!PendingIsWaited, SenderInv,
     Session!OneSenderPerCall, Hand, Session!GiveUp, Session!Ends
<1>5. InboundInv'
  BY DEF SessionInv, InboundInv, Unread, Session!GiveUp
<1>6. InterruptInv'
  BY DEF SessionInv, InterruptInv, Unread, Session!GiveUp
<1>7. StarterInv'
  BY DEF SessionInv, StarterInv, Session!ReadyMeansNotExited, Session!GiveUp
<1> QED  BY <1>1, <1>2, <1>3, <1>4, <1>5, <1>6, <1>7 DEF SessionInv

\* The reader takes the entry before it sends.
LEMMA RouteReplyKeeps ==
  ASSUME Session!SessionAssumption, SessionInv, NEW c \in Session!Calls,
         Session!RouteReply(c)
  PROVE  SessionInv'
<1>1. Session!TypeOK'
  BY DEF SessionInv, Session!TypeOK, Session!RouteReply, Session!Routed, Session!Reading,
     Session!At
<1>2. ReaderInv'
  BY DEF SessionInv, Session!TypeOK, ReaderInv, InboundInv, Unread, Session!RouteReply,
     Session!Routed, Session!Reading, Session!At
<1>3. SenderInv'
  BY DEF SessionInv, Session!TypeOK, SenderInv, Session!OneSenderPerCall, Hand, ShutInv,
     Session!PendingIsWaited, ReaderInv, Session!RouteReply, Session!Routed,
     Session!Reading, Session!At
<1>4. ShutInv'
  BY DEF SessionInv, Session!TypeOK, ShutInv, Session!PendingIsWaited, SenderInv,
     Session!OneSenderPerCall, Hand, Session!RouteReply, Session!Routed, Session!Reading,
     Session!At
<1>5. InboundInv'
  BY DEF SessionInv, InboundInv, Unread, Session!RouteReply
<1>6. InterruptInv'
  BY DEF SessionInv, InterruptInv, Unread, Session!RouteReply
<1>7. StarterInv'
  BY DEF SessionInv, StarterInv, Session!ReadyMeansNotExited, Session!RouteReply
<1> QED  BY <1>1, <1>2, <1>3, <1>4, <1>5, <1>6, <1>7 DEF SessionInv

\* The reader sends the reply.
LEMMA DeliverKeeps ==
  ASSUME Session!SessionAssumption, SessionInv, Session!Deliver
  PROVE  SessionInv'
<1>1. Session!TypeOK'
  <2>1. reply' \in [Session!Calls -> {<<>>, <<"reply">>, <<"closed">>}]
    BY DEF SessionInv, Session!TypeOK, Session!Deliver
  <2>2. reader' \in [at : {"read", "deliver", "request", "reject", "failed", "shutdown", "ended"},
               id : Session!Calls \cup Requests \cup {NoOne}]
    BY DEF Session!Deliver, Session!Reading
  <2>3. UNCHANGED <<Session!bridgeVars, call, result, Session!requestVars, child, reaped,
                    cancelled, Session!sessionVars>>
    BY DEF Session!Deliver
  <2> QED  BY <2>1, <2>2, <2>3 DEF SessionInv, Session!TypeOK
<1>2. ReaderInv'
  BY DEF SessionInv, Session!TypeOK, ReaderInv, InboundInv, Unread, Session!Deliver,
     Session!Reading, Session!At
<1>3. SenderInv'
  BY DEF SessionInv, Session!TypeOK, SenderInv, Session!OneSenderPerCall, Hand, ShutInv,
     Session!PendingIsWaited, ReaderInv, Session!Deliver, Session!Reading, Session!At
<1>4. ShutInv'
  BY DEF SessionInv, ShutInv, Session!PendingIsWaited, Session!Deliver
<1>5. InboundInv'
  BY DEF SessionInv, InboundInv, Unread, Session!Deliver
<1>6. InterruptInv'
  BY DEF SessionInv, InterruptInv, Unread, Session!Deliver
<1>7. StarterInv'
  BY DEF SessionInv, StarterInv, Session!ReadyMeansNotExited, Session!Deliver
<1> QED  BY <1>1, <1>2, <1>3, <1>4, <1>5, <1>6, <1>7 DEF SessionInv

\* A request of the process is read.
LEMMA RouteRequestKeeps ==
  ASSUME Session!SessionAssumption, SessionInv, NEW r \in Requests, Session!RouteRequest(r)
  PROVE  SessionInv'
<1>1. Session!TypeOK'
  BY DEF SessionInv, Session!TypeOK, Session!RouteRequest, Session!Reading, Session!At
<1>2. ReaderInv'
  BY DEF SessionInv, Session!TypeOK, ReaderInv, InboundInv, Unread, Session!RouteRequest,
     Session!Reading, Session!At
<1>3. SenderInv'
  BY DEF SessionInv, Session!TypeOK, SenderInv, Session!OneSenderPerCall, Hand, ShutInv,
     Session!PendingIsWaited, ReaderInv, Session!RouteRequest, Session!Reading, Session!At
<1>4. ShutInv'
  BY DEF SessionInv, ShutInv, Session!PendingIsWaited, Session!RouteRequest
<1>5. InboundInv'
  BY DEF SessionInv, Session!TypeOK, InboundInv, Unread, ReaderInv, Session!RouteRequest,
     Session!Reading, Session!At
<1>6. InterruptInv'
  BY DEF SessionInv, InterruptInv, Unread, Session!RouteRequest
<1>7. StarterInv'
  BY DEF SessionInv, StarterInv, Session!ReadyMeansNotExited, Session!RouteRequest
<1> QED  BY <1>1, <1>2, <1>3, <1>4, <1>5, <1>6, <1>7 DEF SessionInv

\* A request is handed over, or rejected.
LEMMA HandleRequestKeeps ==
  ASSUME Session!SessionAssumption, SessionInv, Session!HandleRequest
  PROVE  SessionInv'
<1>1. Session!TypeOK'
  BY DEF SessionInv, Session!TypeOK, Session!HandleRequest, Session!Available,
     Session!Reading, Session!At, InboundInv, ReaderInv
<1>2. ReaderInv'
  BY DEF SessionInv, Session!TypeOK, ReaderInv, InboundInv, Unread, Session!HandleRequest,
     Session!Available, Session!Reading, Session!At
<1>3. SenderInv'
  BY DEF SessionInv, Session!TypeOK, SenderInv, Session!OneSenderPerCall, Hand, ShutInv,
     Session!PendingIsWaited, ReaderInv, Session!HandleRequest, Session!Available,
     Session!Reading, Session!At
<1>4. ShutInv'
  BY DEF SessionInv, ShutInv, Session!PendingIsWaited, Session!HandleRequest
<1>5. InboundInv'
  BY DEF SessionInv, Session!TypeOK, InboundInv, Unread, ReaderInv, Session!HandleRequest,
     Session!Available, Session!Reading, Session!At
<1>6. InterruptInv'
  BY DEF SessionInv, InterruptInv, Unread, Session!HandleRequest
<1>7. StarterInv'
  BY DEF SessionInv, StarterInv, Session!ReadyMeansNotExited, Session!HandleRequest
<1> QED  BY <1>1, <1>2, <1>3, <1>4, <1>5, <1>6, <1>7 DEF SessionInv

\* A request is resolved by the process.
LEMMA ResolveInboundKeeps ==
  ASSUME Session!SessionAssumption, SessionInv, NEW r \in Requests,
         Session!ResolveInbound(r)
  PROVE  SessionInv'
<1>1. Session!TypeOK'
  BY DEF SessionInv, Session!TypeOK, Session!ResolveInbound, Session!Available,
     Session!Reading
<1>2. ReaderInv'
  BY DEF SessionInv, ReaderInv, Session!ResolveInbound
<1>3. SenderInv'
  BY DEF SessionInv, SenderInv, Session!OneSenderPerCall, Hand, Session!ResolveInbound
<1>4. ShutInv'
  BY DEF SessionInv, ShutInv, Session!PendingIsWaited, Session!ResolveInbound
<1>5. InboundInv'
  BY DEF SessionInv, Session!TypeOK, InboundInv, Unread, ReaderInv, Session!ResolveInbound,
     Session!Available, Session!Reading
<1>6. InterruptInv'
  BY DEF SessionInv, InterruptInv, Unread, Session!ResolveInbound
<1>7. StarterInv'
  BY DEF SessionInv, StarterInv, Session!ReadyMeansNotExited, Session!ResolveInbound
<1> QED  BY <1>1, <1>2, <1>3, <1>4, <1>5, <1>6, <1>7 DEF SessionInv

\* The adapter answers a request.
LEMMA RespondKeeps ==
  ASSUME Session!SessionAssumption, SessionInv, NEW r \in Requests, Session!Respond(r)
  PROVE  SessionInv'
<1>1. Session!TypeOK'
  BY DEF SessionInv, Session!TypeOK, Session!Respond, Session!Available, Session!Consumed,
     InboundInv
<1>2. ReaderInv'
  BY DEF SessionInv, ReaderInv, Session!Respond
<1>3. SenderInv'
  BY DEF SessionInv, SenderInv, Session!OneSenderPerCall, Hand, Session!Respond
<1>4. ShutInv'
  BY DEF SessionInv, ShutInv, Session!PendingIsWaited, Session!Respond
<1>5. InboundInv'
  BY DEF SessionInv, Session!TypeOK, InboundInv, Unread, ReaderInv, Session!Respond,
     Session!Available, Session!Consumed
<1>6. InterruptInv'
  BY DEF SessionInv, InterruptInv, Unread, Session!Respond
<1>7. StarterInv'
  BY DEF SessionInv, StarterInv, Session!ReadyMeansNotExited, Session!Respond
<1> QED  BY <1>1, <1>2, <1>3, <1>4, <1>5, <1>6, <1>7 DEF SessionInv

\* The answer is written.
LEMMA WriteAnswerKeeps ==
  ASSUME Session!SessionAssumption, SessionInv, NEW r \in Requests, Session!WriteAnswer(r)
  PROVE  SessionInv'
<1>1. /\ answering[r] = 1 /\ answering' = [answering EXCEPT ![r] = 0] /\ writer = NoOne
      /\ UNCHANGED <<writer, calls, inbound, done, shut, Session!callVars, asked, open,
                     child, reaped,
                     cancelled, Session!sessionVars>>
  <2>1. /\ answering[r] \in 0..1
        /\ answering[r] > 0
        /\ answering' = [answering EXCEPT ![r] = @ - 1]
    BY DEF SessionInv, Session!TypeOK, Session!WriteAnswer
  <2>2. answering[r] = 1
    BY <2>1
  <2> QED  BY <2>1, <2>2 DEF Session!WriteAnswer
<1>2. reader' \in {reader, Session!Reading}
  BY DEF Session!WriteAnswer
<1>3. wire' = Session!Written(r).wire /\ r \in Session!Calls \cup Requests
  BY DEF Session!WriteAnswer, Session!Calls
<1>4. Session!TypeOK'
  <2>1. wire' \in Seq(Session!Calls \cup Requests)
    BY <1>3, WireGrows
  <2>2. answering' \in [Requests -> 0..1]
    BY <1>1 DEF SessionInv, Session!TypeOK
  <2>3. reader' \in [at : {"read", "deliver", "request", "reject", "failed", "shutdown", "ended"},
               id : Session!Calls \cup Requests \cup {NoOne}]
    BY <1>2 DEF SessionInv, Session!TypeOK, Session!Reading
  <2> QED  BY <1>1, <2>1, <2>2, <2>3 DEF SessionInv, Session!TypeOK
<1>5. ReaderInv'
  BY <1>1, <1>2 DEF SessionInv, ReaderInv, Session!Reading
<1>6. SenderInv'
  BY <1>3, <1>1, <1>2, WireGrows DEF SessionInv, Session!TypeOK, Session!Reading,
     SenderInv, Session!OneSenderPerCall, Hand
<1>7. ShutInv'
  BY <1>3, <1>1, <1>2, WireGrows DEF SessionInv, Session!TypeOK, Session!Reading, ShutInv,
     Session!PendingIsWaited
<1>8. InboundInv'
  <2> SUFFICES ASSUME NEW q \in Requests
               PROVE  /\ q \in inbound' => answering'[q] = 0
                      /\ q \notin asked' => answering'[q] = 0
                      /\ q \in inbound' \/ q \notin asked' \/ answering'[q] = 1
                            => Unread(q)'
                      /\ \A i, j \in 1..Len(wire') : wire'[i] = q /\ wire'[j] = q => i = j
    BY <1>1 DEF SessionInv, InboundInv
  <2>1. /\ q \in inbound => answering[q] = 0
        /\ q \notin asked => answering[q] = 0
        /\ q \in inbound \/ q \notin asked \/ answering[q] = 1 => Unread(q)
    BY DEF SessionInv, InboundInv
  <2>2. Unread(r)
    BY <1>1 DEF SessionInv, InboundInv
  <2>3. q # r /\ Unread(q) => Unread(q)'
    BY <1>3, WireGrows
  <2>4. \A i, j \in 1..Len(wire') : wire'[i] = q /\ wire'[j] = q => i = j
    BY <1>3, <2>2, WireGrows
  <2>5. r \notin inbound /\ r \in asked
    BY <1>1 DEF SessionInv, InboundInv
  <2>6. answering'[r] = 0 /\ (q # r => answering'[q] = answering[q])
    BY <1>1 DEF SessionInv, Session!TypeOK
  <2> QED  BY <1>1, <2>1, <2>3, <2>4, <2>5, <2>6
<1>9. InterruptInv'
  <2> SUFFICES ASSUME NEW i \in Interrupts PROVE Unread(i)' \/ writer' = i \/ cancelled'
    BY DEF InterruptInv
  <2>1. writer # i /\ r # i
    BY <1>1 DEF Session!SessionAssumption
  <2> QED  BY <1>3, <1>1, <2>1, WireGrows DEF SessionInv, InterruptInv
<1>10. StarterInv'
  BY DEF SessionInv, StarterInv, Session!ReadyMeansNotExited, Session!WriteAnswer
<1> QED  BY <1>4, <1>5, <1>6, <1>7, <1>8, <1>9, <1>10 DEF SessionInv

\* The process exits.
LEMMA ChildExitsKeeps ==
  ASSUME Session!SessionAssumption, SessionInv, Session!ChildExits
  PROVE  SessionInv'
<1>1. Session!TypeOK'
  <2>1. child' \in BOOLEAN
    BY DEF Session!ChildExits
  <2>2. UNCHANGED <<Session!bridgeVars, Session!callVars, Session!requestVars, reaped,
                    reader, cancelled, Session!sessionVars>>
    BY DEF Session!ChildExits
  <2> QED  BY <2>1, <2>2 DEF SessionInv, Session!TypeOK
<1>2. ReaderInv'
  BY DEF SessionInv, ReaderInv, Session!ChildExits
<1>3. SenderInv'
  BY DEF SessionInv, SenderInv, Session!OneSenderPerCall, Hand, Session!ChildExits
<1>4. ShutInv'
  BY DEF SessionInv, ShutInv, Session!PendingIsWaited, Session!ChildExits
<1>5. InboundInv'
  BY DEF SessionInv, InboundInv, Unread, Session!ChildExits
<1>6. InterruptInv'
  BY DEF SessionInv, InterruptInv, Unread, Session!ChildExits
<1>7. StarterInv'
  BY DEF SessionInv, StarterInv, Session!ReadyMeansNotExited, Session!ChildExits
<1> QED  BY <1>1, <1>2, <1>3, <1>4, <1>5, <1>6, <1>7 DEF SessionInv

\* The reader ends.
LEMMA ReadEndsKeeps ==
  ASSUME Session!SessionAssumption, SessionInv, Session!ReadEnds
  PROVE  SessionInv'
<1>1. Session!TypeOK'
  <2>1. child' \in BOOLEAN
    BY DEF Session!ReadEnds
  <2>2. reader' \in [at : {"read", "deliver", "request", "reject", "failed", "shutdown", "ended"},
               id : Session!Calls \cup Requests \cup {NoOne}]
    BY DEF Session!ReadEnds, Session!At
  <2>3. UNCHANGED <<Session!bridgeVars, Session!callVars, Session!requestVars, reaped,
                    cancelled, Session!sessionVars>>
    BY DEF Session!ReadEnds
  <2> QED  BY <2>1, <2>2, <2>3 DEF SessionInv, Session!TypeOK
<1>2. ReaderInv'
  BY DEF SessionInv, Session!TypeOK, ReaderInv, InboundInv, Unread, Session!ReadEnds,
     Session!Reading, Session!At
<1>3. SenderInv'
  BY DEF SessionInv, Session!TypeOK, SenderInv, Session!OneSenderPerCall, Hand, ShutInv,
     Session!PendingIsWaited, ReaderInv, Session!ReadEnds, Session!Reading, Session!At
<1>4. ShutInv'
  BY DEF SessionInv, ShutInv, Session!PendingIsWaited, Session!ReadEnds
<1>5. InboundInv'
  BY DEF SessionInv, InboundInv, Unread, Session!ReadEnds
<1>6. InterruptInv'
  BY DEF SessionInv, InterruptInv, Unread, Session!ReadEnds
<1>7. StarterInv'
  BY DEF SessionInv, StarterInv, Session!ReadyMeansNotExited, Session!ReadEnds
<1> QED  BY <1>1, <1>2, <1>3, <1>4, <1>5, <1>6, <1>7 DEF SessionInv

\* The bridge shuts down once.
LEMMA ShutdownKeeps ==
  ASSUME Session!SessionAssumption, SessionInv, NEW who \in {"reader", "closer",
         "starter"}, Session!Shutdown(who)
  PROVE  SessionInv'
<1>1. Session!TypeOK'
  BY DEF SessionInv, Session!TypeOK, Session!Shutdown
<1>2. ReaderInv'
  BY DEF SessionInv, ReaderInv, Session!Shutdown
<1>3. SenderInv'
  BY DEF SessionInv, Session!TypeOK, SenderInv, Session!OneSenderPerCall, Hand, ShutInv,
     Session!PendingIsWaited, ReaderInv, Session!Shutdown
<1>4. ShutInv'
  BY DEF SessionInv, Session!TypeOK, ShutInv, Session!PendingIsWaited, SenderInv,
     Session!OneSenderPerCall, Hand, Session!Shutdown
<1>5. InboundInv'
  BY DEF SessionInv, Session!TypeOK, InboundInv, Unread, ReaderInv, Session!Shutdown
<1>6. InterruptInv'
  BY DEF SessionInv, InterruptInv, Unread, Session!Shutdown
<1>7. StarterInv'
  BY DEF SessionInv, StarterInv, Session!ReadyMeansNotExited, Session!Shutdown
<1> QED  BY <1>1, <1>2, <1>3, <1>4, <1>5, <1>6, <1>7 DEF SessionInv

\* A pending call is failed.
LEMMA FailPendingKeeps ==
  ASSUME Session!SessionAssumption, SessionInv, Session!FailPending
  PROVE  SessionInv'
<1>1. Session!TypeOK'
  BY DEF SessionInv, Session!TypeOK, Session!FailPending
<1>2. ReaderInv'
  BY DEF SessionInv, ReaderInv, Session!FailPending
<1>3. SenderInv'
  BY DEF SessionInv, Session!TypeOK, SenderInv, Session!OneSenderPerCall, Hand, ShutInv,
     Session!PendingIsWaited, ReaderInv, Session!FailPending
<1>4. ShutInv'
  BY DEF SessionInv, Session!TypeOK, ShutInv, Session!PendingIsWaited, SenderInv,
     Session!OneSenderPerCall, Hand, Session!FailPending
<1>5. InboundInv'
  BY DEF SessionInv, InboundInv, Unread, Session!FailPending
<1>6. InterruptInv'
  BY DEF SessionInv, InterruptInv, Unread, Session!FailPending
<1>7. StarterInv'
  BY DEF SessionInv, StarterInv, Session!ReadyMeansNotExited, Session!FailPending
<1> QED  BY <1>1, <1>2, <1>3, <1>4, <1>5, <1>6, <1>7 DEF SessionInv

\* The session hears of the exit.
LEMMA HandleExitKeeps ==
  ASSUME Session!SessionAssumption, SessionInv, Session!HandleExit
  PROVE  SessionInv'
<1>1. Session!TypeOK'
  <2>1. shut' \in [step : {"no", "fail", "exit", "over"},
             by : {"none", "reader", "closer", "starter"}, left : SUBSET Session!Calls]
    BY DEF SessionInv, Session!TypeOK, Session!HandleExit
  <2>2. session' \in [bridge : BOOLEAN, ready : BOOLEAN, closing : BOOLEAN, exited : BOOLEAN]
    BY DEF SessionInv, Session!TypeOK, Session!HandleExit
  <2>3. published' \in 0..1
    BY DEF SessionInv, Session!TypeOK, ShutInv, Session!HandleExit
  <2>4. UNCHANGED <<writer, wire, calls, inbound, done, Session!callVars,
                    Session!requestVars, Session!endVars, cancelled, starter, closer>>
    BY DEF Session!HandleExit
  <2> QED  BY <2>1, <2>2, <2>3, <2>4 DEF SessionInv, Session!TypeOK
<1>2. ReaderInv'
  BY DEF SessionInv, ReaderInv, Session!HandleExit
<1>3. SenderInv'
  BY DEF SessionInv, Session!TypeOK, SenderInv, Session!OneSenderPerCall, Hand, ShutInv,
     Session!PendingIsWaited, ReaderInv, Session!HandleExit, Session!Available
<1>4. ShutInv'
  BY DEF SessionInv, Session!TypeOK, ShutInv, Session!PendingIsWaited, SenderInv,
     Session!OneSenderPerCall, Hand, Session!HandleExit, Session!Available
<1>5. InboundInv'
  BY DEF SessionInv, InboundInv, Unread, Session!HandleExit
<1>6. InterruptInv'
  BY DEF SessionInv, InterruptInv, Unread, Session!HandleExit
<1>7. StarterInv'
  BY DEF SessionInv, Session!TypeOK, StarterInv, Session!ReadyMeansNotExited, ShutInv,
     Session!PendingIsWaited, Session!HandleExit, Session!Available
<1> QED  BY <1>1, <1>2, <1>3, <1>4, <1>5, <1>6, <1>7 DEF SessionInv

\* The process is reaped.
LEMMA ReapKeeps ==
  ASSUME Session!SessionAssumption, SessionInv, Session!Reap
  PROVE  SessionInv'
<1>1. Session!TypeOK'
  BY DEF SessionInv, Session!TypeOK, Session!Reap, Session!At
<1>2. ReaderInv'
  BY DEF SessionInv, Session!TypeOK, ReaderInv, InboundInv, Unread, Session!Reap, Session!At
<1>3. SenderInv'
  BY DEF SessionInv, Session!TypeOK, SenderInv, Session!OneSenderPerCall, Hand, ShutInv,
     Session!PendingIsWaited, ReaderInv, Session!Reap, Session!At
<1>4. ShutInv'
  BY DEF SessionInv, ShutInv, Session!PendingIsWaited, Session!Reap
<1>5. InboundInv'
  BY DEF SessionInv, InboundInv, Unread, Session!Reap
<1>6. InterruptInv'
  BY DEF SessionInv, InterruptInv, Unread, Session!Reap
<1>7. StarterInv'
  BY DEF SessionInv, StarterInv, Session!ReadyMeansNotExited, Session!Reap
<1> QED  BY <1>1, <1>2, <1>3, <1>4, <1>5, <1>6, <1>7 DEF SessionInv

\* The handshake begins.
LEMMA StartHandshakeKeeps ==
  ASSUME Session!SessionAssumption, SessionInv, Session!StartHandshake
  PROVE  SessionInv'
<1>1. Session!TypeOK'
  <2>1. session' \in [bridge : BOOLEAN, ready : BOOLEAN, closing : BOOLEAN, exited : BOOLEAN]
    BY DEF SessionInv, Session!TypeOK, Session!StartHandshake
  <2>2. call' \in [Session!Calls -> {"idle", "admitted", "registered", "writing", "written", "unwritten",
                        "waiting", "returned"}]
    BY DEF SessionInv, Session!TypeOK, Session!StartHandshake, Session!Begin
  <2>3. starter' = "calling"
    BY DEF Session!StartHandshake
  <2>4. UNCHANGED <<Session!bridgeVars, result, reply, Session!requestVars,
                    Session!endVars, cancelled, closer, published>>
    BY DEF Session!StartHandshake
  <2> QED  BY <2>1, <2>2, <2>3, <2>4 DEF SessionInv, Session!TypeOK
<1>2. ReaderInv'
  BY DEF SessionInv, ReaderInv, Session!StartHandshake
<1>3. SenderInv'
  BY DEF SessionInv, Session!TypeOK, SenderInv, Session!OneSenderPerCall, Hand, ShutInv,
     Session!PendingIsWaited, ReaderInv, Session!StartHandshake, Session!Begin
<1>4. ShutInv'
  BY DEF SessionInv, Session!TypeOK, ShutInv, Session!PendingIsWaited, SenderInv,
     Session!OneSenderPerCall, Hand, Session!StartHandshake, Session!Begin
<1>5. InboundInv'
  BY DEF SessionInv, InboundInv, Unread, Session!StartHandshake
<1>6. InterruptInv'
  BY DEF SessionInv, InterruptInv, Unread, Session!StartHandshake
<1>7. StarterInv'
  BY DEF SessionInv, Session!TypeOK, StarterInv, Session!ReadyMeansNotExited, ShutInv,
     Session!PendingIsWaited, Session!StartHandshake, Session!Begin
<1> QED  BY <1>1, <1>2, <1>3, <1>4, <1>5, <1>6, <1>7 DEF SessionInv

\* The process was initialized.
LEMMA InitializedKeeps ==
  ASSUME Session!SessionAssumption, SessionInv, Session!Initialized
  PROVE  SessionInv'
<1>1. Session!TypeOK'
  <2>1. session' \in [bridge : BOOLEAN, ready : BOOLEAN, closing : BOOLEAN, exited : BOOLEAN]
    BY DEF SessionInv, Session!TypeOK, Session!Initialized, Session!Fails
  <2>2. starter' \in {"notify", "stop"}
    BY DEF Session!Initialized, Session!Fails
  <2>3. UNCHANGED <<Session!bridgeVars, Session!callVars, Session!requestVars,
                    Session!endVars, cancelled, closer, published>>
    BY DEF Session!Initialized
  <2> QED  BY <2>1, <2>2, <2>3 DEF SessionInv, Session!TypeOK
<1>2. ReaderInv'
  BY DEF SessionInv, ReaderInv, Session!Initialized
<1>3. SenderInv'
  BY DEF SessionInv, SenderInv, Session!OneSenderPerCall, Hand, Session!Initialized
<1>4. ShutInv'
  BY DEF SessionInv, ShutInv, Session!PendingIsWaited, Session!Initialized
<1>5. InboundInv'
  BY DEF SessionInv, InboundInv, Unread, Session!Initialized
<1>6. InterruptInv'
  BY DEF SessionInv, InterruptInv, Unread, Session!Initialized
<1>7. StarterInv'
  BY DEF SessionInv, Session!TypeOK, StarterInv, Session!ReadyMeansNotExited, ShutInv,
     Session!PendingIsWaited, Session!Initialized, Session!Fails
<1> QED  BY <1>1, <1>2, <1>3, <1>4, <1>5, <1>6, <1>7 DEF SessionInv

\* The process is told that it was initialized.
LEMMA NotifyKeeps ==
  ASSUME Session!SessionAssumption, SessionInv, Session!Notify
  PROVE  SessionInv'
<1>1. Session!TypeOK'
  <2>1. session' \in [bridge : BOOLEAN, ready : BOOLEAN, closing : BOOLEAN, exited : BOOLEAN]
    BY DEF SessionInv, Session!TypeOK, Session!Notify, Session!Fails
  <2>2. starter' \in {"notified", "stop"}
    BY DEF Session!Notify, Session!Fails
  <2>3. UNCHANGED <<Session!bridgeVars, Session!callVars, Session!requestVars,
                    Session!endVars, cancelled, closer, published>>
    BY DEF Session!Notify
  <2> QED  BY <2>1, <2>2, <2>3 DEF SessionInv, Session!TypeOK
<1>2. ReaderInv'
  BY DEF SessionInv, ReaderInv, Session!Notify
<1>3. SenderInv'
  BY DEF SessionInv, SenderInv, Session!OneSenderPerCall, Hand, Session!Notify
<1>4. ShutInv'
  BY DEF SessionInv, ShutInv, Session!PendingIsWaited, Session!Notify
<1>5. InboundInv'
  BY DEF SessionInv, InboundInv, Unread, Session!Notify
<1>6. InterruptInv'
  BY DEF SessionInv, InterruptInv, Unread, Session!Notify
<1>7. StarterInv'
  BY DEF SessionInv, Session!TypeOK, StarterInv, Session!ReadyMeansNotExited, ShutInv,
     Session!PendingIsWaited, Session!Notify, Session!Fails
<1> QED  BY <1>1, <1>2, <1>3, <1>4, <1>5, <1>6, <1>7 DEF SessionInv

\* The bridge may be done meanwhile.
LEMMA CheckDoneKeeps ==
  ASSUME Session!SessionAssumption, SessionInv, Session!CheckDone
  PROVE  SessionInv'
<1>1. Session!TypeOK'
  <2>1. session' \in [bridge : BOOLEAN, ready : BOOLEAN, closing : BOOLEAN, exited : BOOLEAN]
    BY DEF SessionInv, Session!TypeOK, Session!CheckDone, Session!Fails
  <2>2. starter' \in {"generation", "stop"}
    BY DEF Session!CheckDone, Session!Fails
  <2>3. UNCHANGED <<Session!bridgeVars, Session!callVars, Session!requestVars,
                    Session!endVars, cancelled, closer, published>>
    BY DEF Session!CheckDone
  <2> QED  BY <2>1, <2>2, <2>3 DEF SessionInv, Session!TypeOK
<1>2. ReaderInv'
  BY DEF SessionInv, ReaderInv, Session!CheckDone
<1>3. SenderInv'
  BY DEF SessionInv, SenderInv, Session!OneSenderPerCall, Hand, Session!CheckDone
<1>4. ShutInv'
  BY DEF SessionInv, ShutInv, Session!PendingIsWaited, Session!CheckDone
<1>5. InboundInv'
  BY DEF SessionInv, InboundInv, Unread, Session!CheckDone
<1>6. InterruptInv'
  BY DEF SessionInv, InterruptInv, Unread, Session!CheckDone
<1>7. StarterInv'
  BY DEF SessionInv, Session!TypeOK, StarterInv, Session!ReadyMeansNotExited, ShutInv,
     Session!PendingIsWaited, Session!CheckDone, Session!Fails
<1> QED  BY <1>1, <1>2, <1>3, <1>4, <1>5, <1>6, <1>7 DEF SessionInv

\* The generation of the process is recorded.
LEMMA BeginProcessKeeps ==
  ASSUME Session!SessionAssumption, SessionInv, Session!BeginProcess
  PROVE  SessionInv'
<1>1. Session!TypeOK'
  <2>1. session' \in [bridge : BOOLEAN, ready : BOOLEAN, closing : BOOLEAN, exited : BOOLEAN]
    BY DEF SessionInv, Session!TypeOK, Session!BeginProcess, Session!Fails
  <2>2. starter' \in {"publish", "stop"}
    BY DEF Session!BeginProcess, Session!Fails
  <2>3. UNCHANGED <<Session!bridgeVars, Session!callVars, Session!requestVars,
                    Session!endVars, cancelled, closer, published>>
    BY DEF Session!BeginProcess
  <2> QED  BY <2>1, <2>2, <2>3 DEF SessionInv, Session!TypeOK
<1>2. ReaderInv'
  BY DEF SessionInv, ReaderInv, Session!BeginProcess
<1>3. SenderInv'
  BY DEF SessionInv, SenderInv, Session!OneSenderPerCall, Hand, Session!BeginProcess
<1>4. ShutInv'
  BY DEF SessionInv, ShutInv, Session!PendingIsWaited, Session!BeginProcess
<1>5. InboundInv'
  BY DEF SessionInv, InboundInv, Unread, Session!BeginProcess
<1>6. InterruptInv'
  BY DEF SessionInv, InterruptInv, Unread, Session!BeginProcess
<1>7. StarterInv'
  BY DEF SessionInv, Session!TypeOK, StarterInv, Session!ReadyMeansNotExited, ShutInv,
     Session!PendingIsWaited, Session!BeginProcess, Session!Fails
<1> QED  BY <1>1, <1>2, <1>3, <1>4, <1>5, <1>6, <1>7 DEF SessionInv

\* The session becomes ready.
LEMMA BecomeReadyKeeps ==
  ASSUME Session!SessionAssumption, SessionInv, Session!BecomeReady
  PROVE  SessionInv'
<1>1. Session!TypeOK'
  <2>1. session' \in [bridge : BOOLEAN, ready : BOOLEAN, closing : BOOLEAN, exited : BOOLEAN]
    BY DEF SessionInv, Session!TypeOK, Session!BecomeReady, Session!Fails
  <2>2. starter' \in {"ready", "stop"}
    BY DEF Session!BecomeReady, Session!Fails
  <2>3. UNCHANGED <<Session!bridgeVars, Session!callVars, Session!requestVars,
                    Session!endVars, cancelled, closer, published>>
    BY DEF Session!BecomeReady
  <2> QED  BY <2>1, <2>2, <2>3 DEF SessionInv, Session!TypeOK
<1>2. ReaderInv'
  BY DEF SessionInv, ReaderInv, Session!BecomeReady
<1>3. SenderInv'
  BY DEF SessionInv, SenderInv, Session!OneSenderPerCall, Hand, Session!BecomeReady
<1>4. ShutInv'
  BY DEF SessionInv, ShutInv, Session!PendingIsWaited, Session!BecomeReady
<1>5. InboundInv'
  BY DEF SessionInv, InboundInv, Unread, Session!BecomeReady
<1>6. InterruptInv'
  BY DEF SessionInv, InterruptInv, Unread, Session!BecomeReady
<1>7. StarterInv'
  BY DEF SessionInv, Session!TypeOK, StarterInv, Session!ReadyMeansNotExited, ShutInv,
     Session!PendingIsWaited, Session!BecomeReady, Session!Fails, Session!MayBecomeReady
<1> QED  BY <1>1, <1>2, <1>3, <1>4, <1>5, <1>6, <1>7 DEF SessionInv

\* A failed start waits for the process.
LEMMA StarterStopsKeeps ==
  ASSUME Session!SessionAssumption, SessionInv, Session!StarterStops
  PROVE  SessionInv'
<1>1. Session!TypeOK'
  <2>1. child' \in BOOLEAN
    BY DEF SessionInv, Session!TypeOK, Session!StarterStops
  <2>2. starter' \in {"wait", "failed"}
    BY DEF Session!StarterStops
  <2>3. UNCHANGED <<Session!bridgeVars, Session!callVars, Session!requestVars, reaped,
                    reader, cancelled, closer, session, published>>
    BY DEF Session!StarterStops
  <2> QED  BY <2>1, <2>2, <2>3 DEF SessionInv, Session!TypeOK
<1>2. ReaderInv'
  BY DEF SessionInv, ReaderInv, Session!StarterStops
<1>3. SenderInv'
  BY DEF SessionInv, SenderInv, Session!OneSenderPerCall, Hand, Session!StarterStops
<1>4. ShutInv'
  BY DEF SessionInv, ShutInv, Session!PendingIsWaited, Session!StarterStops
<1>5. InboundInv'
  BY DEF SessionInv, InboundInv, Unread, Session!StarterStops
<1>6. InterruptInv'
  BY DEF SessionInv, InterruptInv, Unread, Session!StarterStops
<1>7. StarterInv'
  BY DEF SessionInv, Session!TypeOK, StarterInv, Session!ReadyMeansNotExited, ShutInv,
     Session!PendingIsWaited, Session!StarterStops
<1> QED  BY <1>1, <1>2, <1>3, <1>4, <1>5, <1>6, <1>7 DEF SessionInv

\* The adapter closes the session.
LEMMA CloseSessionKeeps ==
  ASSUME Session!SessionAssumption, SessionInv, Session!CloseSession
  PROVE  SessionInv'
<1>1. Session!TypeOK'
  <2>1. session' \in [bridge : BOOLEAN, ready : BOOLEAN, closing : BOOLEAN, exited : BOOLEAN]
    BY DEF SessionInv, Session!TypeOK, Session!CloseSession
  <2>2. closer' \in {"wait", "stop"}
    BY DEF Session!CloseSession
  <2>3. UNCHANGED <<Session!bridgeVars, Session!callVars, Session!requestVars,
                    Session!endVars, cancelled, starter, published>>
    BY DEF Session!CloseSession
  <2> QED  BY <2>1, <2>2, <2>3 DEF SessionInv, Session!TypeOK
<1>2. ReaderInv'
  BY DEF SessionInv, ReaderInv, Session!CloseSession
<1>3. SenderInv'
  BY DEF SessionInv, SenderInv, Session!OneSenderPerCall, Hand, Session!CloseSession
<1>4. ShutInv'
  BY DEF SessionInv, ShutInv, Session!PendingIsWaited, Session!CloseSession
<1>5. InboundInv'
  BY DEF SessionInv, InboundInv, Unread, Session!CloseSession
<1>6. InterruptInv'
  BY DEF SessionInv, InterruptInv, Unread, Session!CloseSession
<1>7. StarterInv'
  BY DEF SessionInv, Session!TypeOK, StarterInv, Session!ReadyMeansNotExited, ShutInv,
     Session!PendingIsWaited, Session!CloseSession
<1> QED  BY <1>1, <1>2, <1>3, <1>4, <1>5, <1>6, <1>7 DEF SessionInv

\* Close waits for the process.
LEMMA CloserStopsKeeps ==
  ASSUME Session!SessionAssumption, SessionInv, Session!CloserStops
  PROVE  SessionInv'
<1>1. Session!TypeOK'
  <2>1. child' \in BOOLEAN
    BY DEF SessionInv, Session!TypeOK, Session!CloserStops
  <2>2. closer' \in {"wait", "closed"}
    BY DEF Session!CloserStops
  <2>3. UNCHANGED <<Session!bridgeVars, Session!callVars, Session!requestVars, reaped,
                    reader, cancelled, starter, session, published>>
    BY DEF Session!CloserStops
  <2> QED  BY <2>1, <2>2, <2>3 DEF SessionInv, Session!TypeOK
<1>2. ReaderInv'
  BY DEF SessionInv, ReaderInv, Session!CloserStops
<1>3. SenderInv'
  BY DEF SessionInv, SenderInv, Session!OneSenderPerCall, Hand, Session!CloserStops
<1>4. ShutInv'
  BY DEF SessionInv, ShutInv, Session!PendingIsWaited, Session!CloserStops
<1>5. InboundInv'
  BY DEF SessionInv, InboundInv, Unread, Session!CloserStops
<1>6. InterruptInv'
  BY DEF SessionInv, InterruptInv, Unread, Session!CloserStops
<1>7. StarterInv'
  BY DEF SessionInv, Session!TypeOK, StarterInv, Session!ReadyMeansNotExited, ShutInv,
     Session!PendingIsWaited, Session!CloserStops
<1> QED  BY <1>1, <1>2, <1>3, <1>4, <1>5, <1>6, <1>7 DEF SessionInv

\* A session begins with nothing sent.
LEMMA SessionInit ==
  ASSUME Session!SessionAssumption, Session!Init
  PROVE  SessionInv
<1>1. Session!TypeOK
  <2>1. /\ wire \in Seq(Session!Calls \cup Requests)
        /\ writer \in Session!Calls \cup {NoOne}
        /\ answering \in [Requests -> 0..1]
    BY DEF Session!Init
  <2>2. /\ call \in [Session!Calls -> {"idle"}] /\ result \in [Session!Calls -> {"none"}]
        /\ reply \in [Session!Calls -> {<<>>}]
    BY DEF Session!Init
  <2>3. /\ reader = [at |-> "read", id |-> NoOne]
        /\ shut = [step |-> "no", by |-> "none", left |-> {}]
        /\ session = [bridge |-> FALSE, ready |-> FALSE, closing |-> FALSE, exited |-> FALSE]
        /\ starter = "initialize" /\ closer = "no" /\ published = 0
        /\ calls = {} /\ inbound = {} /\ asked = {} /\ open = {}
        /\ child \in BOOLEAN /\ reaped \in BOOLEAN /\ done \in BOOLEAN
        /\ cancelled \in BOOLEAN
    BY DEF Session!Init, Session!Reading
  <2> QED  BY <2>1, <2>2, <2>3 DEF Session!TypeOK
<1>2. ReaderInv /\ SenderInv /\ ShutInv
  BY DEF Session!Init, Session!Reading, ReaderInv, SenderInv, Session!OneSenderPerCall,
     Hand, ShutInv, Session!PendingIsWaited
<1>3. InboundInv /\ InterruptInv
  BY DEF Session!Init, InboundInv, InterruptInv, Unread
<1>4. StarterInv
  BY DEF Session!Init, StarterInv, Session!ReadyMeansNotExited
<1> QED  BY <1>1, <1>2, <1>3, <1>4 DEF SessionInv

\* Every step keeps the invariant.
LEMMA SessionStepKeeps ==
  ASSUME Session!SessionAssumption, SessionInv, Session!Next
  PROVE  SessionInv'
<1>1. CASE \E c \in Session!Calls : Session!BeginCall(c) \/ Session!CallSteps(c)
                                    \/ Session!GiveUp(c) \/ Session!RouteReply(c)
  BY <1>1, BeginCallKeeps, RegisterKeeps, NotWrittenKeeps, CheckedDoneKeeps, WriteCallKeeps,
     AfterWriteKeeps, TakeReplyKeeps, GiveUpKeeps, RouteReplyKeeps
     DEF Session!CallSteps
<1>2. CASE \E r \in Requests : Session!RouteRequest(r) \/ Session!ResolveInbound(r)
                               \/ Session!Respond(r) \/ Session!WriteAnswer(r)
  BY <1>2, RouteRequestKeeps, ResolveInboundKeeps, RespondKeeps, WriteAnswerKeeps
<1>3. CASE Session!ReaderSteps \/ Session!ShutdownSteps
  BY <1>3, DeliverKeeps, HandleRequestKeeps, ReadEndsKeeps, ReapKeeps, ShutdownKeeps,
     FailPendingKeeps, HandleExitKeeps DEF Session!ReaderSteps, Session!ShutdownSteps
<1>4. CASE Session!StarterSteps
  BY <1>4, StartHandshakeKeeps, InitializedKeeps, NotifyKeeps, CheckDoneKeeps,
     BeginProcessKeeps, BecomeReadyKeeps, StarterStopsKeeps DEF Session!StarterSteps
<1>5. CASE Session!ChildExits \/ Session!CloseSession \/ Session!CloserStops
  BY <1>5, ChildExitsKeeps, CloseSessionKeeps, CloserStopsKeeps
<1>6. CASE Session!Shutdown("closer") \/ Session!Shutdown("starter")
  BY <1>6, ShutdownKeeps
<1> QED  BY <1>1, <1>2, <1>3, <1>4, <1>5, <1>6 DEF Session!Next

\* Nothing changes.
LEMMA SessionStutter ==
  ASSUME SessionInv, UNCHANGED Session!vars
  PROVE  SessionInv'
<1>1. Session!TypeOK'
  BY DEF SessionInv, Session!TypeOK, Session!vars
<1>2. ReaderInv' /\ SenderInv' /\ ShutInv'
  BY DEF SessionInv, ReaderInv, SenderInv, Session!OneSenderPerCall, Hand, ShutInv,
     Session!PendingIsWaited, Session!vars
<1>3. InboundInv' /\ InterruptInv'
  BY DEF SessionInv, InboundInv, InterruptInv, Unread, Session!vars
<1>4. StarterInv'
  BY DEF SessionInv, StarterInv, Session!ReadyMeansNotExited, Session!vars
<1> QED  BY <1>1, <1>2, <1>3, <1>4 DEF SessionInv

\* The module CodexSession counts as this module does.
LEMMA SessionCardinality == \A S : Session!Cardinality(S) = Cardinality(S)
BY DEF Session!Cardinality, Cardinality

\* What the invariant says of channels and answers.
LEMMA BridgeSound == SessionInv => Session!BridgeIsSound
<1> SUFFICES ASSUME SessionInv PROVE Session!BridgeIsSound
  OBVIOUS
<1>1. /\ Session!TypeOK
      /\ Session!OneSenderPerCall
      /\ Session!PendingIsWaited
      /\ Session!ReadyMeansNotExited
  BY DEF SessionInv, SenderInv, ShutInv, StarterInv
<1>2. ASSUME NEW r \in Requests
      PROVE  Session!Cardinality({i \in 1..Len(wire) : wire[i] = r}) <= 1
  <2> DEFINE Places == {i \in 1..Len(wire) : wire[i] = r}
  <2>1. \A i, j \in Places : i = j
    BY DEF SessionInv, InboundInv
  <2>2. CASE Places = {}
    <3>1. Cardinality(Places) = 0
      BY <2>2, FS_EmptySet
    <3> QED  BY <3>1, SessionCardinality
  <2>3. CASE Places # {}
    <3>1. PICK i : i \in Places
      BY <2>3
    <3>2. Places = {i}
      BY <2>1, <3>1
    <3>3. Cardinality(Places) = 1
      BY <3>2, FS_Singleton
    <3> QED  BY <3>3, SessionCardinality
  <2> QED  BY <2>2, <2>3
<1> QED  BY <1>1, <1>2 DEF Session!BridgeIsSound, Session!AnsweredOnce

\* An answer is written while nobody holds the lock of the wire, so an interrupt that is
\* on the wire has cancelled.
LEMMA InterruptFirst ==
  ASSUME Session!SessionAssumption, SessionInv, [Session!Next]_(Session!vars),
         NEW r \in Requests, NEW i \in Interrupts, Session!Contains(wire, i),
         wire' = Append(wire, r)
  PROVE  cancelled
<1>1. wire \in Seq(Session!Calls \cup Requests) /\ r \in Session!Calls \cup Requests
  BY DEF SessionInv, Session!TypeOK
<1>2. /\ wire' # wire
      /\ \A c : wire' = Append(wire, c) => c = r
  <2>1. Len(wire) \in Nat
    BY <1>1
  <2>2. Len(Append(wire, r)) = Len(wire) + 1 /\ Append(wire, r)[Len(wire) + 1] = r
    BY <1>1
  <2>3. \A c : Append(wire, c)[Len(wire) + 1] = c
    BY <1>1
  <2> QED  BY <2>1, <2>2, <2>3
<1>3. writer = NoOne
  <2>1. CASE \E c \in Session!Calls : Session!WriteCall(c)
    BY <2>1 DEF Session!WriteCall
  <2>2. CASE \E q \in Requests : Session!WriteAnswer(q)
    BY <2>2 DEF Session!WriteAnswer
  <2>3. CASE ~(\E c \in Session!Calls : Session!WriteCall(c)) /\ ~(\E q \in Requests : Session!WriteAnswer(q))
    <3>1. CASE UNCHANGED Session!vars
      BY <1>2, <3>1 DEF Session!vars
    <3>2. CASE \E c \in Session!Calls : Session!BeginCall(c) \/ Session!CallSteps(c)
                                        \/ Session!GiveUp(c) \/ Session!RouteReply(c)
      BY <1>2, <2>3, <3>2 DEF Session!CallSteps, Session!BeginCall, Session!Register,
         Session!NotWritten, Session!CheckedDone, Session!AfterWrite,
         Session!TakeReply, Session!GiveUp, Session!RouteReply
    <3>3. CASE \E q \in Requests : Session!RouteRequest(q) \/ Session!ResolveInbound(q)
                                   \/ Session!Respond(q) \/ Session!WriteAnswer(q)
      BY <1>2, <2>3, <3>3 DEF Session!RouteRequest, Session!ResolveInbound, Session!Respond
    <3>4. CASE Session!ReaderSteps \/ Session!ShutdownSteps
      BY <1>2, <3>4 DEF Session!ReaderSteps, Session!ShutdownSteps, Session!Deliver,
         Session!HandleRequest, Session!ReadEnds, Session!Reap,
         Session!Shutdown, Session!FailPending, Session!HandleExit
    <3>5. CASE Session!StarterSteps
      BY <1>2, <3>5 DEF Session!StarterSteps, Session!StartHandshake, Session!Initialized,
         Session!Notify, Session!CheckDone,
         Session!BeginProcess, Session!BecomeReady, Session!StarterStops
    <3>6. CASE \/ Session!ChildExits \/ Session!CloseSession \/ Session!CloserStops
               \/ Session!Shutdown("closer") \/ Session!Shutdown("starter")
      BY <1>2, <3>6 DEF Session!ChildExits, Session!CloseSession, Session!CloserStops,
         Session!Shutdown
    <3> QED  BY <3>1, <3>2, <3>3, <3>4, <3>5, <3>6 DEF Session!Next
  <2> QED  BY <2>1, <2>2, <2>3
<1>4. ~Unread(i)
  BY DEF Session!Contains, Unread
<1>5. writer # i
  BY <1>3 DEF Session!SessionAssumption
<1> QED  BY <1>4, <1>5 DEF SessionInv, InterruptInv

\* An exit is published by HandleExit alone, for a session that nobody closes.
LEMMA ExitIsNews ==
  ASSUME SessionInv, [Session!Next]_(Session!vars), published' # published
  PROVE  published = 0 /\ closer = "no"
<1>1. Session!HandleExit
  <2>1. CASE UNCHANGED Session!vars
    BY <2>1 DEF Session!vars
  <2>2. CASE \E c \in Session!Calls : Session!BeginCall(c) \/ Session!CallSteps(c)
                                      \/ Session!GiveUp(c) \/ Session!RouteReply(c)
    BY <2>2 DEF Session!CallSteps, Session!BeginCall, Session!Register, Session!NotWritten,
       Session!CheckedDone, Session!WriteCall, Session!AfterWrite,
       Session!TakeReply, Session!GiveUp, Session!RouteReply
  <2>3. CASE \E q \in Requests : Session!RouteRequest(q) \/ Session!ResolveInbound(q)
                                 \/ Session!Respond(q) \/ Session!WriteAnswer(q)
    BY <2>3 DEF Session!RouteRequest, Session!ResolveInbound, Session!Respond,
       Session!WriteAnswer
  <2>4. CASE Session!ReaderSteps \/ Session!ShutdownSteps
    BY <2>4 DEF Session!ReaderSteps, Session!ShutdownSteps, Session!Deliver,
       Session!HandleRequest, Session!ReadEnds, Session!Reap,
       Session!Shutdown, Session!FailPending
  <2>5. CASE Session!StarterSteps
    BY <2>5 DEF Session!StarterSteps, Session!StartHandshake, Session!Initialized,
       Session!Notify, Session!CheckDone,
       Session!BeginProcess, Session!BecomeReady, Session!StarterStops
  <2>6. CASE \/ Session!ChildExits \/ Session!CloseSession \/ Session!CloserStops
             \/ Session!Shutdown("closer") \/ Session!Shutdown("starter")
    BY <2>6 DEF Session!ChildExits, Session!CloseSession, Session!CloserStops,
       Session!Shutdown
  <2> QED  BY <2>1, <2>2, <2>3, <2>4, <2>5, <2>6 DEF Session!Next
<1>2. Session!Available /\ shut.step = "exit"
  BY <1>1 DEF Session!HandleExit
<1> QED  BY <1>2 DEF SessionInv, ShutInv, StarterInv, Session!Available

\* The session moves in its own part, and stays elsewhere.
LEMMA SessionPart == Spec => Session!Init /\ [][Session!Next]_(Session!vars)
<1>1. Init => Session!Init
  BY DEF Init
<1>2. [Next]_vars => [Session!Next]_(Session!vars)
  BY DEF Next, vars, ToolsStep, SessionStep, VerifyStep, sessionVars, Session!vars
<1> QED BY <1>1, <1>2, PTL DEF Spec

\* SessionInv is an invariant of every session.
THEOREM SessionInvariance == Spec => []SessionInv
<1>1. Session!SessionAssumption
  BY NativeAssumption
<1>2. SessionInv /\ [Session!Next]_(Session!vars) => SessionInv'
  BY <1>1, SessionStepKeeps, SessionStutter
<1>3. Session!Init => SessionInv
  BY <1>1, SessionInit
<1> QED BY <1>2, <1>3, SessionPart, PTL

\* A response channel has at most one sender and room for it, a call that returned left no
\* entry, the process sees at most one answer to a request, no answer follows an interrupt
\* whose tools are not cancelled, and an exit is published once and never while the adapter
\* closes the session (route, shutdown, callAfterWrite, handleExit).
THEOREM SessionSound == Spec => SessionIsSound
<1>1. Session!SessionAssumption
  BY NativeAssumption
<1>2. SessionInv => (part = "session" => Session!BridgeIsSound)
  BY BridgeSound
<1>3. SessionInv /\ [Session!Next]_(Session!vars) =>
      [\A r \in Requests, i \in Interrupts :
         (Session!Contains(wire, i) /\ wire' = Append(wire, r)) => cancelled]_(Session!vars)
  BY <1>1, InterruptFirst
<1>4. SessionInv /\ [Session!Next]_(Session!vars) =>
      [published' # published => published = 0 /\ closer = "no"]_(Session!vars)
  BY ExitIsNews
<1>5. Spec => Session!InterruptCancelsFirst
  BY <1>3, SessionPart, SessionInvariance, PTL DEF Session!InterruptCancelsFirst
<1>6. Spec => Session!ExitIsNotClose
  BY <1>4, SessionPart, SessionInvariance, PTL DEF Session!ExitIsNotClose
<1>7. Spec => [](part = "session" => Session!BridgeIsSound)
  BY <1>2, SessionInvariance, PTL
<1> QED BY <1>5, <1>6, <1>7, PTL DEF SessionIsSound
==============================================================================
