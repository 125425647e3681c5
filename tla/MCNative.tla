------------------------------- MODULE MCNative -------------------------------
(***************************************************************************)
(* The adapter and its native process on a small instance (MCNative.cfg),  *)
(* for what must never happen.  Each behaviour, named by part, is one of   *)
(* five: a turn with a tool that is requested again and again and that an  *)
(* operator must approve; a turn with such a tool and a question; a turn   *)
(* of read commands, which run without asking; the session with its calls  *)
(* and requests; and the lists a thread is verified by.  They share no     *)
(* state, and the variables of the others stay as they began.              *)
(***************************************************************************)
EXTENDS Integers, Sequences, FiniteSets, TLC

CONSTANTS
  Reads, Writes, Questions, MaxRequests, MaximumToolCalls, MaximumInteractions, \* CodexTools
  Initialize, Interrupts, Others, Requests, NoOne,            \* CodexSession
  Names, Wanted, Cursors, Enabled, MaximumPages, MaxEntries   \* CodexVerify

VARIABLES
  part,
  tools, answerable, answered, pending, results, answer, allow, reading, runs, stopped,
  outcome, waiting, observed, finishing, up, exitOwed, over,
  child, reaped, wire, writer, call, result, reply, calls, inbound, asked, open,
  answering, reader, done, shut, cancelled, starter, closer, session, published,
  list, page, cursor, seen, found, verdict, listed, twice

Tools == INSTANCE CodexTools WITH
  inbound <- answerable, call <- answer, cancelled <- stopped
Session == INSTANCE CodexSession WITH pending <- calls
Verify == INSTANCE CodexVerify WITH observed <- found, result <- verdict

ASSUME NativeAssumption ==
  Tools!ToolsAssumption /\ Session!SessionAssumption /\ Verify!VerifyAssumption

toolsVars ==
  <<tools, answerable, answered, pending, results, answer, allow, reading, runs, stopped,
    outcome, waiting, observed, finishing, up, exitOwed, over>>
sessionVars ==
  <<child, reaped, wire, writer, call, result, reply, calls, inbound, asked, open,
    answering, reader, done, shut, cancelled, starter, closer, session, published>>
verifyVars == <<list, page, cursor, seen, found, verdict, listed, twice>>
vars == <<part, toolsVars, sessionVars, verifyVars>>

Init ==
  /\ part \in {"approvals", "asked", "reads", "session", "verify"}
  /\ Tools!Init /\ Session!Init /\ Verify!Init
  /\ part # "verify" => list = "features"

OnTools == part \in {"approvals", "asked", "reads"}

\* The items and the requests of the turn that is played.
TurnItems == IF part = "reads" THEN Reads ELSE Writes
TurnRequests ==
  IF part = "asked" THEN (Writes \X {1}) \cup Questions
  ELSE TurnItems \X (1..MaxRequests)

ToolsStep ==
  /\ OnTools /\ Tools!Next
  /\ answerable' \cup answered' \subseteq TurnRequests
  /\ \A i \in Tools!Items \ TurnItems : tools'[i].state = "none"
  /\ UNCHANGED <<part, sessionVars, verifyVars>>

SessionStep ==
  /\ part = "session" /\ Session!Next
  /\ UNCHANGED <<part, toolsVars, verifyVars>>

VerifyStep ==
  /\ part = "verify" /\ Verify!Next
  /\ UNCHANGED <<part, toolsVars, sessionVars>>

Next == ToolsStep \/ SessionStep \/ VerifyStep

Spec == Init /\ [][Next]_vars

\* Read commands are interchangeable.
Interchangeable == Permutations(Reads)

-----------------------------------------------------------------------------
\* An item runs once and only when it was allowed, and a turn of which anything
\* ran is never said to have had no effect (CodexTools).
EffectsAreTrue == OnTools => Tools!EffectsAreTrue

\* An answer reported as applied was taken and acted on, and an attempt waits
\* exactly while something is asked (CodexTools).
AnswersAreTrue == OnTools => Tools!AnswersAreTrue

\* A turn is reported as ended when its tools are done, and none runs after that
\* (CodexTools).
EndIsQuiet == Tools!EndIsQuiet

\* A response channel has one sender, a request one answer, an interrupt cancels
\* before it is followed, and an exit is news once (CodexSession).
SessionIsSound ==
  /\ [](part = "session" => Session!BridgeIsSound)
  /\ Session!InterruptCancelsFirst /\ Session!ExitIsNotClose

\* A thread is verified only when every wanted feature and server was listed as
\* wanted and nothing else runs (CodexVerify).
VerifiedMeansEnforced ==
  part = "verify" => Verify!TypeOK /\ Verify!VerifiedMeansEnforced
=============================================================================
