---------------------------- MODULE EventChannel ----------------------------
(***************************************************************************)
(* What the event stream of an attempt promises its reader, without queue, *)
(* activation, wake-ups or merged deltas: the events accepted from the     *)
(* provider are numbered, the reader is given them in that order and none  *)
(* is left out; the stream may be cut, and then the reader learns it.      *)
(***************************************************************************)
EXTENDS Integers

VARIABLES
  sent,   \* the number of the last event the channel accepted
  seen,   \* the numbers of the events the reader was given
  state   \* "open", "ended" (no more events), "cut" (events were dropped)

chanVars == <<sent, seen, state>>

ChanInit == sent = 0 /\ seen = {} /\ state = "open"

\* An event is accepted; it may be the last, or the one that was too many.
Accept ==
  /\ state = "open"
  /\ sent' = sent + 1
  /\ state' \in {"open", "ended", "cut"}
  /\ UNCHANGED seen

\* The reader is given the next event, or several merged into one: it has then
\* seen every event up to one of those accepted.
Deliver ==
  /\ state # "cut"
  /\ \E n \in 0..sent : seen \subseteq 0..n /\ seen' = 0..n
  /\ UNCHANGED <<sent, state>>

\* Events are dropped. A stream that ended is cut only while the reader was
\* given nothing of it.
Cut ==
  /\ state = "open" \/ (state = "ended" /\ seen = {})
  /\ state' = "cut"
  /\ UNCHANGED <<sent, seen>>

ChanNext == Accept \/ Deliver \/ Cut

ChanSpec == ChanInit /\ [][ChanNext]_chanVars
=============================================================================
