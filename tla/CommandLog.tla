----------------------------- MODULE CommandLog -----------------------------
(***************************************************************************)
(* Command admission as its clients see it (runtime/command.go,            *)
(* SubmitCommand; runtime/reserve.go; ensureControlReserve of store.go;    *)
(* CommandStatus of read.go; commitCommandRejection of hold.go): retries   *)
(* after lost answers and crashes, ids used twice, administrative holds,   *)
(* deleted dialogs, and the disk space a control command needs.            *)
(*                                                                         *)
(* What a command does to dialogs, queue and attempts is NodeCommands'     *)
(* subject: here an accepted command is an entry of the effects. node.mu   *)
(* is held from the lookup to the replenished reserve, so one command is   *)
(* in hand at a time; a crash may come between any two of its steps.       *)
(***************************************************************************)
EXTENDS Integers, Sequences, FiniteSets

CONSTANTS
  Ids,           \* command ids
  Disks,         \* how full the data volume may be
  Undecided,     \* no durable outcome
  Nothing,       \* no command in hand
  Dialog,        \* the dialog commands are about
  MaxHolds,      \* bound on the holds placed
  MaxCrashes     \* bound on the crashes

(* dialog.create, message.enqueue, attempt.stop: the payload of a command is its kind. *)
Payloads == {"create", "enqueue", "stop"}
Admission == {"create", "enqueue"}
Scopes == {"node", "dialog"}

(* A row of commands or command_rejections, and the command in hand. *)
Outcomes == [payload : Payloads, accepted : BOOLEAN, receipt : 1..Cardinality(Ids)]
Replies == {"receipt", "id_conflict", "not_found", "not_durable", "refused"}
Hands == [id : Ids, payload : Payloads, released : BOOLEAN,
          at : {"apply", "reject", "replenish", "replenishing", "answer"},
          answer : Replies \cup {"none"}]

\* What the constants have to be; the modules that put this one to work assume it.
LogAssumption ==
  /\ IsFiniteSet(Ids) /\ Dialog \notin Ids
  /\ Disks \subseteq {"ample", "low", "full"} /\ "ample" \in Disks
  /\ MaxHolds \in Nat /\ MaxCrashes \in Nat
  /\ Undecided \notin Outcomes /\ Nothing \notin Hands

VARIABLES
  outcome,   \* commands and command_rejections: the durable outcome of an id
  effects,   \* ids whose domain changes are committed
  receipts,  \* receipt ids drawn so far
  deleted,   \* dialogs with a dialog.deleted event: Dialog, or an id for the dialog it created
  held,      \* scopes of the active holds
  holds,     \* holds placed so far
  disk,      \* free space of the data volume
  reserve,   \* the file .control.reserve
  up,        \* the process runs
  hand,      \* the command in hand: where it stands and the answer it will get
  given,     \* the receipts clients were given
  crashes    \* crashes so far

vars == <<outcome, effects, receipts, deleted, held, holds, disk, reserve, up, hand, given, crashes>>
rows == <<outcome, effects, receipts>>
outside == <<deleted, held, holds, disk>>

Init ==
  /\ outcome = [id \in Ids |-> Undecided] /\ effects = <<>> /\ receipts = 0
  /\ deleted = {} /\ held = {} /\ holds = 0
  /\ disk = "ample" /\ reserve = "whole"
  /\ up = TRUE /\ hand = Nothing /\ given = {} /\ crashes = 0

InHand(id, p, at, answer) == [id |-> id, payload |-> p, at |-> at, answer |-> answer, released |-> FALSE]

-----------------------------------------------------------------------------
(* commandOutcomeTargetsDeletedDialog: the dialog of the receipt, else that of the target. *)
DialogOf(id) ==
  CASE outcome[id].payload # "create" -> {Dialog}
    [] outcome[id].payload = "create" /\ outcome[id].accepted -> {id}
    [] OTHER -> {}

Hidden(id) == DialogOf(id) \cap deleted # {}

(* authorizeObject: the target exists and is not deleted. *)
Authorized(p) == p = "create" \/ Dialog \notin deleted

(* coveringHoldForCommand. *)
Covered(p) ==
  \/ p = "create" /\ "node" \in held
  \/ p = "enqueue" /\ held # {}

\* Mutant of Found: the payload is not compared.
LookUpById(id, p) == IF Hidden(id) THEN "not_found" ELSE "receipt"

Found(id, p) ==
  CASE outcome[id].payload # p -> "id_conflict"
    [] outcome[id].payload = p /\ Hidden(id) -> "not_found"
    [] OTHER -> "receipt"

Seen(id) == outcome[id] # Undecided

(* An id with a durable outcome is answered from it, or told that it names other bytes. *)
Replay(id, p) ==
  /\ up /\ hand = Nothing /\ Seen(id)
  /\ hand' = InHand(id, p, "answer", Found(id, p))
  /\ UNCHANGED <<rows, outside, reserve, up, given, crashes>>

(* The checks that end a new command without a durable outcome. *)
Turn(id, p) ==
  /\ up /\ hand = Nothing /\ ~Seen(id)
  /\ \/ ~Authorized(p) /\ hand' = InHand(id, p, "answer", "not_found")
     \/ /\ Authorized(p)
        /\ \/ (Covered(p) \/ p \notin Admission) /\ reserve # "whole"
           \/ ~Covered(p) /\ p \in Admission /\ disk # "ample"
        /\ hand' = InHand(id, p, "answer", "not_durable")
  /\ UNCHANGED <<rows, outside, reserve, up, given, crashes>>

(* releaseControlReserve: a control command, and a rejection for a hold, get its space. *)
Release(id, p) ==
  /\ up /\ hand = Nothing /\ ~Seen(id) /\ Authorized(p)
  /\ Covered(p) \/ p \notin Admission
  /\ reserve = "whole" /\ reserve' = "gone"
  /\ hand' = [InHand(id, p, IF Covered(p) THEN "reject" ELSE "apply", "none") EXCEPT !.released = TRUE]
  /\ UNCHANGED <<rows, outside, up, given, crashes>>

(* An admission command goes ahead above the storage floor. *)
Admit(id, p) ==
  /\ up /\ hand = Nothing /\ ~Seen(id) /\ Authorized(p)
  /\ ~Covered(p) /\ p \in Admission /\ disk = "ample"
  /\ hand' = InHand(id, p, "apply", "none")
  /\ UNCHANGED <<rows, outside, reserve, up, given, crashes>>

Submit(id, p) == Replay(id, p) \/ Turn(id, p) \/ Release(id, p) \/ Admit(id, p)

-----------------------------------------------------------------------------
Holding(steps) == up /\ hand # Nothing /\ hand.at \in steps

(* applyCommand refuses, or the transaction does not commit: nothing is durable. *)
Abort ==
  /\ Holding({"apply", "reject"})
  /\ \E answer \in {"refused", "not_durable"} :
       /\ answer = "refused" => hand.at = "apply"
       /\ hand' = [hand EXCEPT !.at = "replenish", !.answer = answer]
  /\ UNCHANGED <<rows, outside, reserve, up, given, crashes>>

Decided(accepted) == [payload |-> hand.payload, accepted |-> accepted, receipt |-> receipts + 1]

\* Mutant of Record: the effect is left out of the transaction.
OutcomeWithoutEffect(accepted) ==
  /\ outcome' = [outcome EXCEPT ![hand.id] = Decided(accepted)]
  /\ UNCHANGED effects

(* Domain rows, control action, receipt and node_state are one transaction. *)
Record(accepted) ==
  /\ outcome' = [outcome EXCEPT ![hand.id] = Decided(accepted)]
  /\ effects' = IF accepted THEN Append(effects, hand.id) ELSE effects

Commit ==
  /\ Holding({"apply", "reject"})
  /\ Record(hand.at = "apply")
  /\ receipts' = receipts + 1
  /\ hand' = [hand EXCEPT !.at = "replenish", !.answer = "receipt"]
  /\ UNCHANGED <<outside, reserve, up, given, crashes>>

(* replenishControlReserve, deferred: it writes the file anew, and removes it when that fails. *)
Replenish ==
  /\ Holding({"replenish"})
  /\ IF hand.released
     THEN /\ reserve' = "partial" /\ hand' = [hand EXCEPT !.at = "replenishing"]
     ELSE /\ hand' = [hand EXCEPT !.at = "answer"] /\ UNCHANGED reserve
  /\ UNCHANGED <<rows, outside, up, given, crashes>>

AfterRefill == IF disk = "full" THEN "gone" ELSE "whole"

Replenished ==
  /\ Holding({"replenishing"})
  /\ reserve' = AfterRefill
  /\ hand' = [hand EXCEPT !.at = "answer"]
  /\ UNCHANGED <<rows, outside, up, given, crashes>>

Answered(id, p) == <<id, p, outcome[id].receipt>>

(* The answer reaches the client, or is lost with the connection. *)
Deliver ==
  /\ Holding({"answer"})
  /\ given' = IF hand.answer = "receipt" THEN given \cup {Answered(hand.id, hand.payload)} ELSE given
  /\ hand' = Nothing
  /\ UNCHANGED <<rows, outside, reserve, up, crashes>>

Lose ==
  /\ Holding({"answer"})
  /\ hand' = Nothing
  /\ UNCHANGED <<rows, outside, reserve, up, given, crashes>>

(* CommandStatus: a client that lost the answer may read the receipt. *)
CommandStatus(id) ==
  /\ up /\ hand = Nothing /\ Seen(id) /\ ~Hidden(id)
  /\ given' = given \cup {<<id, outcome[id].payload, outcome[id].receipt>>}
  /\ UNCHANGED <<rows, outside, reserve, up, hand, crashes>>

-----------------------------------------------------------------------------
(* The process dies; an uncommitted transaction is rolled back at the next start. *)
Crash ==
  /\ up /\ crashes < MaxCrashes
  /\ up' = FALSE /\ hand' = Nothing /\ crashes' = crashes + 1
  /\ UNCHANGED <<rows, outside, reserve, given>>

(* open: the reserve is made when it is missing; one that is not whole refuses the volume. *)
Open ==
  /\ ~up /\ reserve # "partial"
  /\ reserve = "gone" => disk # "full"
  /\ up' = TRUE /\ reserve' = "whole"
  /\ UNCHANGED <<rows, outside, hand, given, crashes>>

(* What else may change under node.mu between two commands, and the disk at any time. *)
PlaceHold(s) ==
  /\ up /\ hand = Nothing /\ s \notin held /\ holds < MaxHolds
  /\ held' = held \cup {s} /\ holds' = holds + 1
  /\ UNCHANGED <<rows, deleted, disk, reserve, up, hand, given, crashes>>

ReleaseHold(s) ==
  /\ up /\ hand = Nothing /\ s \in held
  /\ held' = held \ {s}
  /\ UNCHANGED <<rows, deleted, holds, disk, reserve, up, hand, given, crashes>>

Created == {id \in Ids : Seen(id) /\ outcome[id].payload = "create" /\ outcome[id].accepted}

DeleteDialog(d) ==
  /\ up /\ hand = Nothing /\ d \in ({Dialog} \cup Created) \ deleted
  /\ deleted' = deleted \cup {d}
  /\ UNCHANGED <<rows, held, holds, disk, reserve, up, hand, given, crashes>>

DiskChanges ==
  /\ disk' \in Disks \ {disk}
  /\ UNCHANGED <<rows, deleted, held, holds, reserve, up, hand, given, crashes>>

-----------------------------------------------------------------------------
Handle == Abort \/ Commit \/ Replenish \/ Replenished \/ Deliver \/ Lose

Next ==
  \/ \E id \in Ids, p \in Payloads : Submit(id, p)
  \/ \E id \in Ids : CommandStatus(id)
  \/ Handle \/ Crash \/ Open \/ DiskChanges
  \/ \E s \in Scopes : PlaceHold(s) \/ ReleaseHold(s)
  \/ \E d \in Ids \cup {Dialog} : DeleteDialog(d)

Spec == Init /\ [][Next]_vars

(* A client asks again with the payload it sent, and has an answer delivered.                *)
Mine(id, p) == Seen(id) /\ p = outcome[id].payload
Repeat(id) == \E p \in Payloads : Mine(id, p) /\ Replay(id, p)
DeliverTo(id) == hand # Nothing /\ hand.id = id /\ Mine(id, hand.payload) /\ Deliver

-----------------------------------------------------------------------------
TypeOK ==
  /\ outcome \in [Ids -> Outcomes \cup {Undecided}]
  /\ effects \in Seq(Ids) /\ receipts \in 0..Cardinality(Ids)
  /\ deleted \subseteq Ids \cup {Dialog} /\ held \subseteq Scopes /\ holds \in 0..MaxHolds
  /\ disk \in Disks /\ reserve \in {"whole", "gone", "partial"}
  /\ up \in BOOLEAN /\ crashes \in 0..MaxCrashes
  /\ hand \in Hands \cup {Nothing}
  /\ given \subseteq Ids \X Payloads \X (1..Cardinality(Ids))

(* What is accepted takes effect once: the effects are those of the accepted ids, each once,  *)
(* through lost answers, retries under the same id and crashes at any point.                 *)
EffectIffAccepted ==
  /\ \A id \in Ids : (Seen(id) /\ outcome[id].accepted) <=> \E i \in 1..Len(effects) : effects[i] = id
  /\ \A i, j \in 1..Len(effects) : effects[i] = effects[j] => i = j

(* All receipts clients were ever given for an id are one and the same, and were given to    *)
(* the bytes they were issued for (docs/harness-v1.md: reusing the id for a different        *)
(* payload returns id_conflict).                                                             *)
ReceiptsAgree ==
  \A g, h \in given : g[1] = h[1] => g = h

(* While the node runs and no command is in hand, the reserve is a whole file or no file at  *)
(* all: a replenishment that fails leaves nothing half-written behind, which the next        *)
(* control command, or the next start, would refuse.                                         *)
ReserveIsNeverHalf == up /\ hand = Nothing => reserve # "partial"

(* The log is sound: one effect, one receipt, one reserve.                                   *)
CommandsAreSound == TypeOK /\ EffectIffAccepted /\ ReceiptsAgree /\ ReserveIsNeverHalf

(* Every decided command is known to its client, unless the dialog is deleted meanwhile or a *)
(* crash left a half-written reserve behind.                                                 *)
ReceiptIsKnown ==
  \A id \in Ids : Seen(id) => \/ \E g \in given : g[1] = id
                              \/ Hidden(id)
                              \/ ~up /\ reserve = "partial"

(* docs/harness-v1.md: repeating the same command id and payload returns the original        *)
(* receipt, even after versions change. Deleting the dialog is an exception to it.           *)
RepeatReturnsReceipt ==
  hand # Nothing /\ hand.answer # "none" /\ Seen(hand.id) /\ outcome[hand.id].payload = hand.payload
    => hand.answer = "receipt"

(* What a client may rely on (module ExactlyOnce).                                           *)
Promise == INSTANCE ExactlyOnce WITH decided <- outcome, applied <- effects, given <- given,
                                     Receipts <- 1..Cardinality(Ids)

(* CommandLog implements the promise to its clients: an id is decided once and for all, its   *)
(* effect comes with the decision, and receipts are given for decisions only.                *)
KeepsPromise == Promise!Spec
=============================================================================
