---------------------------- MODULE Storage_proofs ----------------------------
(***************************************************************************)
(* Theorems about what the node keeps and shows, as MCStorage puts it to   *)
(* work: command admission (CommandLog), for any set of command ids, any   *)
(* number of holds and any number of crashes; artifacts (Artifacts), for   *)
(* any texts, uploads and limits, and any number of crashes; the lists a   *)
(* client walks through (Pages), for any dialogs, any limits of a page and *)
(* any number of commits; and the export of a dialog's history             *)
(* (HistoryReplica), for any messages, texts, sizes of a chunk and number  *)
(* of copies.                                                              *)
(*                                                                         *)
(* What makes the second inductive is the order of the writes: the names   *)
(* of a transaction have no row yet, what it is done with lies on the disk *)
(* with the bytes of its row, and a rename that power may still undo is    *)
(* one whose directory is about to be synced, so never that of a row.  The *)
(* third rests on two facts: a list that is read by offset is, at the      *)
(* version of its cursor, the list the walk began with; and a list that is *)
(* read by sequence only grows, at its end.  The fourth rests on one: what *)
(* a stream holds is what the dialog holds, and that only grows.           *)
(***************************************************************************)
EXTENDS MCStorage, FiniteSetTheorems, WellFoundedInduction, TLAPS

-----------------------------------------------------------------------------
\* Command admission.

\* The ids with a durable outcome.
Known == {id \in Ids : Commands!Seen(id)}

\* The command in hand: it is undecided up to its transaction, and is answered
\* with a receipt only when the outcome of its id is that of its own bytes.
HandInv ==
  hand # Nothing =>
    /\ hand.at \in {"apply", "reject"} => ~Commands!Seen(hand.id)
    /\ hand.answer = "receipt" => Commands!Mine(hand.id, hand.payload)

\* Receipt ids are drawn one per outcome, and clients hold those of the outcomes.
ReceiptInv ==
  /\ receipts = Cardinality(Known)
  /\ \A g \in given :
       /\ Commands!Seen(g[1])
       /\ g = <<g[1], outcome[g[1]].payload, outcome[g[1]].receipt>>

\* The reserve is half a file only while it is rewritten, or after a crash then.
ReserveInv ==
  reserve = "partial" /\ up => hand # Nothing /\ hand.at = "replenishing"

\* The inductive invariant of command admission.
CommandInv ==
  /\ Commands!TypeOK /\ Commands!EffectIffAccepted
  /\ HandInv /\ ReceiptInv /\ ReserveInv

\* Finite sets are the same in the module and in its instance.
LEMMA SameFinite ==
  ASSUME NEW S
  PROVE  /\ Commands!IsFiniteSet(S) <=> IsFiniteSet(S)
         /\ Commands!Cardinality(S) = Cardinality(S)
<1>1. Commands!IsFiniteSet(S) <=> IsFiniteSet(S)
  BY DEF Commands!IsFiniteSet, IsFiniteSet
<1>2. Commands!Cardinality(S) = Cardinality(S)
  BY DEF Commands!Cardinality, Cardinality, Commands!IsFiniteSet, IsFiniteSet
<1> QED BY <1>1, <1>2

\* What the constants of command admission are.
LEMMA CommandConstants ==
  /\ IsFiniteSet(Ids) /\ Cardinality(Ids) \in Nat
  /\ Commands!Cardinality(Ids) = Cardinality(Ids)
  /\ "ample" \in Disks
  /\ MaxHolds \in Nat /\ MaxCrashes \in Nat
  /\ Undecided \notin Commands!Outcomes /\ Nothing \notin Commands!Hands
<1>1. Commands!LogAssumption
  BY StorageAssumption
<1>2. /\ IsFiniteSet(Ids)
      /\ Commands!Cardinality(Ids) = Cardinality(Ids)
  BY <1>1, SameFinite DEF Commands!LogAssumption
<1>3. Cardinality(Ids) \in Nat
  BY <1>2, FS_CardinalityType
<1> QED BY <1>1, <1>2, <1>3 DEF Commands!LogAssumption

\* A new node has decided nothing.
LEMMA CommandInit == Commands!Init => CommandInv
<1> SUFFICES ASSUME Commands!Init PROVE CommandInv
  OBVIOUS
<1>1. Known = {}
  BY DEF Commands!Init, Known, Commands!Seen
<1>2. Cardinality(Known) = 0
  BY <1>1, FS_EmptySet
<1>3. Commands!TypeOK
  BY CommandConstants DEF Commands!Init, Commands!TypeOK
<1>4. Commands!EffectIffAccepted
  BY DEF Commands!Init, Commands!EffectIffAccepted, Commands!Seen
<1> QED
  BY <1>2, <1>3, <1>4
  DEF Commands!Init, CommandInv, HandInv, ReceiptInv, ReserveInv

\* A step that leaves the rows and the receipts of clients alone keeps what is
\* said of them.
LEMMA RowsStand ==
  ASSUME CommandInv, UNCHANGED <<outcome, effects, receipts, given>>
  PROVE  Commands!EffectIffAccepted' /\ ReceiptInv'
<1>1. Known' = Known
  BY DEF Known, Commands!Seen
<1> QED
  BY <1>1
  DEF CommandInv, Commands!EffectIffAccepted, ReceiptInv, Commands!Seen

\* SubmitCommand up to the transaction: nothing is decided.
LEMMA CommandSubmit ==
  ASSUME CommandInv, NEW id \in Ids, NEW p \in Commands!Payloads,
         Commands!Submit(id, p)
  PROVE  CommandInv'
<1> USE DEF Commands!rows, Commands!outside
<1>1. CASE Commands!Replay(id, p)
  <2>1. Commands!Found(id, p) \in Commands!Replies
    BY DEF Commands!Found, Commands!Replies
  <2>2. /\ hand' \in Commands!Hands /\ hand'.id = id /\ hand'.payload = p
        /\ hand'.at = "answer" /\ hand'.answer = Commands!Found(id, p)
    <3>1. hand' = Commands!InHand(id, p, "answer", Commands!Found(id, p))
      BY <1>1 DEF Commands!Replay
    <3> QED BY <3>1, <2>1 DEF Commands!InHand, Commands!Hands
  <2>3. Commands!Found(id, p) = "receipt" => Commands!Mine(id, p)
    BY <1>1 DEF Commands!Found, Commands!Mine, Commands!Replay
  <2>4. Commands!TypeOK'
    BY <1>1, <2>2 DEF CommandInv, Commands!TypeOK, Commands!Replay
  <2>5. HandInv'
    BY <1>1, <2>2, <2>3 DEF HandInv, Commands!Replay, Commands!Mine, Commands!Seen
  <2>6. ReserveInv'
    BY <1>1 DEF CommandInv, ReserveInv, Commands!Replay
  <2> QED
    BY <1>1, <2>4, <2>5, <2>6, RowsStand DEF CommandInv, Commands!Replay
<1>2. CASE Commands!Turn(id, p)
  <2>1. /\ hand' \in Commands!Hands /\ hand'.id = id /\ hand'.payload = p
        /\ hand'.at = "answer" /\ hand'.answer \in {"not_found", "not_durable"}
    <3>1. PICK answer \in {"not_found", "not_durable"} :
            hand' = Commands!InHand(id, p, "answer", answer)
      BY <1>2 DEF Commands!Turn
    <3>2. answer \in Commands!Replies
      BY DEF Commands!Replies
    <3> QED BY <3>1, <3>2 DEF Commands!InHand, Commands!Hands
  <2>2. Commands!TypeOK'
    BY <1>2, <2>1 DEF CommandInv, Commands!TypeOK, Commands!Turn
  <2>3. HandInv'
    BY <1>2, <2>1 DEF HandInv, Commands!Turn
  <2>4. ReserveInv'
    BY <1>2 DEF CommandInv, ReserveInv, Commands!Turn
  <2> QED BY <1>2, <2>2, <2>3, <2>4, RowsStand DEF CommandInv, Commands!Turn
<1>3. CASE Commands!Release(id, p)
  <2>1. /\ hand' \in Commands!Hands /\ hand'.id = id /\ hand'.payload = p
        /\ hand'.at \in {"apply", "reject"} /\ hand'.answer = "none"
    <3>1. PICK at \in {"apply", "reject"} :
            hand' = [Commands!InHand(id, p, at, "none") EXCEPT !.released = TRUE]
      BY <1>3 DEF Commands!Release
    <3> QED BY <3>1 DEF Commands!InHand, Commands!Hands
  <2>2. Commands!TypeOK'
    BY <1>3, <2>1 DEF CommandInv, Commands!TypeOK, Commands!Release
  <2>3. HandInv'
    BY <1>3, <2>1 DEF HandInv, Commands!Release, Commands!Seen
  <2>4. ReserveInv'
    BY <1>3 DEF ReserveInv, Commands!Release
  <2> QED BY <1>3, <2>2, <2>3, <2>4, RowsStand DEF CommandInv, Commands!Release
<1>4. CASE Commands!Admit(id, p)
  <2>1. /\ hand' \in Commands!Hands /\ hand'.id = id /\ hand'.payload = p
        /\ hand'.at = "apply" /\ hand'.answer = "none"
    <3>1. hand' = Commands!InHand(id, p, "apply", "none")
      BY <1>4 DEF Commands!Admit
    <3> QED BY <3>1 DEF Commands!InHand, Commands!Hands
  <2>2. Commands!TypeOK'
    BY <1>4, <2>1 DEF CommandInv, Commands!TypeOK, Commands!Admit
  <2>3. HandInv'
    BY <1>4, <2>1 DEF HandInv, Commands!Admit, Commands!Seen
  <2>4. ReserveInv'
    BY <1>4 DEF CommandInv, ReserveInv, Commands!Admit
  <2> QED BY <1>4, <2>2, <2>3, <2>4, RowsStand DEF CommandInv, Commands!Admit
<1> QED BY <1>1, <1>2, <1>3, <1>4 DEF Commands!Submit

\* Before the transaction there is a receipt id left to draw.
LEMMA ReceiptLeft ==
  ASSUME CommandInv, Commands!Holding({"apply", "reject"})
  PROVE  /\ hand \in Commands!Hands /\ hand.id \in Ids \ Known
         /\ receipts + 1 \in 1..Cardinality(Ids)
         /\ Cardinality(Known \cup {hand.id}) = receipts + 1
<1>1. hand \in Commands!Hands /\ hand.id \in Ids \ Known
  BY DEF CommandInv, Commands!TypeOK, HandInv, Commands!Holding, Known,
     Commands!Hands
<1>2. Known \subseteq Ids /\ IsFiniteSet(Known)
  BY CommandConstants, FS_Subset DEF Known
<1>3. Cardinality(Known \cup {hand.id}) = Cardinality(Known) + 1
  BY <1>1, <1>2, FS_AddElement
<1>4. /\ Known \cup {hand.id} \subseteq Ids
      /\ Cardinality(Known \cup {hand.id}) <= Cardinality(Ids)
      /\ Cardinality(Known) \in Nat
  BY <1>1, <1>2, CommandConstants, FS_Subset, FS_CardinalityType
<1> QED BY <1>1, <1>3, <1>4, CommandConstants DEF CommandInv, ReceiptInv

\* The transaction: the outcome, its effect and its receipt come together.
LEMMA CommandCommit ==
  ASSUME CommandInv, Commands!Commit
  PROVE  CommandInv'
<1> USE DEF Commands!rows, Commands!outside
<1> DEFINE id == hand.id
<1>1. /\ hand # Nothing /\ hand \in Commands!Hands
      /\ id \in Ids /\ id \notin Known /\ ~Commands!Seen(id)
      /\ receipts + 1 \in 1..Cardinality(Ids)
      /\ Cardinality(Known \cup {id}) = receipts + 1
  BY ReceiptLeft DEF Commands!Commit, Commands!Holding, Known
<1>2. PICK accepted \in BOOLEAN : Commands!Record(accepted)
  BY DEF Commands!Commit
<1> DEFINE row == Commands!Decided(accepted)
<1>3. /\ outcome \in [Ids -> Commands!Outcomes \cup {Undecided}]
      /\ effects \in Seq(Ids)
      /\ outcome' = [outcome EXCEPT ![id] = row]
      /\ effects' = IF accepted THEN Append(effects, id) ELSE effects
  BY <1>2 DEF CommandInv, Commands!TypeOK, Commands!Record
<1>4. /\ row \in Commands!Outcomes /\ row # Undecided
      /\ row.payload = hand.payload /\ row.accepted = accepted
  <2>1. row = [payload |-> hand.payload, accepted |-> accepted,
               receipt |-> receipts + 1]
    BY DEF Commands!Decided
  <2>2. hand.payload \in Commands!Payloads
    BY <1>1 DEF Commands!Hands
  <2>3. row \in Commands!Outcomes
    BY <1>1, <2>1, <2>2, CommandConstants DEF Commands!Outcomes
  <2> QED BY <2>1, <2>3, CommandConstants
<1> HIDE DEF row
<1>5. /\ outcome'[id] = row
      /\ \A x \in Ids \ {id} : outcome'[x] = outcome[x]
  BY <1>1, <1>3
<1>6. /\ hand' = [hand EXCEPT !.at = "replenish", !.answer = "receipt"]
      /\ hand' \in Commands!Hands /\ hand'.id = id /\ hand'.at = "replenish"
      /\ hand'.payload = hand.payload
  <2>1. "receipt" \in Commands!Replies \cup {"none"}
    BY DEF Commands!Replies
  <2>2. hand' = [hand EXCEPT !.at = "replenish", !.answer = "receipt"]
    BY DEF Commands!Commit
  <2> QED BY <1>1, <2>1, <2>2 DEF Commands!Hands
<1>7. Known' = Known \cup {id}
  BY <1>1, <1>4, <1>5 DEF Known, Commands!Seen
<1>8. Commands!TypeOK'
  BY <1>1, <1>4, <1>3, <1>6, CommandConstants DEF CommandInv, Commands!TypeOK, Commands!Commit
<1>9. Commands!EffectIffAccepted'
  <2>1. /\ Len(effects) \in Nat
        /\ accepted => /\ Len(effects') = Len(effects) + 1
                       /\ effects'[Len(effects) + 1] = id
                       /\ \A i \in 1..Len(effects) : effects'[i] = effects[i]
        /\ ~accepted => effects' = effects
    BY <1>1, <1>3
  <2>2. \A i \in 1..Len(effects) : effects[i] \in Ids /\ effects[i] # id
    BY <1>1, <1>3 DEF CommandInv, Commands!EffectIffAccepted
  <2>3. ASSUME NEW x \in Ids
        PROVE  (Commands!Seen(x) /\ outcome[x].accepted)'
                 <=> \E i \in 1..Len(effects') : effects'[i] = x
    <3>1. CASE x = id
      BY <3>1, <1>4, <1>5, <2>1, <2>2 DEF Commands!Seen
    <3>2. CASE x # id
      <4>1. (Commands!Seen(x) /\ outcome[x].accepted)'
              <=> (Commands!Seen(x) /\ outcome[x].accepted)
        BY <3>2, <1>5 DEF Commands!Seen
      <4>2. (\E i \in 1..Len(effects') : effects'[i] = x)
              <=> (\E i \in 1..Len(effects) : effects[i] = x)
        BY <3>2, <2>1
      <4> QED BY <4>1, <4>2 DEF CommandInv, Commands!EffectIffAccepted
    <3> QED BY <3>1, <3>2
  <2>4. \A i, j \in 1..Len(effects') : effects'[i] = effects'[j] => i = j
    BY <2>1, <2>2 DEF CommandInv, Commands!EffectIffAccepted
  <2> QED BY <2>3, <2>4 DEF Commands!EffectIffAccepted
<1>10. HandInv'
  BY <1>4, <1>5, <1>6 DEF HandInv, Commands!Mine, Commands!Seen
<1>11. ReceiptInv'
  <2>1. ASSUME NEW g \in given'
        PROVE  /\ Commands!Seen(g[1])'
               /\ g = <<g[1], outcome'[g[1]].payload, outcome'[g[1]].receipt>>
    <3>1. g \in given
      BY DEF Commands!Commit
    <3>2. /\ Commands!Seen(g[1]) /\ g[1] \in Ids
          /\ g = <<g[1], outcome[g[1]].payload, outcome[g[1]].receipt>>
      BY <3>1 DEF CommandInv, ReceiptInv, Commands!TypeOK
    <3>3. outcome'[g[1]] = outcome[g[1]]
      BY <3>2, <1>1, <1>5
    <3> QED BY <3>2, <3>3 DEF Commands!Seen
  <2>2. receipts' = Cardinality(Known')
    BY <1>1, <1>7 DEF Commands!Commit
  <2> QED BY <2>1, <2>2 DEF ReceiptInv
<1>12. ReserveInv'
  BY DEF CommandInv, ReserveInv, Commands!Commit, Commands!Holding
<1> QED BY <1>8, <1>9, <1>10, <1>11, <1>12 DEF CommandInv

\* Clients are given the receipt of the outcome of an id.
GivenTo(id) ==
  /\ Commands!Seen(id)
  /\ given' = given \cup {<<id, outcome[id].payload, outcome[id].receipt>>}

\* A receipt that is given is one of an outcome.
LEMMA ReceiptGiven ==
  ASSUME CommandInv, NEW id \in Ids, GivenTo(id), HandInv', ReserveInv',
         UNCHANGED <<outcome, effects, receipts, deleted, held, holds, disk,
                     reserve, up, crashes>>,
         hand' \in {hand, Nothing}
  PROVE  CommandInv'
<1>1. outcome[id] \in Commands!Outcomes
  BY DEF CommandInv, Commands!TypeOK, GivenTo, Commands!Seen
<1>2. <<id, outcome[id].payload, outcome[id].receipt>>
        \in Ids \X Commands!Payloads \X (1..Commands!Cardinality(Ids))
  BY <1>1 DEF Commands!Outcomes
<1>3. Commands!TypeOK'
  BY <1>2 DEF CommandInv, Commands!TypeOK, GivenTo
<1>4. Commands!EffectIffAccepted'
  BY DEF CommandInv, Commands!EffectIffAccepted, Commands!Seen
<1>5. Known' = Known
  BY DEF Known, Commands!Seen
<1>6. ReceiptInv'
  <2>1. ASSUME NEW g \in given'
        PROVE  /\ Commands!Seen(g[1])'
               /\ g = <<g[1], outcome'[g[1]].payload, outcome'[g[1]].receipt>>
    <3>1. CASE g \in given
      BY <3>1 DEF CommandInv, ReceiptInv, Commands!Seen
    <3>2. CASE g = <<id, outcome[id].payload, outcome[id].receipt>>
      BY <3>2 DEF GivenTo, Commands!Seen
    <3> QED BY <3>1, <3>2 DEF GivenTo
  <2> QED BY <1>5, <2>1 DEF CommandInv, ReceiptInv
<1> QED BY <1>3, <1>4, <1>6 DEF CommandInv

\* The other steps of a command: it fails, restores the reserve, is answered.
LEMMA CommandHandle ==
  ASSUME CommandInv, Commands!Handle, ~Commands!Commit
  PROVE  CommandInv'
<1> USE DEF Commands!rows, Commands!outside
<1>1. hand # Nothing /\ hand \in Commands!Hands
  BY DEF CommandInv, Commands!TypeOK, Commands!Handle, Commands!Abort,
     Commands!Replenish, Commands!Replenished, Commands!Deliver,
     Commands!Lose, Commands!Holding
<1>2. CASE Commands!Abort
  <2>1. PICK answer \in {"refused", "not_durable"} :
          hand' = [hand EXCEPT !.at = "replenish", !.answer = answer]
    BY <1>2 DEF Commands!Abort
  <2>2. /\ hand' \in Commands!Hands /\ hand'.at = "replenish"
        /\ hand'.answer # "receipt"
    BY <1>1, <2>1 DEF Commands!Hands, Commands!Replies
  <2>3. Commands!TypeOK'
    BY <1>2, <2>2 DEF CommandInv, Commands!TypeOK, Commands!Abort
  <2>4. HandInv' /\ ReserveInv'
    BY <1>2, <2>2
    DEF CommandInv, HandInv, ReserveInv, Commands!Abort, Commands!Holding
  <2> QED BY <1>2, <2>3, <2>4, RowsStand DEF CommandInv, Commands!Abort
<1>3. CASE Commands!Replenish
  <2>1. PICK at \in {"answer", "replenishing"} :
          /\ hand' = [hand EXCEPT !.at = at]
          /\ at = "answer" => reserve' = reserve
          /\ at = "replenishing" => reserve' = "partial"
    BY <1>3 DEF Commands!Replenish
  <2>2. /\ hand' \in Commands!Hands /\ hand'.at = at /\ hand'.id = hand.id
        /\ hand'.answer = hand.answer /\ hand'.payload = hand.payload
    BY <1>1, <2>1 DEF Commands!Hands
  <2>3. Commands!TypeOK'
    BY <1>3, <2>1, <2>2 DEF CommandInv, Commands!TypeOK, Commands!Replenish
  <2>4. HandInv'
    BY <1>1, <1>3, <2>1, <2>2
    DEF CommandInv, HandInv, Commands!Replenish, Commands!Mine, Commands!Seen
  <2>5. ReserveInv'
    BY <1>1, <1>3, <2>1, <2>2, CommandConstants
    DEF CommandInv, ReserveInv, Commands!Replenish, Commands!Holding
  <2> QED
    BY <1>3, <2>3, <2>4, <2>5, RowsStand DEF CommandInv, Commands!Replenish
<1>4. CASE Commands!Replenished
  <2>1. /\ hand' \in Commands!Hands /\ hand'.at = "answer" /\ hand'.id = hand.id
        /\ hand'.answer = hand.answer /\ hand'.payload = hand.payload
    BY <1>1, <1>4 DEF Commands!Hands, Commands!Replenished
  <2>2. Commands!TypeOK'
    BY <1>4, <2>1
    DEF CommandInv, Commands!TypeOK, Commands!Replenished, Commands!AfterRefill
  <2>3. HandInv'
    BY <1>1, <1>4, <2>1
    DEF CommandInv, HandInv, Commands!Replenished, Commands!Mine, Commands!Seen
  <2>4. ReserveInv'
    BY <1>4 DEF ReserveInv, Commands!Replenished, Commands!AfterRefill
  <2> QED
    BY <1>4, <2>2, <2>3, <2>4, RowsStand DEF CommandInv, Commands!Replenished
<1>5. CASE Commands!Deliver
  <2>1. /\ UNCHANGED <<outcome, effects, receipts, deleted, held, holds, disk,
                       reserve, up, crashes>>
        /\ hand' = Nothing /\ hand.at = "answer"
        /\ given' = IF hand.answer = "receipt"
                    THEN given \cup {Commands!Answered(hand.id, hand.payload)}
                    ELSE given
    BY <1>5 DEF Commands!Deliver, Commands!Holding
  <2>2. CASE hand.answer = "receipt"
    <3>1. /\ hand.id \in Ids /\ outcome[hand.id] # Undecided
          /\ outcome[hand.id] \in Commands!Outcomes
          /\ hand.payload = outcome[hand.id].payload
      BY <1>1, <2>2
      DEF CommandInv, HandInv, Commands!Mine, Commands!Seen, Commands!TypeOK,
          Commands!Hands
    <3>2. GivenTo(hand.id)
      BY <2>1, <2>2, <3>1 DEF GivenTo, Commands!Answered, Commands!Seen
    <3> QED BY <2>1, <3>1, <3>2, ReceiptGiven DEF CommandInv, ReserveInv, HandInv
  <2>3. CASE hand.answer # "receipt"
    <3>1. Commands!TypeOK'
      BY <2>1, <2>3 DEF CommandInv, Commands!TypeOK
    <3>2. HandInv' /\ ReserveInv'
      BY <2>1 DEF CommandInv, HandInv, ReserveInv
    <3> QED BY <2>1, <2>3, <3>1, <3>2, RowsStand DEF CommandInv
  <2> QED BY <2>2, <2>3
<1>6. CASE Commands!Lose
  <2>1. Commands!TypeOK'
    BY <1>6 DEF CommandInv, Commands!TypeOK, Commands!Lose
  <2>2. HandInv' /\ ReserveInv'
    BY <1>6 DEF CommandInv, HandInv, ReserveInv, Commands!Lose, Commands!Holding
  <2> QED BY <1>6, <2>1, <2>2, RowsStand DEF CommandInv, Commands!Lose
<1> QED BY <1>2, <1>3, <1>4, <1>5, <1>6 DEF Commands!Handle

\* What else may happen between commands, and a crash at any time.
LEMMA CommandAround ==
  ASSUME CommandInv,
         \/ \E id \in Ids : Commands!CommandStatus(id)
         \/ Commands!Crash \/ Commands!Open \/ Commands!DiskChanges
         \/ \E s \in Commands!Scopes :
              Commands!PlaceHold(s) \/ Commands!ReleaseHold(s)
         \/ \E d \in Ids \cup {Dialog} : Commands!DeleteDialog(d)
  PROVE  CommandInv'
<1> USE DEF Commands!rows, Commands!outside
<1>1. ASSUME NEW id \in Ids, Commands!CommandStatus(id)
      PROVE  CommandInv'
  <2>1. /\ UNCHANGED <<outcome, effects, receipts, deleted, held, holds, disk,
                       reserve, up, hand, crashes>>
        /\ GivenTo(id)
    BY <1>1 DEF Commands!CommandStatus, GivenTo
  <2>2. HandInv' /\ ReserveInv'
    BY <2>1 DEF CommandInv, HandInv, ReserveInv, Commands!Mine, Commands!Seen
  <2> QED BY <2>1, <2>2, ReceiptGiven
<1>2. CASE Commands!Crash
  <2>1. crashes' \in 0..MaxCrashes
    BY <1>2, CommandConstants DEF CommandInv, Commands!TypeOK, Commands!Crash
  <2>2. Commands!TypeOK'
    BY <1>2, <2>1 DEF CommandInv, Commands!TypeOK, Commands!Crash
  <2>3. HandInv' /\ ReserveInv'
    BY <1>2 DEF HandInv, ReserveInv, Commands!Crash
  <2> QED BY <1>2, <2>2, <2>3, RowsStand DEF CommandInv, Commands!Crash
<1>3. CASE Commands!Open
  <2>1. Commands!TypeOK'
    BY <1>3 DEF CommandInv, Commands!TypeOK, Commands!Open
  <2>2. HandInv' /\ ReserveInv'
    BY <1>3
    DEF CommandInv, HandInv, ReserveInv, Commands!Open, Commands!Mine, Commands!Seen
  <2> QED BY <1>3, <2>1, <2>2, RowsStand DEF CommandInv, Commands!Open
<1>4. CASE Commands!DiskChanges
  <2>1. Commands!TypeOK'
    BY <1>4 DEF CommandInv, Commands!TypeOK, Commands!DiskChanges
  <2>2. HandInv' /\ ReserveInv'
    BY <1>4
    DEF CommandInv, HandInv, ReserveInv, Commands!DiskChanges, Commands!Mine,
        Commands!Seen
  <2> QED BY <1>4, <2>1, <2>2, RowsStand DEF CommandInv, Commands!DiskChanges
<1>5. ASSUME NEW s \in Commands!Scopes,
             Commands!PlaceHold(s) \/ Commands!ReleaseHold(s)
      PROVE  CommandInv'
  <2>1. Commands!TypeOK'
    BY <1>5, CommandConstants
    DEF CommandInv, Commands!TypeOK, Commands!PlaceHold, Commands!ReleaseHold
  <2>2. HandInv' /\ ReserveInv'
    BY <1>5
    DEF CommandInv, HandInv, ReserveInv, Commands!PlaceHold, Commands!ReleaseHold
  <2> QED
    BY <1>5, <2>1, <2>2, RowsStand
    DEF CommandInv, Commands!PlaceHold, Commands!ReleaseHold
<1>6. ASSUME NEW d \in Ids \cup {Dialog}, Commands!DeleteDialog(d)
      PROVE  CommandInv'
  <2>1. Commands!TypeOK'
    BY <1>6 DEF CommandInv, Commands!TypeOK, Commands!DeleteDialog
  <2>2. HandInv' /\ ReserveInv'
    BY <1>6 DEF CommandInv, HandInv, ReserveInv, Commands!DeleteDialog
  <2> QED BY <1>6, <2>1, <2>2, RowsStand DEF CommandInv, Commands!DeleteDialog
<1> QED BY <1>1, <1>2, <1>3, <1>4, <1>5, <1>6

\* No step of command admission breaks the invariant.
LEMMA CommandNext ==
  ASSUME CommandInv, [Commands!Next]_commandVars
  PROVE  CommandInv'
<1>1. CASE UNCHANGED commandVars
  <2>1. Commands!TypeOK'
    BY <1>1 DEF CommandInv, Commands!TypeOK, commandVars
  <2>2. HandInv' /\ ReserveInv'
    BY <1>1
    DEF CommandInv, HandInv, ReserveInv, commandVars, Commands!Mine, Commands!Seen
  <2> QED BY <1>1, <2>1, <2>2, RowsStand DEF CommandInv, commandVars
<1>2. CASE Commands!Next
  BY <1>2, CommandSubmit, CommandCommit, CommandHandle, CommandAround
  DEF Commands!Next
<1> QED BY <1>1, <1>2

\* Commands run only in their own part, and nothing of theirs moves elsewhere.
LEMMA CommandPart ==
  Spec => Commands!Init /\ [][Commands!Next]_commandVars
<1>1. Init => Commands!Init
  BY DEF Init
<1>2. [Next]_vars => [Commands!Next]_commandVars
  BY DEF Next, vars, CommandStep, FileStep, ListStep, ReplicaStep,
     commandVars
<1> QED BY <1>1, <1>2, PTL DEF Spec

\* CommandInv is an invariant of command admission.
THEOREM CommandInvariance == Spec => []CommandInv
BY CommandPart, CommandInit, CommandNext, PTL

\* Every receipt a client was given for an id is the one of its outcome, so all
\* are one; an accepted command has one effect; and the reserve is whole or
\* absent between commands.
THEOREM CommandsSound == Spec => []CommandsAreSound
<1>1. CommandInv => Commands!CommandsAreSound
  <2> SUFFICES ASSUME CommandInv PROVE Commands!CommandsAreSound
    OBVIOUS
  <2>1. Commands!ReceiptsAgree
    BY DEF CommandInv, ReceiptInv, Commands!ReceiptsAgree
  <2>2. Commands!ReserveIsNeverHalf
    BY DEF CommandInv, ReserveInv, Commands!ReserveIsNeverHalf
  <2> QED BY <2>1, <2>2 DEF CommandInv, Commands!CommandsAreSound
<1>2. CommandInv => CommandsAreSound
  BY <1>1 DEF CommandsAreSound
<1> QED BY <1>2, CommandInvariance, PTL

-----------------------------------------------------------------------------
\* The promise to clients.

\* A new node has promised nothing.
LEMMA PromiseInit == Commands!Init => Commands!Promise!Init
BY DEF Commands!Init, Commands!Promise!Init

\* The transaction decides an undecided id, a delivered receipt and a status that
\* is read give one, and no other step touches what a client relies on.
LEMMA PromiseStep ==
  ASSUME CommandInv, [Commands!Next]_commandVars
  PROVE  [Commands!Promise!Next]_(Commands!Promise!vars)
<1> USE DEF Commands!rows, Commands!outside
<1> DEFINE Still == UNCHANGED Commands!Promise!vars
<1>1. CASE Commands!Commit
  <2>1. /\ hand \in Commands!Hands /\ hand.id \in Ids
        /\ outcome[hand.id] = Undecided
        /\ receipts + 1 \in 1..Commands!Cardinality(Ids)
        /\ given' = given
    BY <1>1, ReceiptLeft, CommandConstants
    DEF Commands!Commit, Known, Commands!Seen
  <2>2. hand.payload \in Commands!Payloads
    BY <2>1 DEF Commands!Hands
  <2>3. PICK accepted \in BOOLEAN : Commands!Record(accepted)
    BY <1>1 DEF Commands!Commit
  <2>4. Commands!Promise!Decide(hand.id, hand.payload)
    BY <2>1, <2>3
    DEF Commands!Promise!Decide, Commands!Record, Commands!Decided
  <2> QED BY <2>1, <2>2, <2>4 DEF Commands!Promise!Next
<1>2. CASE Commands!Deliver
  <2>1. hand # Nothing /\ hand \in Commands!Hands /\ hand.id \in Ids
    BY <1>2
    DEF CommandInv, Commands!TypeOK, Commands!Deliver, Commands!Holding,
        Commands!Hands
  <2>2. CASE hand.answer = "receipt"
    <3>1. Commands!Promise!Give(hand.id)
      BY <1>2, <2>1, <2>2
      DEF CommandInv, HandInv, Commands!Promise!Give, Commands!Deliver,
          Commands!Answered, Commands!Mine, Commands!Seen
    <3> QED BY <2>1, <3>1 DEF Commands!Promise!Next
  <2>3. CASE hand.answer # "receipt"
    BY <1>2, <2>3 DEF Commands!Promise!vars, Commands!Deliver
  <2> QED BY <2>2, <2>3
<1>3. ASSUME NEW id \in Ids, Commands!CommandStatus(id)
      PROVE  Commands!Promise!Next
  <2>1. Commands!Promise!Give(id)
    BY <1>3 DEF Commands!Promise!Give, Commands!CommandStatus, Commands!Seen
  <2> QED BY <2>1 DEF Commands!Promise!Next
<1>4. ASSUME NEW id \in Ids, NEW p \in Commands!Payloads, Commands!Submit(id, p)
      PROVE  Still
  BY <1>4
  DEF Commands!Promise!vars, Commands!Submit, Commands!Replay, Commands!Turn,
      Commands!Release, Commands!Admit
<1>5. CASE Commands!Abort \/ Commands!Replenish \/ Commands!Replenished
           \/ Commands!Lose
  BY <1>5
  DEF Commands!Promise!vars, Commands!Abort, Commands!Replenish,
      Commands!Replenished, Commands!Lose
<1>6. CASE Commands!Crash \/ Commands!Open \/ Commands!DiskChanges
  BY <1>6
  DEF Commands!Promise!vars, Commands!Crash, Commands!Open, Commands!DiskChanges
<1>7. ASSUME NEW s \in Commands!Scopes,
             Commands!PlaceHold(s) \/ Commands!ReleaseHold(s)
      PROVE  Still
  BY <1>7 DEF Commands!Promise!vars, Commands!PlaceHold, Commands!ReleaseHold
<1>8. ASSUME NEW d \in Ids \cup {Dialog}, Commands!DeleteDialog(d)
      PROVE  Still
  BY <1>8 DEF Commands!Promise!vars, Commands!DeleteDialog
<1>9. CASE UNCHANGED commandVars
  BY <1>9 DEF Commands!Promise!vars, commandVars
<1> QED
  BY <1>1, <1>2, <1>3, <1>4, <1>5, <1>6, <1>7, <1>8, <1>9
  DEF Commands!Next, Commands!Handle

\* Command admission implements the promise of module ExactlyOnce: an id is
\* decided once and for all, its effect comes with the decision, and receipts
\* are given for decisions only, through crashes and lost answers.
THEOREM PromiseKept == Spec => KeepsPromise
BY CommandPart, CommandInvariance, PromiseInit, PromiseStep, PTL
DEF KeepsPromise, Commands!KeepsPromise, Commands!Promise!Spec

-----------------------------------------------------------------------------
\* Files and rows of texts and uploads.

Elements(t) == {t[k] : k \in 1..Len(t)}

\* The files of a text, with the usage file before the first one.
FileSet(s, text, complete) ==
  (IF usage = None THEN {Files!UsageFile} ELSE {}) \cup {Files!Manifest(s)}
    \cup (IF complete THEN {Files!Chunk(s, i) : i \in 1..Files!Chunks(text)} ELSE {})

\* The usage file goes with the usage row, and the marker still fits.
UsageInv == (Files!UsageFile \in DOMAIN rows <=> usage # None) /\ Files!RoomForMarker

\* The transaction of the observer: what it names has no row, what it created is
\* there, and what it is done with is there with the bytes of its row.
WriterInv ==
  writer # None =>
    /\ open
    /\ writer.names = FileSet(writer.source, writer.text, writer.complete)
    /\ writer.names \cap DOMAIN rows = {}
    /\ writer.created \subseteq writer.names \cap DOMAIN files
    /\ ~Files!Usage.sealed
    /\ IF writer.complete THEN Files!CanStore(writer.text) ELSE Files!MarkerFits
    /\ Elements(writer.todo) \subseteq writer.names
    /\ \A n \in writer.names \ Elements(writer.todo) :
         n \in DOMAIN files /\ files[n] = Files!Body(n)
    /\ writer.step # "next" => writer.todo # <<>>
    /\ writer.step = "sync" => /\ Head(writer.todo) \in writer.created
                               /\ files[Head(writer.todo)] = Files!Body(Head(writer.todo))

\* An upload has no row until it is committed, and its file while it is to be.
UploadInv ==
  \A id \in Uploads :
    /\ upload[id] # "done" => Files!Upload(id) \notin DOMAIN rows
    /\ upload[id] \in {"renamed", "synced"} =>
         /\ Files!Upload(id) \in DOMAIN files
         /\ files[Files!Upload(id)] = Files!Content(Files!NoText, TRUE)
    /\ upload[id] \in {"temp", "renamed", "synced"} => open

\* A rename that may be undone is one whose directory is about to be synced.
SyncInv ==
  \A n \in unsynced :
    \/ writer # None /\ writer.step = "sync" /\ n = Head(writer.todo)
    \/ \E id \in Uploads : n = Files!Upload(id) /\ upload[id] = "renamed"

\* The inductive invariant of the artifacts.
FileInv ==
  /\ Files!TypeOK /\ Files!RowsHaveFiles /\ Files!TextIsWhole /\ Files!NoOrphans
  /\ UsageInv /\ WriterInv /\ UploadInv /\ SyncInv

-----------------------------------------------------------------------------
\* Names, sequences and numbers.

\* A name says what it is of.
LEMMA Kinds ==
  /\ Files!UsageFile.kind = "usage"
  /\ \A s : Files!Manifest(s).kind = "manifest" /\ Files!Manifest(s).of = s
  /\ \A s, i : /\ Files!Chunk(s, i).kind = "chunk" /\ Files!Chunk(s, i).of = s
               /\ Files!Chunk(s, i).index = i
  /\ \A id : Files!Upload(id).kind = "upload" /\ Files!Upload(id).of = id
BY DEF Files!UsageFile, Files!Manifest, Files!Chunk, Files!Upload

\* What the constants of the artifacts are.
LEMMA FileConstants ==
  ASSUME Files!ArtifactsAssumption
  PROVE  /\ ChunkBytes \in Nat /\ ChunkBytes > 0 /\ MaxSources \in Nat /\ MaxSources > 0
         /\ MarkerReserve \in Nat /\ MarkerReserve > 0 /\ MarkerReserve <= MaxStorage
         /\ MaxText \in Nat /\ MaxStorage \in Nat /\ MaxChunks \in Nat /\ MaxCrashes \in Nat
         /\ TextSizes \subseteq Nat /\ None \notin Files!UsageRows /\ None \notin Files!Writers
BY DEF Files!ArtifactsAssumption

\* A text has a whole number of chunks.
LEMMA ChunksWhole ==
  ASSUME Files!ArtifactsAssumption, NEW text \in Files!Texts
  PROVE  Files!Chunks(text) \in Nat /\ text.size \in Nat
<1>1. text.size \in Nat /\ ChunkBytes \in Nat /\ ChunkBytes > 0
  BY FileConstants DEF Files!Texts
<1>2. text.size + ChunkBytes - 1 \in Nat
  BY <1>1
<1>3. \A a \in Nat, b \in Nat \ {0} : a \div b \in Nat
  OBVIOUS
<1> QED  BY <1>1, <1>2, <1>3 DEF Files!Chunks, Files!CeilDiv

\* A list is its head and the rest.
LEMMA ElementsSplit ==
  ASSUME NEW S, NEW t \in Seq(S), t # <<>>
  PROVE  /\ Head(t) \in S /\ Tail(t) \in Seq(S)
         /\ Elements(t) = {Head(t)} \cup Elements(Tail(t))
<1>1. /\ Len(t) \in Nat \ {0} /\ Head(t) = t[1] /\ Tail(t) \in Seq(S)
      /\ Len(Tail(t)) = Len(t) - 1
      /\ \A k \in 1..(Len(t) - 1) : Tail(t)[k] = t[k + 1]
  OBVIOUS
<1>2. t[1] \in S
  BY <1>1
<1>3. ASSUME NEW e \in Elements(t) PROVE e \in {Head(t)} \cup Elements(Tail(t))
  <2>1. PICK k \in 1..Len(t) : e = t[k]
    BY DEF Elements
  <2>2. CASE k = 1
    BY <1>1, <2>1, <2>2
  <2>3. CASE k # 1
    <3>1. k - 1 \in 1..Len(Tail(t)) /\ Tail(t)[k - 1] = t[(k - 1) + 1] /\ (k - 1) + 1 = k
      BY <1>1, <2>3
    <3> QED  BY <2>1, <3>1 DEF Elements
  <2> QED  BY <2>2, <2>3
<1>4. ASSUME NEW e \in {Head(t)} \cup Elements(Tail(t)) PROVE e \in Elements(t)
  <2>1. CASE e = Head(t)
    BY <1>1, <2>1 DEF Elements
  <2>2. CASE e \in Elements(Tail(t))
    <3>1. PICK k \in 1..Len(Tail(t)) : e = Tail(t)[k]
      BY <2>2 DEF Elements
    <3>2. k + 1 \in 1..Len(t) /\ e = t[k + 1]
      BY <1>1, <3>1
    <3> QED  BY <3>2 DEF Elements
  <2> QED  BY <2>1, <2>2
<1> QED  BY <1>1, <1>2, <1>3, <1>4

\* Lists that follow one another.
LEMMA ElementsJoin ==
  ASSUME NEW S, NEW t \in Seq(S), NEW u \in Seq(S)
  PROVE  t \o u \in Seq(S) /\ Elements(t \o u) = Elements(t) \cup Elements(u)
<1>1. /\ t \o u \in Seq(S) /\ Len(t \o u) = Len(t) + Len(u)
      /\ Len(t) \in Nat /\ Len(u) \in Nat
      /\ \A k \in 1..(Len(t) + Len(u)) :
           (t \o u)[k] = IF k <= Len(t) THEN t[k] ELSE u[k - Len(t)]
  OBVIOUS
<1>2. ASSUME NEW e \in Elements(t \o u) PROVE e \in Elements(t) \cup Elements(u)
  <2>1. PICK k \in 1..(Len(t) + Len(u)) : e = (t \o u)[k]
    BY <1>1 DEF Elements
  <2>2. CASE k <= Len(t)
    BY <1>1, <2>1, <2>2 DEF Elements
  <2>3. CASE k > Len(t)
    <3>1. k - Len(t) \in 1..Len(u) /\ e = u[k - Len(t)]
      BY <1>1, <2>1, <2>3
    <3> QED  BY <3>1 DEF Elements
  <2> QED  BY <1>1, <2>1, <2>2, <2>3
<1>3. ASSUME NEW e \in Elements(t) PROVE e \in Elements(t \o u)
  <2>1. PICK k \in 1..Len(t) : e = t[k]
    BY DEF Elements
  <2>2. k \in 1..Len(t \o u) /\ e = (t \o u)[k]
    BY <1>1, <2>1
  <2> QED  BY <2>2 DEF Elements
<1>4. ASSUME NEW e \in Elements(u) PROVE e \in Elements(t \o u)
  <2>1. PICK k \in 1..Len(u) : e = u[k]
    BY DEF Elements
  <2>2. /\ Len(t) + k \in 1..Len(t \o u) /\ ~(Len(t) + k <= Len(t))
        /\ (Len(t) + k) - Len(t) = k
    BY <1>1, <2>1
  <2>3. e = (t \o u)[Len(t) + k]
    BY <1>1, <2>1, <2>2
  <2> QED  BY <2>2, <2>3 DEF Elements
<1> QED  BY <1>1, <1>2, <1>3, <1>4

\* A list of one, and none.
LEMMA ElementsOne ==
  /\ \A e : Elements(<<e>>) = {e}
  /\ Elements(<<>>) = {}
BY DEF Elements

\* What is left of a directory.
LEMMA WithoutKeeps ==
  ASSUME NEW f, NEW S
  PROVE  /\ DOMAIN Files!Without(f, S) = DOMAIN f \ S
         /\ \A m \in DOMAIN f \ S : Files!Without(f, S)[m] = f[m]
BY DEF Files!Without, Files!Restrict

\* The steps of the transaction keep its type.
LEMMA WriterSteps ==
  ASSUME NEW w \in Files!Writers
  PROVE  /\ [w EXCEPT !.step = "rename"] \in Files!Writers
         /\ w.todo \in Seq(Files!Names)
         /\ w.names \subseteq Files!Names /\ w.created \subseteq Files!Names
         /\ w.text \in Files!Texts /\ w.complete \in BOOLEAN /\ w.source \in AllSources
         /\ w.step \in {"next", "rename", "sync"}
BY DEF Files!Writers

\* The transaction with another list of files to write.
LEMMA WriterRest ==
  ASSUME NEW w \in Files!Writers, NEW t \in Seq(Files!Names)
  PROVE  /\ [w EXCEPT !.todo = t] \in Files!Writers
         /\ [w EXCEPT !.step = "next", !.todo = t] \in Files!Writers
BY DEF Files!Writers

\* The transaction with a file more.
LEMMA WriterCreates ==
  ASSUME NEW w \in Files!Writers, NEW n \in Files!Names
  PROVE  [w EXCEPT !.step = "sync", !.created = @ \cup {n}] \in Files!Writers
BY DEF Files!Writers

\* A file of the observer is no upload's.
LEMMA NotAnUpload ==
  ASSUME WriterInv, writer # None, NEW id
  PROVE  Files!Upload(id) \notin writer.names
<1>1. \A n \in writer.names : n.kind # "upload"
  BY Kinds DEF WriterInv, FileSet
<1> QED  BY <1>1, Kinds

\* The first file that is left to write.
LEMMA FirstOfRest ==
  ASSUME Files!TypeOK, WriterInv, writer # None, writer.todo # <<>>
  PROVE  /\ Head(writer.todo) \in writer.names /\ Head(writer.todo) \in Files!Names
         /\ Head(writer.todo) \notin DOMAIN rows /\ Tail(writer.todo) \in Seq(Files!Names)
         /\ Elements(writer.todo) = {Head(writer.todo)} \cup Elements(Tail(writer.todo))
<1>1. writer \in Files!Writers
  BY DEF Files!TypeOK
<1>2. writer.todo \in Seq(Files!Names)
  BY <1>1, WriterSteps
<1> QED  BY <1>2, ElementsSplit DEF WriterInv

-----------------------------------------------------------------------------
\* The uploads.

\* A step of an upload that is not done touches no file of a row or of the observer.
LEMMA UploadFrame ==
  ASSUME FileInv, NEW id \in Uploads, upload[id] # "done",
         UNCHANGED <<open, rows, usage, writer>>,
         \A m \in DOMAIN files : m # Files!Upload(id) => m \in DOMAIN files' /\ files'[m]
           = files[m]
  PROVE  Files!RowsHaveFiles' /\ Files!TextIsWhole' /\ UsageInv' /\ WriterInv'
<1>1. Files!Upload(id) \notin DOMAIN rows
  BY DEF FileInv, UploadInv
<1>2. Files!RowsHaveFiles'
  BY <1>1 DEF FileInv, Files!RowsHaveFiles
<1>3. Files!TextIsWhole' /\ UsageInv'
  BY DEF FileInv, Files!TextIsWhole, UsageInv, Files!RoomForMarker, Files!MarkerFits,
         Files!Usage
<1>4. ASSUME writer # None PROVE WriterInv'
  <2>1. Files!Upload(id) \notin writer.names
    BY <1>4, NotAnUpload DEF FileInv
  <2>2. /\ open /\ writer.names = FileSet(writer.source, writer.text, writer.complete)
        /\ writer.names \cap DOMAIN rows = {}
        /\ ~Files!Usage.sealed
        /\ IF writer.complete THEN Files!CanStore(writer.text) ELSE Files!MarkerFits
        /\ Elements(writer.todo) \subseteq writer.names
        /\ writer.step # "next" => writer.todo # <<>>
    BY <1>4 DEF FileInv, WriterInv
  <2>3. /\ open' /\ writer'.names = FileSet(writer.source, writer.text, writer.complete)'
        /\ writer'.names \cap DOMAIN rows' = {}
        /\ ~Files!Usage'.sealed
        /\ IF writer'.complete THEN Files!CanStore(writer.text)' ELSE Files!MarkerFits'
        /\ Elements(writer'.todo) \subseteq writer'.names
        /\ writer'.step # "next" => writer'.todo # <<>>
    BY <2>2 DEF FileSet, Files!CanStore, Files!MarkerFits, Files!Usage
  <2>4. writer'.created \subseteq writer'.names \cap DOMAIN files'
    BY <1>4, <2>1 DEF FileInv, WriterInv
  <2>5. \A n \in writer'.names \ Elements(writer'.todo) :
          n \in DOMAIN files' /\ files'[n] = Files!Body(n)'
    BY <1>4, <2>1 DEF FileInv, WriterInv, Files!Body
  <2>6. writer'.step = "sync" => /\ Head(writer'.todo) \in writer'.created
                                 /\ files'[Head(writer'.todo)] = Files!Body(Head(writer.todo))'
    BY <1>4, <2>1 DEF FileInv, WriterInv, Files!Body
  <2> QED  BY <2>3, <2>4, <2>5, <2>6 DEF WriterInv
<1>5. ASSUME writer = None PROVE WriterInv'
  BY <1>5 DEF WriterInv
<1> QED  BY <1>2, <1>3, <1>4, <1>5

\* The bytes of an upload under a temporary name.
LEMMA StoreTempKeeps ==
  ASSUME FileInv, NEW id \in Uploads, Files!StoreTemp(id) PROVE FileInv'
<1>0. Files!Upload(id) \in Files!Names
  BY DEF Files!Names
<1>1. Files!RowsHaveFiles' /\ Files!TextIsWhole' /\ UsageInv' /\ WriterInv'
  BY UploadFrame DEF Files!StoreTemp
<1>2. Files!TypeOK'
  BY <1>0 DEF FileInv, Files!TypeOK, Files!StoreTemp
<1>3. upload \in [Uploads -> {"new", "temp", "renamed", "synced", "done"}]
  BY DEF FileInv, Files!TypeOK
<1>4. \A i \in Uploads : upload'[i] = IF i = id THEN "temp" ELSE upload[i]
  BY <1>3 DEF Files!StoreTemp
<1>5. UploadInv'
  <2>1. open' /\ rows' = rows /\ files' = files /\ upload[id] # "done"
    BY DEF Files!StoreTemp
  <2>2. SUFFICES ASSUME NEW i \in Uploads
                 PROVE  /\ upload'[i] # "done" => Files!Upload(i) \notin DOMAIN rows'
                        /\ upload'[i] \in {"renamed", "synced"} =>
                             /\ Files!Upload(i) \in DOMAIN files'
                             /\ files'[Files!Upload(i)] = Files!Content(Files!NoText, TRUE)
                        /\ upload'[i] \in {"temp", "renamed", "synced"} => open'
    BY DEF UploadInv, Files!Content, Files!NoText
  <2>3. CASE i = id
    BY <1>4, <2>1, <2>3 DEF FileInv, UploadInv
  <2>4. CASE i # id
    BY <1>4, <2>1, <2>4 DEF FileInv, UploadInv
  <2> QED  BY <2>3, <2>4
<1>6. SyncInv'
  BY <1>4 DEF FileInv, SyncInv, Files!StoreTemp
<1>7. Files!NoOrphans'
  <2>1. SUFFICES ASSUME open', NEW n \in DOMAIN files' \ DOMAIN rows',
                        n \notin retained', ~(writer' # None /\ n \in writer'.created)
                 PROVE  n.kind = "upload" /\ upload'[n.of] \in {"renamed", "synced"}
    BY DEF Files!NoOrphans
  <2>2. n.kind = "upload" /\ upload[n.of] \in {"renamed", "synced"} /\ n \in Files!Names
    BY <2>1 DEF FileInv, Files!NoOrphans, Files!TypeOK, Files!StoreTemp
  <2>3. n.of \in Uploads
    BY <2>2, Kinds DEF Files!Names
  <2>4. n.of # id
    BY <2>2 DEF Files!StoreTemp
  <2> QED  BY <1>4, <2>2, <2>3, <2>4
<1> QED  BY <1>1, <1>2, <1>5, <1>6, <1>7 DEF FileInv

\* Its name.
LEMMA StoreRenameKeeps ==
  ASSUME FileInv, NEW id \in Uploads, Files!StoreRename(id) PROVE FileInv'
<1>0. Files!Upload(id) \in Files!Names
  BY DEF Files!Names
<1>f. /\ DOMAIN files' = DOMAIN files \cup {Files!Upload(id)}
      /\ files'[Files!Upload(id)] = Files!Content(Files!NoText, TRUE)
      /\ \A m \in DOMAIN files : m # Files!Upload(id) => files'[m] = files[m]
  <2>1. files' = Files!Put(files, Files!Upload(id), Files!Content(Files!NoText, TRUE))
    BY DEF Files!StoreRename
  <2> QED  BY <2>1 DEF Files!Put
<1>1. Files!RowsHaveFiles' /\ Files!TextIsWhole' /\ UsageInv' /\ WriterInv'
  BY <1>f, UploadFrame DEF Files!StoreRename
<1>2. Files!TypeOK'
  BY <1>0, <1>f DEF FileInv, Files!TypeOK, Files!StoreRename
<1>3. upload \in [Uploads -> {"new", "temp", "renamed", "synced", "done"}]
  BY DEF FileInv, Files!TypeOK
<1>4. \A i \in Uploads : upload'[i] = IF i = id THEN "renamed" ELSE upload[i]
  BY <1>3 DEF Files!StoreRename
<1>5. UploadInv'
  <2>1. \A i \in Uploads : i # id => Files!Upload(i) # Files!Upload(id)
    BY Kinds
  <2> QED  BY <1>4, <1>f, <2>1 DEF FileInv, UploadInv, Files!StoreRename, Files!Content
<1>6. SyncInv'
  BY <1>4 DEF FileInv, SyncInv, Files!StoreRename
<1>7. Files!NoOrphans'
  <2>1. SUFFICES ASSUME open', NEW n \in DOMAIN files' \ DOMAIN rows',
                        n \notin retained', ~(writer' # None /\ n \in writer'.created)
                 PROVE  n.kind = "upload" /\ upload'[n.of] \in {"renamed", "synced"}
    BY DEF Files!NoOrphans
  <2>2. CASE n = Files!Upload(id)
    BY <1>4, <2>2, Kinds
  <2>3. CASE n # Files!Upload(id)
    <3>1. n.kind = "upload" /\ upload[n.of] \in {"renamed", "synced"} /\ n \in Files!Names
      BY <2>1, <2>3, <1>f DEF FileInv, Files!NoOrphans, Files!TypeOK, Files!StoreRename
    <3>2. n.of \in Uploads
      BY <3>1, Kinds DEF Files!Names
    <3> QED  BY <1>4, <3>1, <3>2
  <2> QED  BY <2>2, <2>3
<1> QED  BY <1>1, <1>2, <1>5, <1>6, <1>7 DEF FileInv

\* The directory is synced.
LEMMA StoreSyncKeeps ==
  ASSUME FileInv, NEW id \in Uploads, Files!StoreSync(id) PROVE FileInv'
<1>1. Files!RowsHaveFiles' /\ Files!TextIsWhole' /\ UsageInv' /\ WriterInv'
  BY UploadFrame DEF Files!StoreSync
<1>2. Files!TypeOK'
  BY DEF FileInv, Files!TypeOK, Files!StoreSync, Files!Synced
<1>3. upload \in [Uploads -> {"new", "temp", "renamed", "synced", "done"}]
  BY DEF FileInv, Files!TypeOK
<1>4. \A i \in Uploads : upload'[i] = IF i = id THEN "synced" ELSE upload[i]
  BY <1>3 DEF Files!StoreSync
<1>5. UploadInv'
  BY <1>4 DEF FileInv, UploadInv, Files!StoreSync, Files!Content
<1>6. SyncInv'
  BY DEF SyncInv, Files!StoreSync, Files!Synced
<1>7. Files!NoOrphans'
  <2>1. SUFFICES ASSUME open', NEW n \in DOMAIN files' \ DOMAIN rows',
                        n \notin retained', ~(writer' # None /\ n \in writer'.created)
                 PROVE  n.kind = "upload" /\ upload'[n.of] \in {"renamed", "synced"}
    BY DEF Files!NoOrphans
  <2>2. n.kind = "upload" /\ upload[n.of] \in {"renamed", "synced"} /\ n \in Files!Names
    BY <2>1 DEF FileInv, Files!NoOrphans, Files!TypeOK, Files!StoreSync
  <2>3. n.of \in Uploads
    BY <2>2, Kinds DEF Files!Names
  <2> QED  BY <1>4, <2>2, <2>3
<1> QED  BY <1>1, <1>2, <1>5, <1>6, <1>7 DEF FileInv

\* An upload that is refused is gone.
LEMMA StoreRefusedKeeps ==
  ASSUME FileInv, NEW id \in Uploads, Files!StoreRefused(id) PROVE FileInv'
<1>f. /\ DOMAIN files' = DOMAIN files \ {Files!Upload(id)}
      /\ \A m \in DOMAIN files : m # Files!Upload(id) => files'[m] = files[m]
  <2>1. files' = Files!Without(files, {Files!Upload(id)})
    BY DEF Files!StoreRefused, Files!Discard
  <2>2. /\ DOMAIN files' = DOMAIN files \ {Files!Upload(id)}
        /\ \A m \in DOMAIN files \ {Files!Upload(id)} : files'[m] = files[m]
    BY <2>1, WithoutKeeps
  <2> QED  BY <2>2
<1>1. Files!RowsHaveFiles' /\ Files!TextIsWhole' /\ UsageInv' /\ WriterInv'
  BY <1>f, UploadFrame DEF Files!StoreRefused
<1>2. Files!TypeOK'
  BY <1>f DEF FileInv, Files!TypeOK, Files!StoreRefused, Files!Discard
<1>3. upload \in [Uploads -> {"new", "temp", "renamed", "synced", "done"}]
  BY DEF FileInv, Files!TypeOK
<1>4. \A i \in Uploads : upload'[i] = IF i = id THEN "done" ELSE upload[i]
  BY <1>3 DEF Files!StoreRefused
<1>5. UploadInv'
  <2>1. \A i \in Uploads : i # id => Files!Upload(i) # Files!Upload(id)
    BY Kinds
  <2>2. open' = open /\ rows' = rows
    BY DEF Files!StoreRefused
  <2>3. SUFFICES ASSUME NEW i \in Uploads, i # id
                 PROVE  /\ upload'[i] # "done" => Files!Upload(i) \notin DOMAIN rows'
                        /\ upload'[i] \in {"renamed", "synced"} =>
                             /\ Files!Upload(i) \in DOMAIN files'
                             /\ files'[Files!Upload(i)] = Files!Content(Files!NoText, TRUE)
                        /\ upload'[i] \in {"temp", "renamed", "synced"} => open'
    BY <1>4 DEF UploadInv, Files!Content, Files!NoText
  <2> QED  BY <1>4, <1>f, <2>1, <2>2, <2>3 DEF FileInv, UploadInv
<1>6. SyncInv'
  <2>1. SUFFICES ASSUME NEW n \in unsynced, n # Files!Upload(id)
                 PROVE  \/ writer # None /\ writer.step = "sync" /\ n = Head(writer.todo)
                        \/ \E i \in Uploads : n = Files!Upload(i) /\ upload'[i] = "renamed"
    BY DEF SyncInv, Files!StoreRefused, Files!Discard
  <2> QED  BY <1>4, <2>1 DEF FileInv, SyncInv
<1>7. Files!NoOrphans'
  <2>1. SUFFICES ASSUME open', NEW n \in DOMAIN files' \ DOMAIN rows',
                        n \notin retained', ~(writer' # None /\ n \in writer'.created)
                 PROVE  n.kind = "upload" /\ upload'[n.of] \in {"renamed", "synced"}
    BY DEF Files!NoOrphans
  <2>2. n.kind = "upload" /\ upload[n.of] \in {"renamed", "synced"} /\ n \in Files!Names
    BY <2>1, <1>f DEF FileInv, Files!NoOrphans, Files!TypeOK, Files!StoreRefused
  <2>3. n.of \in Uploads /\ n = Files!Upload(n.of)
    BY <2>2, Kinds DEF Files!Names
  <2> QED  BY <1>4, <1>f, <2>1, <2>2, <2>3
<1> QED  BY <1>1, <1>2, <1>5, <1>6, <1>7 DEF FileInv

\* Its row, with the file below it.
LEMMA StoreCommitKeeps ==
  ASSUME FileInv, NEW id \in Uploads, NEW c \in BOOLEAN, NEW r \in BOOLEAN,
         Files!StoreCommit(id, c, r)
  PROVE  FileInv'
<1>0. Files!Upload(id) \in Files!Names /\ Files!Upload(id).kind = "upload"
  BY Kinds DEF Files!Names
<1>r. /\ c => DOMAIN rows' = DOMAIN rows \cup {Files!Upload(id)}
      /\ c => rows'[Files!Upload(id)] = Files!Content(Files!NoText, TRUE)
      /\ c => \A m \in DOMAIN rows : m # Files!Upload(id) => rows'[m] = rows[m]
      /\ ~c => rows' = rows
      /\ Files!Upload(id) \notin DOMAIN rows
  <2>1. c => rows' = Files!Put(rows, Files!Upload(id), Files!Content(Files!NoText, TRUE))
    BY DEF Files!StoreCommit
  <2>2. ~c => rows' = rows
    BY DEF Files!StoreCommit
  <2>3. Files!Upload(id) \notin DOMAIN rows
    BY DEF Files!StoreCommit, FileInv, UploadInv
  <2>4. /\ c => DOMAIN rows' = DOMAIN rows \cup {Files!Upload(id)}
        /\ c => rows'[Files!Upload(id)] = Files!Content(Files!NoText, TRUE)
        /\ c => \A m \in DOMAIN rows : m # Files!Upload(id) => rows'[m] = rows[m]
    BY <2>1 DEF Files!Put
  <2> QED  BY <2>2, <2>3, <2>4
<1>1. Files!RowsHaveFiles'
  BY <1>r DEF FileInv, Files!RowsHaveFiles, UploadInv, Files!StoreCommit, Files!disk
<1>2. Files!TypeOK'
  BY <1>0, <1>r DEF FileInv, Files!TypeOK, Files!StoreCommit, Files!disk
<1>3. upload \in [Uploads -> {"new", "temp", "renamed", "synced", "done"}]
  BY DEF FileInv, Files!TypeOK
<1>4. \A i \in Uploads : upload'[i] = IF i = id THEN "done" ELSE upload[i]
  BY <1>3 DEF Files!StoreCommit
<1>5. UploadInv'
  <2>1. \A i \in Uploads : i # id => Files!Upload(i) # Files!Upload(id)
    BY Kinds
  <2> QED  BY <1>4, <1>r, <2>1 DEF FileInv, UploadInv, Files!StoreCommit, Files!disk
<1>6. SyncInv'
  BY <1>4 DEF FileInv, SyncInv, Files!StoreCommit, Files!disk
<1>7. Files!NoOrphans'
  <2>1. SUFFICES ASSUME open', NEW n \in DOMAIN files' \ DOMAIN rows',
                        n \notin retained', ~(writer' # None /\ n \in writer'.created)
                 PROVE  n.kind = "upload" /\ upload'[n.of] \in {"renamed", "synced"}
    BY DEF Files!NoOrphans
  <2>2. n # Files!Upload(id)
    BY <2>1, <1>r DEF Files!StoreCommit
  <2>3. n.kind = "upload" /\ upload[n.of] \in {"renamed", "synced"} /\ n \in Files!Names
    BY <2>1, <1>r DEF FileInv, Files!NoOrphans, Files!TypeOK, Files!StoreCommit, Files!disk
  <2>4. n.of \in Uploads /\ n = Files!Upload(n.of)
    BY <2>3, Kinds DEF Files!Names
  <2> QED  BY <1>4, <2>2, <2>3, <2>4
<1>8. Files!TextIsWhole'
  <2>1. ~c => Files!TextIsWhole'
    BY <1>r DEF FileInv, Files!TextIsWhole
  <2>2. CASE c
    <3>1. \A s : Files!Upload(id) # Files!Manifest(s)
      BY Kinds
    <3>2. \A s : {k \in DOMAIN rows' : k.kind = "chunk" /\ k.of = s}
                   = {k \in DOMAIN rows : k.kind = "chunk" /\ k.of = s}
      BY <1>0, <1>r, <2>2
    <3>3. \A s : /\ Files!Manifest(s) \in DOMAIN rows' <=> Files!Manifest(s) \in DOMAIN rows
                 /\ Files!Manifest(s) \in DOMAIN rows =>
                      rows'[Files!Manifest(s)] = rows[Files!Manifest(s)]
      BY <1>r, <2>2, <3>1
    <3>4. \A n \in DOMAIN rows' : n.kind = "chunk" =>
            n \in DOMAIN rows /\ rows'[n] = rows[n]
      BY <1>0, <1>r, <2>2
    <3>5. \A s \in AllSources : Files!Manifest(s) \in DOMAIN rows' =>
            {n.index : n \in {k \in DOMAIN rows' : k.kind = "chunk" /\ k.of = s}}
              = IF rows'[Files!Manifest(s)].complete
                THEN 1..Files!Chunks(rows'[Files!Manifest(s)].text) ELSE {}
      BY <3>2, <3>3 DEF FileInv, Files!TextIsWhole
    <3>6. \A n \in DOMAIN rows' : n.kind = "chunk" =>
            Files!Manifest(n.of) \in DOMAIN rows' /\ rows'[n] = rows'[Files!Manifest(n.of)]
      BY <3>3, <3>4 DEF FileInv, Files!TextIsWhole
    <3> QED  BY <3>5, <3>6 DEF Files!TextIsWhole
  <2> QED  BY <2>1, <2>2
<1>9. UsageInv'
  <2>1. Files!UsageFile # Files!Upload(id)
    BY Kinds
  <2> QED  BY <1>r, <2>1
           DEF FileInv, UsageInv, Files!RoomForMarker, Files!MarkerFits, Files!Usage,
               Files!StoreCommit
<1>10. WriterInv'
  BY DEF WriterInv, Files!StoreCommit
<1> QED  BY <1>1, <1>2, <1>5, <1>6, <1>7, <1>8, <1>9, <1>10 DEF FileInv

-----------------------------------------------------------------------------
\* The observer's transaction.

\* A step of the transaction that leaves rows, usage and uploads alone, and the
\* files that are not in its names, keeps what is said of the rest.
LEMMA WriterFrame ==
  ASSUME FileInv, writer # None, UNCHANGED <<open, rows, usage, upload, retained>>,
         \A m \in DOMAIN files : m \notin writer.names =>
           m \in DOMAIN files' /\ files'[m] = files[m]
  PROVE  Files!RowsHaveFiles' /\ Files!TextIsWhole' /\ UsageInv' /\ UploadInv'
<1>1. Files!RowsHaveFiles'
  BY DEF FileInv, Files!RowsHaveFiles, WriterInv
<1>2. Files!TextIsWhole' /\ UsageInv'
  BY DEF FileInv, Files!TextIsWhole, UsageInv, Files!RoomForMarker, Files!MarkerFits,
         Files!Usage
<1>3. \A id : Files!Upload(id) \notin writer.names
  BY NotAnUpload DEF FileInv
<1>4. SUFFICES ASSUME NEW i \in Uploads
               PROVE  /\ upload'[i] # "done" => Files!Upload(i) \notin DOMAIN rows'
                      /\ upload'[i] \in {"renamed", "synced"} =>
                           /\ Files!Upload(i) \in DOMAIN files'
                           /\ files'[Files!Upload(i)] = Files!Content(Files!NoText, TRUE)
                      /\ upload'[i] \in {"temp", "renamed", "synced"} => open'
  BY <1>1, <1>2 DEF UploadInv, Files!Content, Files!NoText
<1> QED  BY <1>3 DEF FileInv, UploadInv

\* What the transaction needs of the usage row stays.
LEMMA WriterNeeds ==
  ASSUME FileInv, writer # None, writer' # None, UNCHANGED <<open, rows, usage>>,
         writer'.source = writer.source, writer'.text = writer.text,
         writer'.complete = writer.complete, writer'.names = writer.names
  PROVE  /\ open' /\ writer'.names = FileSet(writer.source, writer.text, writer.complete)'
         /\ writer'.names \cap DOMAIN rows' = {}
         /\ ~Files!Usage'.sealed
         /\ IF writer'.complete THEN Files!CanStore(writer.text)' ELSE Files!MarkerFits'
         /\ \A n : Files!Body(n)' = Files!Body(n)
<1>1. /\ open /\ writer.names = FileSet(writer.source, writer.text, writer.complete)
      /\ writer.names \cap DOMAIN rows = {}
      /\ ~Files!Usage.sealed
      /\ IF writer.complete THEN Files!CanStore(writer.text) ELSE Files!MarkerFits
  BY DEF FileInv, WriterInv
<1>2. \A n : Files!Body(n)' = Files!Body(n)
  BY DEF Files!Body, Files!Content
<1>3. open' /\ writer'.names = FileSet(writer.source, writer.text, writer.complete)'
  BY <1>1 DEF FileSet
<1>4. writer'.names \cap DOMAIN rows' = {} /\ ~Files!Usage'.sealed
  BY <1>1 DEF Files!Usage
<1>5. IF writer'.complete THEN Files!CanStore(writer.text)' ELSE Files!MarkerFits'
  BY <1>1 DEF Files!CanStore, Files!MarkerFits, Files!Usage
<1> QED  BY <1>2, <1>3, <1>4, <1>5

\* The files this transaction created are removed.
LEMMA RollbackKeeps ==
  ASSUME FileInv, writer # None, Files!Rollback PROVE FileInv'
<1>1. writer.created \subseteq writer.names
  BY DEF FileInv, WriterInv
<1>f. /\ DOMAIN files' = DOMAIN files \ writer.created
      /\ \A m \in DOMAIN files \ writer.created : files'[m] = files[m]
  <2>1. files' = Files!Without(files, writer.created)
    BY DEF Files!Rollback, Files!CleanUp
  <2> QED  BY <2>1, WithoutKeeps
<1>2. Files!RowsHaveFiles' /\ Files!TextIsWhole' /\ UsageInv' /\ UploadInv'
  BY <1>1, <1>f, WriterFrame DEF Files!Rollback
<1>3. Files!TypeOK'
  BY <1>f DEF FileInv, Files!TypeOK, Files!Rollback
<1>4. WriterInv'
  BY DEF WriterInv, Files!Rollback
<1>5. SyncInv'
  <2>1. SUFFICES ASSUME NEW n \in unsynced, n \notin writer.created
                 PROVE  \E i \in Uploads : n = Files!Upload(i) /\ upload'[i] = "renamed"
    BY DEF SyncInv, Files!Rollback
  <2>2. \E i \in Uploads : n = Files!Upload(i) /\ upload[i] = "renamed"
    BY <2>1 DEF FileInv, SyncInv, WriterInv
  <2> QED  BY <2>2 DEF Files!Rollback
<1>6. Files!NoOrphans'
  BY <1>f DEF FileInv, Files!NoOrphans, Files!Rollback
<1> QED  BY <1>2, <1>3, <1>4, <1>5, <1>6 DEF FileInv

\* A file that is there with the same bytes is left as it is.
LEMMA FindFileKeeps ==
  ASSUME Files!ArtifactsAssumption, FileInv, Files!FindFile PROVE FileInv'
<1>1. CASE ~Files!SameFile(Head(writer.todo))
  BY <1>1, RollbackKeeps DEF Files!FindFile
<1>2. CASE Files!SameFile(Head(writer.todo))
  <2>0. /\ writer # None /\ writer.step = "next" /\ writer.todo # <<>>
        /\ Head(writer.todo) \in DOMAIN files
        /\ files[Head(writer.todo)] = Files!Body(Head(writer.todo))
        /\ writer' = [writer EXCEPT !.todo = Tail(writer.todo)]
        /\ UNCHANGED <<open, files, temps, unsynced, rows, usage, upload, retained, failures>>
    BY <1>2 DEF Files!FindFile, Files!SameFile, Files!disk
  <2>1. writer \in Files!Writers
    BY <2>0 DEF FileInv, Files!TypeOK
  <2>2. /\ Tail(writer.todo) \in Seq(Files!Names)
        /\ Elements(writer.todo) = {Head(writer.todo)} \cup Elements(Tail(writer.todo))
    BY <2>0, FirstOfRest DEF FileInv
  <2>3. writer' \in Files!Writers
    BY <2>0, <2>1, <2>2, WriterRest
  <2>4. /\ writer' # None /\ writer'.source = writer.source /\ writer'.text = writer.text
        /\ writer'.complete = writer.complete /\ writer'.names = writer.names
        /\ writer'.created = writer.created /\ writer'.step = "next"
        /\ writer'.todo = Tail(writer.todo)
    BY <2>0, <2>1, <2>3, FileConstants DEF Files!Writers
  <2>5. Files!RowsHaveFiles' /\ Files!TextIsWhole' /\ UsageInv' /\ UploadInv'
    BY <2>0, WriterFrame
  <2>6. Files!TypeOK'
    BY <2>0, <2>3 DEF FileInv, Files!TypeOK
  <2>7. WriterInv'
    <3>1. /\ open' /\ writer'.names = FileSet(writer.source, writer.text, writer.complete)'
          /\ writer'.names \cap DOMAIN rows' = {} /\ ~Files!Usage'.sealed
          /\ IF writer'.complete THEN Files!CanStore(writer.text)' ELSE Files!MarkerFits'
          /\ \A n : Files!Body(n)' = Files!Body(n)
      BY <2>0, <2>4, WriterNeeds
    <3>2. /\ writer'.created \subseteq writer'.names \cap DOMAIN files'
          /\ Elements(writer'.todo) \subseteq writer'.names
      BY <2>0, <2>2, <2>4 DEF FileInv, WriterInv
    <3>3. \A n \in writer'.names \ Elements(writer'.todo) :
            n \in DOMAIN files' /\ files'[n] = Files!Body(n)'
      BY <2>0, <2>2, <2>4, <3>1 DEF FileInv, WriterInv
    <3> QED  BY <2>4, <3>1, <3>2, <3>3 DEF WriterInv
  <2>8. SyncInv'
    BY <2>0, <2>4 DEF FileInv, SyncInv
  <2>9. Files!NoOrphans'
    BY <2>0, <2>4 DEF FileInv, Files!NoOrphans
  <2> QED  BY <2>5, <2>6, <2>7, <2>8, <2>9 DEF FileInv
<1> QED  BY <1>1, <1>2

\* The bytes under a temporary name.
LEMMA WriteTempKeeps ==
  ASSUME Files!ArtifactsAssumption, FileInv, Files!WriteTemp PROVE FileInv'
<1>0. /\ writer # None /\ writer.step = "next" /\ writer.todo # <<>>
      /\ writer' = [writer EXCEPT !.step = "rename"]
      /\ temps' = temps \cup {Head(writer.todo)}
      /\ UNCHANGED <<open, files, unsynced, rows, usage, upload, retained, failures>>
  BY DEF Files!WriteTemp
<1>1. writer \in Files!Writers
  BY <1>0 DEF FileInv, Files!TypeOK
<1>2. Head(writer.todo) \in Files!Names
  BY <1>0, FirstOfRest DEF FileInv
<1>3. writer' \in Files!Writers
  BY <1>0, <1>1, WriterSteps
<1>4. /\ writer' # None /\ writer'.source = writer.source /\ writer'.text = writer.text
      /\ writer'.complete = writer.complete /\ writer'.names = writer.names
      /\ writer'.created = writer.created /\ writer'.step = "rename"
      /\ writer'.todo = writer.todo
  BY <1>0, <1>1, <1>3, FileConstants DEF Files!Writers
<1>5. Files!RowsHaveFiles' /\ Files!TextIsWhole' /\ UsageInv' /\ UploadInv'
  BY <1>0, WriterFrame
<1>6. Files!TypeOK'
  BY <1>0, <1>2, <1>3 DEF FileInv, Files!TypeOK
<1>7. WriterInv'
  <2>1. /\ open' /\ writer'.names = FileSet(writer.source, writer.text, writer.complete)'
        /\ writer'.names \cap DOMAIN rows' = {} /\ ~Files!Usage'.sealed
        /\ IF writer'.complete THEN Files!CanStore(writer.text)' ELSE Files!MarkerFits'
        /\ \A n : Files!Body(n)' = Files!Body(n)
    BY <1>0, <1>4, WriterNeeds
  <2>2. /\ writer'.created \subseteq writer'.names \cap DOMAIN files'
        /\ Elements(writer'.todo) \subseteq writer'.names
    BY <1>0, <1>4 DEF FileInv, WriterInv
  <2>3. \A n \in writer'.names \ Elements(writer'.todo) :
          n \in DOMAIN files' /\ files'[n] = Files!Body(n)'
    BY <1>0, <1>4, <2>1 DEF FileInv, WriterInv
  <2> QED  BY <1>0, <1>4, <2>1, <2>2, <2>3 DEF WriterInv
<1>8. SyncInv'
  BY <1>0, <1>4 DEF FileInv, SyncInv
<1>9. Files!NoOrphans'
  BY <1>0, <1>4 DEF FileInv, Files!NoOrphans
<1> QED  BY <1>5, <1>6, <1>7, <1>8, <1>9 DEF FileInv

\* The file gets its name.
LEMMA RenameKeeps ==
  ASSUME Files!ArtifactsAssumption, FileInv, Files!Rename PROVE FileInv'
<1> DEFINE n == Head(writer.todo)
<1>0. /\ writer # None /\ writer.step = "rename"
      /\ writer' = [writer EXCEPT !.step = "sync", !.created = @ \cup {n}]
      /\ temps' = temps \ {n} /\ unsynced' = unsynced \cup {n}
      /\ files' = Files!Put(files, n, Files!Body(n))
      /\ UNCHANGED <<open, rows, usage, upload, retained, failures>>
  BY DEF Files!Rename
<1>a. writer.todo # <<>>
  BY <1>0 DEF FileInv, WriterInv
<1>1. writer \in Files!Writers
  BY <1>0 DEF FileInv, Files!TypeOK
<1>2. /\ n \in Files!Names /\ n \in writer.names
      /\ Elements(writer.todo) = {n} \cup Elements(Tail(writer.todo))
  BY <1>0, <1>a, FirstOfRest DEF FileInv
<1> HIDE DEF n
<1>3. writer' \in Files!Writers
  BY <1>0, <1>1, <1>2, WriterCreates
<1>4. /\ writer' # None /\ writer'.source = writer.source /\ writer'.text = writer.text
      /\ writer'.complete = writer.complete /\ writer'.names = writer.names
      /\ writer'.created = writer.created \cup {n} /\ writer'.step = "sync"
      /\ writer'.todo = writer.todo
  BY <1>0, <1>1, <1>3, FileConstants DEF Files!Writers
<1>f. /\ DOMAIN files' = DOMAIN files \cup {n} /\ files'[n] = Files!Body(n)
      /\ \A m \in DOMAIN files : m # n => files'[m] = files[m]
  BY <1>0 DEF Files!Put
<1>5. Files!RowsHaveFiles' /\ Files!TextIsWhole' /\ UsageInv' /\ UploadInv'
  BY <1>0, <1>2, <1>f, WriterFrame
<1>6. Files!TypeOK'
  BY <1>0, <1>2, <1>3, <1>f DEF FileInv, Files!TypeOK
<1>7. WriterInv'
  <2>1. /\ open' /\ writer'.names = FileSet(writer.source, writer.text, writer.complete)'
        /\ writer'.names \cap DOMAIN rows' = {} /\ ~Files!Usage'.sealed
        /\ IF writer'.complete THEN Files!CanStore(writer.text)' ELSE Files!MarkerFits'
        /\ \A m : Files!Body(m)' = Files!Body(m)
    BY <1>0, <1>4, WriterNeeds
  <2>2. /\ writer'.created \subseteq writer'.names \cap DOMAIN files'
        /\ Elements(writer'.todo) \subseteq writer'.names
    BY <1>0, <1>2, <1>4, <1>f DEF FileInv, WriterInv
  <2>3. \A m \in writer'.names \ Elements(writer'.todo) :
          m \in DOMAIN files' /\ files'[m] = Files!Body(m)'
    BY <1>0, <1>2, <1>4, <1>f, <2>1 DEF FileInv, WriterInv
  <2>4. Head(writer'.todo) = n
    BY <1>4 DEF n
  <2>5. files'[Head(writer'.todo)] = Files!Body(Head(writer.todo))'
    BY <1>f, <1>4, <2>4 DEF Files!Body
  <2> QED  BY <1>a, <1>4, <2>1, <2>2, <2>3, <2>4, <2>5 DEF WriterInv
<1>8. SyncInv'
  <2>1. Head(writer'.todo) = n
    BY <1>4 DEF n
  <2> QED  BY <1>0, <1>4, <2>1 DEF FileInv, SyncInv
<1>9. Files!NoOrphans'
  BY <1>0, <1>4, <1>f DEF FileInv, Files!NoOrphans
<1> QED  BY <1>5, <1>6, <1>7, <1>8, <1>9 DEF FileInv

\* Its directory is synced.
LEMMA SyncDirKeeps ==
  ASSUME Files!ArtifactsAssumption, FileInv, Files!SyncDir PROVE FileInv'
<1>0. /\ writer # None /\ writer.step = "sync" /\ unsynced' = {}
      /\ writer' = [writer EXCEPT !.step = "next", !.todo = Tail(writer.todo)]
      /\ UNCHANGED <<open, files, temps, rows, usage, upload, retained, failures>>
  BY DEF Files!SyncDir, Files!Synced
<1>a. writer.todo # <<>>
  BY <1>0 DEF FileInv, WriterInv
<1>1. writer \in Files!Writers
  BY <1>0 DEF FileInv, Files!TypeOK
<1>2. /\ Tail(writer.todo) \in Seq(Files!Names)
      /\ Elements(writer.todo) = {Head(writer.todo)} \cup Elements(Tail(writer.todo))
  BY <1>0, <1>a, FirstOfRest DEF FileInv
<1>3. writer' \in Files!Writers
  BY <1>0, <1>1, <1>2, WriterRest
<1>4. /\ writer' # None /\ writer'.source = writer.source /\ writer'.text = writer.text
      /\ writer'.complete = writer.complete /\ writer'.names = writer.names
      /\ writer'.created = writer.created /\ writer'.step = "next"
      /\ writer'.todo = Tail(writer.todo)
  BY <1>0, <1>1, <1>3, FileConstants DEF Files!Writers
<1>5. Files!RowsHaveFiles' /\ Files!TextIsWhole' /\ UsageInv' /\ UploadInv'
  BY <1>0, WriterFrame
<1>6. Files!TypeOK'
  BY <1>0, <1>3 DEF FileInv, Files!TypeOK
<1>7. WriterInv'
  <2>1. /\ open' /\ writer'.names = FileSet(writer.source, writer.text, writer.complete)'
        /\ writer'.names \cap DOMAIN rows' = {} /\ ~Files!Usage'.sealed
        /\ IF writer'.complete THEN Files!CanStore(writer.text)' ELSE Files!MarkerFits'
        /\ \A n : Files!Body(n)' = Files!Body(n)
    BY <1>0, <1>4, WriterNeeds
  <2>2. /\ writer'.created \subseteq writer'.names \cap DOMAIN files'
        /\ Elements(writer'.todo) \subseteq writer'.names
    BY <1>0, <1>2, <1>4 DEF FileInv, WriterInv
  <2>3. \A n \in writer'.names \ Elements(writer'.todo) :
          n \in DOMAIN files' /\ files'[n] = Files!Body(n)'
    BY <1>0, <1>2, <1>4, <2>1 DEF FileInv, WriterInv
  <2> QED  BY <1>4, <2>1, <2>2, <2>3 DEF WriterInv
<1>8. SyncInv'
  BY <1>0 DEF SyncInv
<1>9. Files!NoOrphans'
  BY <1>0, <1>4 DEF FileInv, Files!NoOrphans
<1> QED  BY <1>5, <1>6, <1>7, <1>8, <1>9 DEF FileInv

\* A text that fits has no more chunks than there are names for.
LEMMA ChunksFit ==
  ASSUME Files!ArtifactsAssumption, Files!TypeOK, NEW text \in Files!Texts, Files!CanStore(text)
  PROVE  Files!Chunks(text) \in 0..MaxChunks
<1>1. Files!Usage.chunks \in Nat
  BY FileConstants DEF Files!TypeOK, Files!Usage, Files!NoUsage, Files!UsageRows
<1> QED  BY <1>1, ChunksWhole, FileConstants DEF Files!CanStore

\* Two lists and a file, in a row.
LEMMA ElementsOfThree ==
  ASSUME NEW S, NEW a \in Seq(S), NEW b \in Seq(S), NEW m \in S
  PROVE  /\ a \o b \o <<m>> \in Seq(S)
         /\ Elements(a \o b \o <<m>>) = Elements(a) \cup Elements(b) \cup {m}
         /\ Files!Range(a \o b) = Elements(a) \cup Elements(b)
<1>1. a \o b \in Seq(S) /\ Elements(a \o b) = Elements(a) \cup Elements(b)
  BY ElementsJoin
<1>2. <<m>> \in Seq(S) /\ Elements(<<m>>) = {m}
  BY ElementsOne
<1>3. ASSUME NEW c \in Seq(S), NEW d \in Seq(S)
      PROVE  c \o d \in Seq(S) /\ Elements(c \o d) = Elements(c) \cup Elements(d)
  BY ElementsJoin
<1>4. ASSUME NEW c \in Seq(S) PROVE Files!Range(c) = Elements(c)
  <2>1. DOMAIN c = 1..Len(c)
    OBVIOUS
  <2> QED  BY <2>1 DEF Files!Range, Elements
<1>5. PICK ab : ab = a \o b
  OBVIOUS
<1>6. ab \o <<m>> \in Seq(S) /\ Elements(ab \o <<m>>) = Elements(ab) \cup Elements(<<m>>)
  BY <1>1, <1>2, <1>3, <1>5
<1>7. Files!Range(ab) = Elements(ab)
  BY <1>1, <1>4, <1>5
<1> QED  BY <1>1, <1>2, <1>5, <1>6, <1>7

\* The usage file goes first when there is none yet.
LEMMA FirstFile ==
  ASSUME NEW first, first = IF usage = None THEN <<Files!UsageFile>> ELSE <<>>
  PROVE  /\ first \in Seq(Files!Names)
         /\ Elements(first) = IF usage = None THEN {Files!UsageFile} ELSE {}
<1>1. <<Files!UsageFile>> \in Seq(Files!Names) /\ Elements(<<Files!UsageFile>>)
        = {Files!UsageFile}
  BY ElementsOne DEF Files!Names
<1>2. <<>> \in Seq(Files!Names) /\ Elements(<<>>) = {}
  BY ElementsOne
<1>3. CASE usage = None
  BY <1>1, <1>3, Zenon
<1>4. CASE usage # None
  BY <1>2, <1>4, Zenon
<1> QED  BY <1>3, <1>4

\* The chunks follow it.
LEMMA ChunkFiles ==
  ASSUME Files!ArtifactsAssumption, NEW s \in AllSources, NEW text \in Files!Texts,
         NEW complete \in BOOLEAN,
         complete => Files!Chunks(text) \in 0..MaxChunks,
         NEW chunks,
         chunks = IF complete THEN [i \in 1..Files!Chunks(text) |-> Files!Chunk(s, i)] ELSE <<>>
  PROVE  /\ chunks \in Seq(Files!Names)
         /\ Elements(chunks) = IF complete
                               THEN {Files!Chunk(s, i) : i \in 1..Files!Chunks(text)} ELSE {}
<1>1. CASE complete
  <2>1. \A i \in 1..Files!Chunks(text) : Files!Chunk(s, i) \in Files!Names
    BY <1>1, FileConstants DEF Files!Names
  <2>2. /\ chunks \in [1..Files!Chunks(text) -> Files!Names] /\ Files!Chunks(text) \in Nat
        /\ \A i \in 1..Files!Chunks(text) : chunks[i] = Files!Chunk(s, i)
    BY <1>1, <2>1, FileConstants
  <2>3. chunks \in Seq(Files!Names) /\ Len(chunks) = Files!Chunks(text)
    BY <2>2
  <2> QED  BY <1>1, <2>2, <2>3 DEF Elements
<1>2. CASE ~complete
  BY <1>2, ElementsOne
<1> QED  BY <1>1, <1>2

\* The files of a text, in the order of captureSafeText.
LEMMA TodoIsFileSet ==
  ASSUME Files!ArtifactsAssumption, NEW s \in AllSources, NEW text \in Files!Texts,
         NEW complete \in BOOLEAN,
         complete => Files!Chunks(text) \in 0..MaxChunks,
         NEW first \in Seq(Files!Names), Elements(first) = IF usage = None
                                                           THEN {Files!UsageFile} ELSE {},
         NEW chunks \in Seq(Files!Names),
         Elements(chunks) = IF complete
                            THEN {Files!Chunk(s, i) : i \in 1..Files!Chunks(text)} ELSE {}
  PROVE  /\ first \o chunks \o <<Files!Manifest(s)>> \in Seq(Files!Names)
         /\ Elements(first \o chunks \o <<Files!Manifest(s)>>) = FileSet(s, text, complete)
         /\ Files!Range(first \o chunks) \cup {Files!Manifest(s)} = FileSet(s, text, complete)
         /\ FileSet(s, text, complete) \subseteq Files!Names
<1>1. Files!UsageFile \in Files!Names /\ Files!Manifest(s) \in Files!Names
  BY DEF Files!Names
<1>2. /\ first \o chunks \o <<Files!Manifest(s)>> \in Seq(Files!Names)
      /\ Elements(first \o chunks \o <<Files!Manifest(s)>>)
           = Elements(first) \cup Elements(chunks) \cup {Files!Manifest(s)}
      /\ Files!Range(first \o chunks) = Elements(first) \cup Elements(chunks)
  BY <1>1, ElementsOfThree
<1>3. FileSet(s, text, complete)
        = Elements(first) \cup Elements(chunks) \cup {Files!Manifest(s)}
  BY DEF FileSet
<1>4. FileSet(s, text, complete) \subseteq Files!Names
  <2>1. complete => \A i \in 1..Files!Chunks(text) : Files!Chunk(s, i) \in Files!Names
    BY FileConstants DEF Files!Names
  <2> QED  BY <1>1, <2>1 DEF FileSet
<1> QED  BY <1>2, <1>3, <1>4

\* A text begins with nothing written, and no row of it.
LEMMA CaptureKeeps ==
  ASSUME Files!ArtifactsAssumption, FileInv, NEW s \in AllSources, NEW text \in Files!Texts,
         Files!Capture(s, text)
  PROVE  FileInv'
<1> DEFINE complete == Files!Complete(text)
<1> DEFINE chunks == IF complete
                     THEN [i \in 1..Files!Chunks(text) |-> Files!Chunk(s, i)] ELSE <<>>
<1> DEFINE first == IF usage = None THEN <<Files!UsageFile>> ELSE <<>>
<1> DEFINE todo == first \o chunks \o <<Files!Manifest(s)>>
<1> DEFINE named == Files!Range(first \o chunks) \cup {Files!Manifest(s)}
<1>0. /\ open /\ writer = None /\ Files!Manifest(s) \notin DOMAIN rows /\ ~Files!Usage.sealed
      /\ complete \/ Files!MarkerFits
      /\ writer' = [source |-> s, text |-> text, complete |-> complete, step |-> "next",
                    todo |-> todo, names |-> named, created |-> {}]
      /\ UNCHANGED <<open, files, temps, unsynced, rows, usage, upload, retained, failures>>
  BY DEF Files!Capture, Files!disk
<1>1. complete \in BOOLEAN /\ (complete => Files!CanStore(text))
  BY DEF Files!Complete, Files!CanStore
<1>2. complete => Files!Chunks(text) \in 0..MaxChunks
  BY <1>1, ChunksFit DEF FileInv
<1>3. /\ todo \in Seq(Files!Names) /\ Elements(todo) = FileSet(s, text, complete)
      /\ named = FileSet(s, text, complete) /\ FileSet(s, text, complete) \subseteq Files!Names
  <2>1. first = IF usage = None THEN <<Files!UsageFile>> ELSE <<>>
    OBVIOUS
  <2>2. chunks = IF complete THEN [i \in 1..Files!Chunks(text) |-> Files!Chunk(s, i)] ELSE <<>>
    OBVIOUS
  <2> HIDE DEF complete, first, chunks
  <2>3. /\ first \in Seq(Files!Names)
        /\ Elements(first) = IF usage = None THEN {Files!UsageFile} ELSE {}
    BY <2>1, FirstFile
  <2>4. /\ chunks \in Seq(Files!Names)
        /\ Elements(chunks) = IF complete
                              THEN {Files!Chunk(s, i) : i \in 1..Files!Chunks(text)} ELSE {}
    BY <1>1, <1>2, <2>2, ChunkFiles
  <2> QED  BY <1>1, <1>2, <2>3, <2>4, TodoIsFileSet
<1> HIDE DEF complete, chunks, first, todo, named
<1>4. writer' \in Files!Writers
  BY <1>0, <1>1, <1>3 DEF Files!Writers
<1>5. /\ writer' # None /\ writer'.source = s /\ writer'.text = text
      /\ writer'.complete = complete /\ writer'.names = FileSet(s, text, complete)
      /\ writer'.created = {} /\ writer'.step = "next"
      /\ Elements(writer'.todo) = FileSet(s, text, complete)
  BY <1>0, <1>3, <1>4, FileConstants
<1>6. Files!TypeOK'
  BY <1>0, <1>4 DEF FileInv, Files!TypeOK
<1>7. Files!RowsHaveFiles' /\ Files!TextIsWhole' /\ UsageInv'
  BY <1>0 DEF FileInv, Files!RowsHaveFiles, Files!TextIsWhole, UsageInv, Files!RoomForMarker,
              Files!MarkerFits, Files!Usage
<1>8. UploadInv'
  BY <1>0 DEF FileInv, UploadInv, Files!Content, Files!NoText
<1>9. SyncInv'
  BY <1>0 DEF FileInv, SyncInv
<1>10. Files!NoOrphans'
  BY <1>0 DEF FileInv, Files!NoOrphans
<1>11. WriterInv'
  <2>1. FileSet(s, text, complete) \cap DOMAIN rows = {}
    <3>1. Files!UsageFile \in DOMAIN rows => usage # None
      BY DEF FileInv, UsageInv
    <3>2. \A i : Files!Chunk(s, i) \notin DOMAIN rows
      BY <1>0, Kinds DEF FileInv, Files!TextIsWhole
    <3> QED  BY <1>0, <3>1, <3>2 DEF FileSet
  <2>2. writer'.names = FileSet(writer.source, writer.text, writer.complete)'
    BY <1>0, <1>5 DEF FileSet
  <2>3. IF writer'.complete THEN Files!CanStore(writer.text)' ELSE Files!MarkerFits'
    <3>1. CASE complete
      BY <1>0, <1>1, <1>5, <3>1 DEF Files!CanStore, Files!Usage
    <3>2. CASE ~complete
      BY <1>0, <1>5, <3>2 DEF Files!MarkerFits, Files!Usage
    <3> QED  BY <1>1, <3>1, <3>2
  <2>4. ~Files!Usage'.sealed
    BY <1>0 DEF Files!Usage
  <2> QED  BY <1>0, <1>5, <2>1, <2>2, <2>3, <2>4 DEF WriterInv
<1> QED  BY <1>6, <1>7, <1>8, <1>9, <1>10, <1>11 DEF FileInv

\* The usage row that is written fits its columns, and leaves room for the marker.
LEMMA CountedFits ==
  ASSUME Files!ArtifactsAssumption, FileInv, writer # None
  PROVE  /\ Files!Counted \in Files!UsageRows
         /\ ~Files!Counted.sealed => /\ Files!Counted.sources < MaxSources
                               /\ Files!Counted.storage <= MaxStorage - 1
<1>1. /\ Files!Usage.text \in 0..MaxText /\ Files!Usage.storage \in 0..MaxStorage
      /\ Files!Usage.sources \in 0..MaxSources /\ Files!Usage.chunks \in 0..MaxChunks
      /\ Files!Usage.sealed \in BOOLEAN
  <2>1. MaxText \in Nat /\ MaxStorage \in Nat /\ MaxSources \in Nat /\ MaxChunks \in Nat
    BY FileConstants
  <2>2. Files!NoUsage \in Files!UsageRows
    BY <2>1 DEF Files!NoUsage, Files!UsageRows
  <2>3. Files!Usage \in Files!UsageRows
    BY <2>2 DEF FileInv, Files!TypeOK, Files!Usage
  <2> QED  BY <2>3 DEF Files!UsageRows
<1>2. writer \in Files!Writers
  BY DEF FileInv, Files!TypeOK
<1>3. writer.text \in Files!Texts /\ writer.complete \in BOOLEAN
  BY <1>2, WriterSteps
<1>4. Files!Chunks(writer.text) \in Nat /\ writer.text.size \in Nat
  BY <1>3, ChunksWhole
<1> DEFINE u == Files!Usage
<1> DEFINE size == writer.text.size
<1> DEFINE nchunks == Files!Chunks(writer.text)
<1>5. CASE writer.complete
  <2>1. Files!CanStore(writer.text)
    BY <1>5 DEF FileInv, WriterInv
  <2>2. /\ u.text <= MaxText - size
        /\ u.storage <= MaxStorage - MarkerReserve - (size + (1 + nchunks))
        /\ u.sources < MaxSources - 1 /\ u.chunks <= MaxChunks - nchunks
    BY <2>1 DEF Files!CanStore, Files!ManifestBytes
  <2>3. Files!Counted = [text |-> u.text + size, storage |-> u.storage + (1 + nchunks) + size,
                   sources |-> u.sources + 1, chunks |-> u.chunks + nchunks, sealed |-> FALSE]
    BY <1>5 DEF Files!Counted, Files!ManifestBytes
  <2> HIDE DEF u, size, nchunks
  <2>4. /\ u.text + size \in 0..MaxText /\ u.storage + (1 + nchunks) + size \in 0..MaxStorage
        /\ u.storage + (1 + nchunks) + size <= MaxStorage - 1
        /\ u.sources + 1 \in 0..MaxSources /\ u.sources + 1 < MaxSources
        /\ u.chunks + nchunks \in 0..MaxChunks
    BY <1>1, <1>4, <2>2, FileConstants DEF u, size, nchunks
  <2> QED  BY <2>3, <2>4 DEF Files!UsageRows
<1>6. CASE ~writer.complete
  <2>1. Files!MarkerFits
    BY <1>6 DEF FileInv, WriterInv
  <2>2. u.sources < MaxSources /\ u.storage <= MaxStorage - 1
    BY <2>1 DEF Files!MarkerFits, Files!ManifestBytes
  <2>3. Files!Counted = [text |-> u.text + 0, storage |-> u.storage + (1 + 0) + 0,
                   sources |-> u.sources + 1, chunks |-> u.chunks + 0, sealed |-> TRUE]
    BY <1>6 DEF Files!Counted, Files!ManifestBytes
  <2> HIDE DEF u
  <2>4. /\ u.text + 0 \in 0..MaxText /\ u.storage + (1 + 0) + 0 \in 0..MaxStorage
        /\ u.sources + 1 \in 0..MaxSources /\ u.chunks + 0 \in 0..MaxChunks
    BY <1>1, <2>2, FileConstants DEF u
  <2> QED  BY <2>3, <2>4 DEF Files!UsageRows
<1> QED  BY <1>3, <1>5, <1>6

\* The rows of the text, with every file below them.
LEMMA CommitKeeps ==
  ASSUME Files!ArtifactsAssumption, FileInv, NEW c \in BOOLEAN, NEW r \in BOOLEAN,
         Files!Commit(c, r)
  PROVE  FileInv'
<1>0. /\ writer # None /\ writer.step = "next" /\ writer.todo = <<>> /\ writer' = None
      /\ c \/ ~r
      /\ UNCHANGED <<open, files, temps, unsynced, upload, failures>>
      /\ retained' = IF r THEN retained ELSE retained \cup writer.names
      /\ ~c => UNCHANGED <<rows, usage>>
      /\ c => usage' = Files!Counted
  BY DEF Files!Commit, Files!disk
<1>1. writer \in Files!Writers
  BY <1>0 DEF FileInv, Files!TypeOK
<1>2. /\ writer.names \subseteq Files!Names /\ writer.source \in AllSources
      /\ writer.text \in Files!Texts /\ writer.complete \in BOOLEAN
  BY <1>1, WriterSteps
<1>3. /\ writer.names = FileSet(writer.source, writer.text, writer.complete)
      /\ writer.names \cap DOMAIN rows = {} /\ writer.created \subseteq writer.names
      /\ \A n \in writer.names : n \in DOMAIN files /\ files[n] = Files!Body(n)
  BY <1>0, ElementsOne DEF FileInv, WriterInv
<1>r. ASSUME c
      PROVE  /\ DOMAIN rows' = DOMAIN rows \cup writer.names
             /\ \A n \in writer.names : rows'[n] = Files!Body(n)
             /\ \A n \in DOMAIN rows : rows'[n] = rows[n]
  <2>1. rows' = [n \in DOMAIN rows \cup writer.names |->
                   IF n \in writer.names THEN Files!Body(n) ELSE rows[n]]
    BY <1>r DEF Files!Commit
  <2> QED  BY <1>3, <2>1
<1>4. Files!TypeOK'
  <2>1. c => usage' \in Files!UsageRows
    BY <1>0, CountedFits
  <2> QED  BY <1>0, <1>2, <1>r, <2>1 DEF FileInv, Files!TypeOK
<1>5. Files!RowsHaveFiles'
  BY <1>0, <1>3, <1>r DEF FileInv, Files!RowsHaveFiles
<1>6. UsageInv'
  <2>1. CASE ~c
    BY <1>0, <2>1 DEF FileInv, UsageInv, Files!RoomForMarker, Files!MarkerFits, Files!Usage
  <2>2. CASE c
    <3>1. /\ usage' = Files!Counted /\ Files!Counted # None
          /\ ~Files!Counted.sealed => /\ Files!Counted.sources < MaxSources
                                      /\ Files!Counted.storage <= MaxStorage - 1
      BY <1>0, <2>2, CountedFits, FileConstants
    <3>2. Files!Usage' = Files!Counted
      BY <3>1 DEF Files!Usage
    <3>3. Files!UsageFile \in DOMAIN rows'
      BY <1>3, <1>r, <2>2 DEF FileSet, FileInv, UsageInv
    <3>4. Files!ManifestBytes(FALSE, Files!NoText) = 1 /\ 1 <= MarkerReserve
      BY FileConstants DEF Files!ManifestBytes
    <3>5. Files!RoomForMarker'
      BY <3>1, <3>2, <3>4 DEF Files!RoomForMarker, Files!MarkerFits
    <3> QED  BY <3>1, <3>3, <3>5 DEF UsageInv
  <2> QED  BY <2>1, <2>2
<1>7. UploadInv'
  <2>1. \A id : Files!Upload(id) \notin writer.names
    BY <1>0, NotAnUpload DEF FileInv
  <2>2. \A id : Files!Upload(id) \in DOMAIN rows' <=> Files!Upload(id) \in DOMAIN rows
    BY <1>0, <1>r, <2>1
  <2> QED  BY <1>0, <2>2 DEF FileInv, UploadInv, Files!Content, Files!NoText
<1>8. WriterInv'
  BY <1>0 DEF WriterInv
<1>9. SyncInv'
  BY <1>0 DEF FileInv, SyncInv
<1>10. Files!NoOrphans'
  BY <1>0, <1>3, <1>r DEF FileInv, Files!NoOrphans
<1>11. Files!TextIsWhole'
  <2>1. CASE ~c
    BY <1>0, <2>1 DEF FileInv, Files!TextIsWhole
  <2>2. CASE c
    <3> DEFINE s0 == writer.source
    <3> DEFINE text == writer.text
    <3> DEFINE whole == writer.complete
    <3> DEFINE Of(f, s) == {k \in DOMAIN f : k.kind = "chunk" /\ k.of = s}
    <3>1. \A n \in writer.names : n.kind = "chunk" =>
            whole /\ \E i \in 1..Files!Chunks(text) : n = Files!Chunk(s0, i)
      BY <1>3, Kinds DEF FileSet
    <3>2. \A s : s # s0 => Files!Manifest(s) \notin writer.names
      <4>1. \A n \in writer.names : n.kind = "manifest" => n = Files!Manifest(s0)
        BY <1>3, Kinds DEF FileSet
      <4> QED  BY <4>1, Kinds
    <3>3. Files!Manifest(s0) \in writer.names /\ Files!Manifest(s0) \notin DOMAIN rows
      BY <1>3 DEF FileSet
    <3>4. \A n \in DOMAIN rows : n.kind = "chunk" =>
            /\ n.of # s0 /\ Files!Manifest(n.of) \in DOMAIN rows
            /\ rows[n] = rows[Files!Manifest(n.of)]
      BY <3>3 DEF FileInv, Files!TextIsWhole
    <3>5. \A n \in writer.names : n # Files!UsageFile => Files!Body(n)
            = Files!Content(text, whole)
      BY DEF Files!Body
    <3>6. ASSUME NEW s \in AllSources, Files!Manifest(s) \in DOMAIN rows'
          PROVE  {n.index : n \in Of(rows', s)}
                   = IF rows'[Files!Manifest(s)].complete
                     THEN 1..Files!Chunks(rows'[Files!Manifest(s)].text) ELSE {}
      <4>1. CASE s # s0
        <5>1. Of(rows', s) = Of(rows, s)
          BY <1>r, <2>2, <3>1, <4>1, Kinds
        <5>2. /\ Files!Manifest(s) \in DOMAIN rows
              /\ rows'[Files!Manifest(s)] = rows[Files!Manifest(s)]
          BY <1>r, <2>2, <3>2, <3>6, <4>1
        <5> QED  BY <5>1, <5>2 DEF FileInv, Files!TextIsWhole
      <4>2. CASE s = s0
        <5>1. rows'[Files!Manifest(s0)] = Files!Content(text, whole)
          BY <1>r, <2>2, <3>3, <3>5, Kinds
        <5>2. rows'[Files!Manifest(s)].complete = whole /\ rows'[Files!Manifest(s)].text = text
          BY <4>2, <5>1 DEF Files!Content
        <5>3. Of(rows', s0) = IF whole
                              THEN {Files!Chunk(s0, i) : i \in 1..Files!Chunks(text)} ELSE {}
          <6>1. \A n \in Of(rows', s0) : n \in writer.names
            BY <1>r, <2>2, <3>4
          <6>2. \A n \in Of(rows', s0) :
                  whole /\ n \in {Files!Chunk(s0, i) : i \in 1..Files!Chunks(text)}
            BY <3>1, <6>1
          <6>3. whole => \A i \in 1..Files!Chunks(text) : Files!Chunk(s0, i) \in Of(rows', s0)
            BY <1>3, <1>r, <2>2, Kinds DEF FileSet
          <6> QED  BY <1>2, <6>2, <6>3
        <5>4. {n.index : n \in {Files!Chunk(s0, i) : i \in 1..Files!Chunks(text)}}
                = 1..Files!Chunks(text)
          <6>1. \A i \in 1..Files!Chunks(text) : Files!Chunk(s0, i).index = i
            BY Kinds
          <6>2. \A n \in {Files!Chunk(s0, i) : i \in 1..Files!Chunks(text)} :
                  n.index \in 1..Files!Chunks(text)
            BY <6>1
          <6> QED  BY <6>1, <6>2
        <5> QED  BY <1>2, <4>2, <5>2, <5>3, <5>4
      <4> QED  BY <4>1, <4>2
    <3>7. ASSUME NEW n \in DOMAIN rows', n.kind = "chunk"
          PROVE  Files!Manifest(n.of) \in DOMAIN rows' /\ rows'[n] = rows'[Files!Manifest(n.of)]
      <4>1. CASE n \in DOMAIN rows
        BY <1>r, <2>2, <3>4, <3>7, <4>1
      <4>2. CASE n \in writer.names
        <5>1. n.of = s0
          BY <3>1, <3>7, <4>2, Kinds
        <5>2. rows'[n] = Files!Content(text, whole)
          BY <1>r, <2>2, <3>5, <3>7, <4>2, Kinds
        <5>3. rows'[Files!Manifest(s0)]
                = Files!Content(text, whole) /\ Files!Manifest(s0) \in DOMAIN rows'
          BY <1>r, <2>2, <3>3, <3>5, Kinds
        <5> QED  BY <5>1, <5>2, <5>3
      <4> QED  BY <1>r, <2>2, <3>7, <4>1, <4>2
    <3> QED  BY <3>6, <3>7 DEF Files!TextIsWhole
  <2> QED  BY <2>1, <2>2
<1> QED  BY <1>4, <1>5, <1>6, <1>7, <1>8, <1>9, <1>10, <1>11 DEF FileInv

-----------------------------------------------------------------------------
\* The volume.

\* Nothing is under way when the volume is closed.
LEMMA CloseKeeps ==
  ASSUME FileInv, Files!Close PROVE FileInv'
<1>1. Files!TypeOK' /\ Files!RowsHaveFiles' /\ WriterInv' /\ Files!NoOrphans' /\ SyncInv'
  BY DEF FileInv, Files!Close, Files!disk, Files!TypeOK, Files!RowsHaveFiles, WriterInv,
         Files!NoOrphans, SyncInv
<1>2. Files!TextIsWhole' /\ UsageInv'
  BY DEF FileInv, Files!Close, Files!disk, Files!TextIsWhole, UsageInv, Files!RoomForMarker,
         Files!MarkerFits, Files!Usage
<1>3. UploadInv'
  BY DEF FileInv, Files!Close, Files!disk, UploadInv, Files!Content, Files!NoText
<1> QED  BY <1>1, <1>2, <1>3 DEF FileInv

\* No row loses its file with the power.
LEMMA CrashKeeps ==
  ASSUME Files!ArtifactsAssumption, FileInv, NEW gone \in SUBSET unsynced,
         Files!Crash(gone) PROVE FileInv'
<1>1. unsynced \cap DOMAIN rows = {}
  <2>1. ASSUME NEW n \in unsynced PROVE n \notin DOMAIN rows
    <3>1. CASE writer # None /\ writer.step = "sync" /\ n = Head(writer.todo)
      BY <3>1 DEF FileInv, WriterInv
    <3>2. CASE \E id \in Uploads : n = Files!Upload(id) /\ upload[id] = "renamed"
      BY <3>2 DEF FileInv, UploadInv
    <3> QED  BY <3>1, <3>2 DEF FileInv, SyncInv
  <2> QED  BY <2>1
<1>f. /\ DOMAIN files' = DOMAIN files \ gone
      /\ \A m \in DOMAIN files \ gone : files'[m] = files[m]
  <2>1. files' = Files!Without(files, gone)
    BY DEF Files!Crash
  <2> QED  BY <2>1, WithoutKeeps
<1>2. Files!RowsHaveFiles'
  BY <1>1, <1>f DEF FileInv, Files!RowsHaveFiles, Files!Crash
<1>3. \A id \in Uploads : upload'[id] = IF upload[id] = "new" THEN "new" ELSE "done"
  BY DEF Files!Crash
<1>4. Files!TypeOK'
  <2>1. failures' \in 0..MaxCrashes
    <3>1. MaxCrashes \in Nat
      BY FileConstants
    <3>2. failures \in 0..MaxCrashes /\ failures < MaxCrashes /\ failures' = failures + 1
      BY DEF FileInv, Files!TypeOK, Files!Crash
    <3> QED  BY <3>1, <3>2
  <2>2. upload' \in [Uploads -> {"new", "temp", "renamed", "synced", "done"}]
    BY DEF Files!Crash
  <2> QED  BY <1>f, <2>1, <2>2 DEF FileInv, Files!TypeOK, Files!Crash
<1>5. Files!TextIsWhole' /\ UsageInv'
  BY DEF FileInv, Files!Crash, Files!TextIsWhole, UsageInv, Files!RoomForMarker,
         Files!MarkerFits, Files!Usage
<1>6. UploadInv'
  <2>1. \A id \in Uploads : upload'[id] # "done" => Files!Upload(id) \notin DOMAIN rows'
    BY <1>3 DEF FileInv, UploadInv, Files!Crash
  <2>2. \A id \in Uploads : upload'[id] \notin {"temp", "renamed", "synced"}
    BY <1>3
  <2> QED  BY <2>1, <2>2 DEF UploadInv
<1>7. WriterInv' /\ SyncInv' /\ Files!NoOrphans'
  BY DEF Files!Crash, WriterInv, SyncInv, Files!NoOrphans
<1> QED  BY <1>2, <1>4, <1>5, <1>6, <1>7 DEF FileInv

\* Only files of rows are left when the volume is opened.
LEMMA OpenKeeps ==
  ASSUME FileInv, Files!Open PROVE FileInv'
<1>1. writer = None /\ \A id \in Uploads : upload[id] \notin {"temp", "renamed", "synced"}
  BY DEF Files!Open, FileInv, WriterInv, UploadInv
<1>f. /\ DOMAIN files' = DOMAIN files \cap DOMAIN rows
      /\ \A m \in DOMAIN files \cap DOMAIN rows : files'[m] = files[m]
  BY DEF Files!Open, Files!Restrict
<1>2. Files!RowsHaveFiles'
  BY <1>f DEF FileInv, Files!RowsHaveFiles, Files!Open
<1>3. Files!TypeOK'
  BY <1>f DEF FileInv, Files!TypeOK, Files!Open
<1>4. Files!TextIsWhole' /\ UsageInv'
  BY DEF FileInv, Files!Open, Files!TextIsWhole, UsageInv, Files!RoomForMarker,
         Files!MarkerFits, Files!Usage
<1>5. UploadInv'
  <2>1. \A id \in Uploads : upload'[id] # "done" => Files!Upload(id) \notin DOMAIN rows'
    BY DEF FileInv, UploadInv, Files!Open
  <2> QED  BY <1>1, <2>1 DEF UploadInv, Files!Open
<1>6. WriterInv' /\ SyncInv'
  BY <1>1 DEF FileInv, Files!Open, WriterInv, SyncInv
<1>7. Files!NoOrphans'
  BY <1>f DEF Files!Open, Files!NoOrphans
<1> QED  BY <1>2, <1>3, <1>4, <1>5, <1>6, <1>7 DEF FileInv

-----------------------------------------------------------------------------
\* The artifacts begin well, and every step of theirs keeps them.
LEMMA FileInit ==
  ASSUME Files!ArtifactsAssumption, Files!Init PROVE FileInv
<1>1. DOMAIN files = {} /\ DOMAIN rows = {}
  BY DEF Files!Init
<1>2. Files!TypeOK
  BY <1>1, FileConstants DEF Files!Init, Files!TypeOK
<1>3. Files!RowsHaveFiles /\ Files!TextIsWhole /\ Files!NoOrphans
  BY <1>1 DEF Files!RowsHaveFiles, Files!TextIsWhole, Files!NoOrphans
<1>4. WriterInv /\ UploadInv /\ SyncInv
  BY <1>1 DEF Files!Init, WriterInv, UploadInv, SyncInv
<1>5. UsageInv
  <2>1. Files!Usage = Files!NoUsage
    BY DEF Files!Init, Files!Usage
  <2>2. Files!ManifestBytes(FALSE, Files!NoText) = 1
    BY DEF Files!ManifestBytes
  <2>3. /\ MaxSources \in Nat /\ MaxSources > 0 /\ MarkerReserve \in Nat /\ MarkerReserve > 0
        /\ MarkerReserve <= MaxStorage /\ MaxStorage \in Nat
    BY FileConstants
  <2>4. Files!Usage.sources = 0 /\ Files!Usage.storage = 0
    BY <2>1 DEF Files!NoUsage
  <2>5. 1 <= MarkerReserve /\ 0 < MaxSources /\ 0 <= MaxStorage - 1
    BY <2>3
  <2>6. Files!MarkerFits
    BY <2>2, <2>4, <2>5 DEF Files!MarkerFits
  <2> QED  BY <1>1, <2>6 DEF Files!Init, UsageInv, Files!RoomForMarker
<1> QED  BY <1>2, <1>3, <1>4, <1>5 DEF FileInv

\* A step of the artifacts keeps the invariant.
LEMMA FileNext ==
  ASSUME Files!ArtifactsAssumption, FileInv, Files!Next PROVE FileInv'
<1>1. CASE \E s \in AllSources, text \in Files!Texts : Files!Capture(s, text)
  BY <1>1, CaptureKeeps
<1>2. CASE Files!FindFile
  BY <1>2, FindFileKeeps
<1>3. CASE Files!WriteTemp
  BY <1>3, WriteTempKeeps
<1>4. CASE Files!Rename
  BY <1>4, RenameKeeps
<1>5. CASE Files!SyncDir
  BY <1>5, SyncDirKeeps
<1>6. CASE \E c, r \in BOOLEAN : Files!Commit(c, r)
  BY <1>6, CommitKeeps
<1>7. CASE Files!Fail
  BY <1>7, RollbackKeeps DEF Files!Fail
<1>8. ASSUME NEW id \in Uploads,
             \/ Files!StoreTemp(id) \/ Files!StoreRename(id)
             \/ Files!StoreSync(id) \/ Files!StoreRefused(id)
             \/ \E c, r \in BOOLEAN : Files!StoreCommit(id, c, r)
      PROVE  FileInv'
  <2>1. CASE Files!StoreTemp(id)
    BY <2>1, StoreTempKeeps
  <2>2. CASE Files!StoreRename(id)
    BY <2>2, StoreRenameKeeps
  <2>3. CASE Files!StoreSync(id)
    BY <2>3, StoreSyncKeeps
  <2>4. CASE Files!StoreRefused(id)
    BY <2>4, StoreRefusedKeeps
  <2>5. CASE \E c, r \in BOOLEAN : Files!StoreCommit(id, c, r)
    BY <2>5, StoreCommitKeeps
  <2> QED  BY <1>8, <2>1, <2>2, <2>3, <2>4, <2>5
<1>9. CASE Files!Close
  BY <1>9, CloseKeeps
<1>10. CASE \E gone \in SUBSET unsynced : Files!Crash(gone)
  BY <1>10, CrashKeeps
<1>11. CASE Files!Open
  BY <1>11, OpenKeeps
<1> QED  BY <1>1, <1>2, <1>3, <1>4, <1>5, <1>6, <1>7, <1>8, <1>9, <1>10, <1>11 DEF Files!Next,
                                                                                   Files!Write

\* Nothing changes.
LEMMA FileStutter ==
  ASSUME FileInv, UNCHANGED Files!vars PROVE FileInv'
<1>0. UNCHANGED <<open, files, temps, unsynced, rows, usage, writer, upload, retained,
                  failures>>
  BY DEF Files!vars, Files!disk
<1>1. Files!TypeOK' /\ Files!RowsHaveFiles' /\ Files!NoOrphans' /\ SyncInv'
  BY <1>0 DEF FileInv, Files!TypeOK, Files!RowsHaveFiles, Files!NoOrphans, SyncInv
<1>2. Files!TextIsWhole' /\ UsageInv'
  BY <1>0 DEF FileInv, Files!TextIsWhole, UsageInv, Files!RoomForMarker, Files!MarkerFits,
              Files!Usage
<1>3. UploadInv'
  BY <1>0 DEF FileInv, UploadInv, Files!Content, Files!NoText
<1>4. writer = None => WriterInv'
  BY <1>0 DEF WriterInv
<1>5. ASSUME writer # None PROVE WriterInv'
  <2>1. /\ open' /\ writer'.names = FileSet(writer.source, writer.text, writer.complete)'
        /\ writer'.names \cap DOMAIN rows' = {} /\ ~Files!Usage'.sealed
        /\ IF writer'.complete THEN Files!CanStore(writer.text)' ELSE Files!MarkerFits'
        /\ \A n : Files!Body(n)' = Files!Body(n)
    BY <1>0, <1>5, WriterNeeds
  <2>2. \A n \in writer'.names \ Elements(writer'.todo) :
          n \in DOMAIN files' /\ files'[n] = Files!Body(n)'
    BY <1>0, <1>5, <2>1 DEF FileInv, WriterInv
  <2>3. writer'.step = "sync" => /\ Head(writer'.todo) \in writer'.created
                                 /\ files'[Head(writer'.todo)] = Files!Body(Head(writer.todo))'
    BY <1>0, <1>5 DEF FileInv, WriterInv, Files!Body
  <2>4. /\ writer'.created \subseteq writer'.names \cap DOMAIN files'
        /\ Elements(writer'.todo) \subseteq writer'.names
        /\ writer'.step # "next" => writer'.todo # <<>>
    BY <1>0, <1>5 DEF FileInv, WriterInv
  <2> QED  BY <2>1, <2>2, <2>3, <2>4 DEF WriterInv
<1> QED  BY <1>1, <1>2, <1>3, <1>4, <1>5 DEF FileInv

\* The artifacts move in their own parts, and stay elsewhere.
LEMMA FilePart == Spec => Files!Init /\ [][Files!Next]_fileVars
<1>1. Init => Files!Init
  BY DEF Init
<1>2. [Next]_vars => [Files!Next]_fileVars
  BY DEF Next, vars, CommandStep, FileStep, ListStep, ReplicaStep
<1> QED  BY <1>1, <1>2, PTL DEF Spec

\* FileInv is an invariant of the artifacts.
THEOREM FileInvariance == Spec => []FileInv
<1>1. Files!ArtifactsAssumption
  BY StorageAssumption
<1>2. FileInv /\ [Files!Next]_fileVars => FileInv'
  BY <1>1, FileNext, FileStutter DEF fileVars, Files!vars, Files!disk
<1>3. Files!Init => FileInv
  BY <1>1, FileInit
<1> QED  BY <1>2, <1>3, FilePart, PTL

\* A committed row has its file with the same bytes, a text is committed as a
\* whole, and no file is without an owner while the volume is open: through
\* errors of a commit, rollbacks, a loss of power at any step and the clean-up at
\* the next start (publishSafeTextArtifact, StoreArtifact, reconcileArtifactFiles).
THEOREM ArtifactsKept == Spec => []ArtifactsAreKept
<1>1. FileInv => ArtifactsAreKept
  BY DEF FileInv, ArtifactsAreKept, Files!ArtifactsAreKept
<1> QED  BY <1>1, FileInvariance, PTL

\* As long as no text was refused there is room to say that the next one is
\* missing (safeTextCanStoreComplete keeps safeTextLimitMarkerReserve).
THEOREM MarkerHasRoom == Spec => []Files!RoomForMarker
<1>1. FileInv => Files!RoomForMarker
  BY DEF FileInv, UsageInv
<1> QED  BY <1>1, FileInvariance, PTL

-----------------------------------------------------------------------------
\* What the usage row counts.

\* Artifacts counts as this module does.
LEMMA FilesCardinality == \A S : Files!Cardinality(S) = Cardinality(S)
BY DEF Files!Cardinality, Cardinality

\* The rows of an attempt are finitely many, and the usage row counts them.
CountInv ==
  /\ IsFiniteSet(Files!Kept) /\ IsFiniteSet(Files!Bytes) /\ IsFiniteSet(Files!KeptChunks)
  /\ Files!UsageIsExact

\* As many elements as numbers that name them.
LEMMA Numbered ==
  ASSUME NEW n \in Nat, NEW f, f \in [1..n -> {f[i] : i \in 1..n}],
         \A i, j \in 1..n : f[i] = f[j] => i = j
  PROVE  LET S == {f[i] : i \in 1..n} IN IsFiniteSet(S) /\ Cardinality(S) = n
<1> DEFINE S == {f[i] : i \in 1..n}
<1>1. IsFiniteSet(1..n) /\ Cardinality(1..n) = n
  <2>1. /\ IsFiniteSet(1..n)
        /\ Cardinality(1..n) = IF 1 > n THEN 0 ELSE n - 1 + 1
    BY FS_Interval
  <2> QED  BY <2>1
<1>2. f \in Bijection(1..n, S)
  <2>1. f \in [1..n -> S] /\ \A y \in S : \E i \in 1..n : f[i] = y
    OBVIOUS
  <2> HIDE DEF S
  <2> QED  BY <2>1 DEF Bijection, Injection, Surjection, IsInjective
<1>3. ExistsBijection(1..n, S)
  BY <1>2 DEF ExistsBijection
<1> QED  BY <1>1, <1>3, FS_Bijection

\* Two disjoint finite sets.
LEMMA Disjoint ==
  ASSUME NEW S, NEW T, IsFiniteSet(S), IsFiniteSet(T), S \cap T = {}
  PROVE  /\ IsFiniteSet(S \cup T) /\ Cardinality(S) \in Nat /\ Cardinality(T) \in Nat
         /\ Cardinality(S \cup T) = Cardinality(S) + Cardinality(T)
<1>1. Cardinality(S) \in Nat /\ Cardinality(T) \in Nat
  BY FS_CardinalityType
<1>2. Cardinality(S \cap T) = 0
  BY FS_EmptySet
<1>3. /\ IsFiniteSet(S \cup T)
      /\ Cardinality(S \cup T) = Cardinality(S) + Cardinality(T) - Cardinality(S \cap T)
  BY FS_Union
<1> QED  BY <1>1, <1>2, <1>3

\* What is kept is read off the rows of manifests and chunks.
LEMMA KeptStands ==
  ASSUME CountInv, usage' = usage,
         \A n : n.kind \in {"manifest", "chunk"} =>
           /\ n \in DOMAIN rows' <=> n \in DOMAIN rows
           /\ n \in DOMAIN rows => rows'[n] = rows[n]
  PROVE  CountInv'
<1>1. \A s : /\ Files!Manifest(s) \in DOMAIN rows' <=> Files!Manifest(s) \in DOMAIN rows
             /\ Files!Manifest(s) \in DOMAIN rows =>
                  rows'[Files!Manifest(s)] = rows[Files!Manifest(s)]
  BY Kinds
<1>2. Files!Kept' = Files!Kept
  BY <1>1 DEF Files!Kept
<1>3. Files!Whole' = Files!Whole
  BY <1>1, <1>2 DEF Files!Whole, Files!Kept
<1>4. Files!Bytes' = Files!Bytes
  <2>1. \A s \in Files!Whole : rows'[Files!Manifest(s)] = rows[Files!Manifest(s)]
    BY <1>1 DEF Files!Whole, Files!Kept
  <2> QED  BY <1>3, <2>1 DEF Files!Bytes
<1>5. Files!KeptChunks' = Files!KeptChunks
  BY DEF Files!KeptChunks
<1> QED  BY <1>2, <1>3, <1>4, <1>5 DEF CountInv, Files!UsageIsExact, Files!Usage

\* The text that is committed is counted once: as a whole, or as the marker.
LEMMA CommitCounts ==
  ASSUME Files!ArtifactsAssumption, FileInv, CountInv, NEW r \in BOOLEAN, Files!Commit(TRUE, r)
  PROVE  CountInv'
<1> DEFINE s0 == writer.source
<1> DEFINE text == writer.text
<1> DEFINE whole == writer.complete
<1> DEFINE u == Files!Usage
<1>1. /\ writer # None /\ usage' = Files!Counted
      /\ rows' = [n \in DOMAIN rows \cup writer.names |->
                    IF n \in writer.names THEN Files!Body(n) ELSE rows[n]]
  BY DEF Files!Commit
<1>2. /\ s0 \in AllSources /\ text \in Files!Texts /\ whole \in BOOLEAN
      /\ Files!Chunks(text) \in Nat /\ text.size \in Nat
  <2>1. writer \in Files!Writers
    BY <1>1 DEF FileInv, Files!TypeOK
  <2>2. s0 \in AllSources /\ text \in Files!Texts /\ whole \in BOOLEAN
    BY <2>1, WriterSteps
  <2> QED  BY <2>2, ChunksWhole
<1>3. /\ writer.names = FileSet(s0, text, whole) /\ writer.names \cap DOMAIN rows = {}
      /\ ~u.sealed
  BY <1>1 DEF FileInv, WriterInv
<1>4. /\ Files!Manifest(s0) \in writer.names /\ Files!Manifest(s0) \notin DOMAIN rows
      /\ rows'[Files!Manifest(s0)] = Files!Content(text, whole)
  <2>1. Files!Manifest(s0) \in writer.names /\ Files!Manifest(s0) # Files!UsageFile
    BY <1>3, Kinds DEF FileSet
  <2> QED  BY <1>1, <1>3, <2>1 DEF Files!Body
<1>5. rows'[Files!Manifest(s0)].text = text /\ rows'[Files!Manifest(s0)].complete = whole
  BY <1>4 DEF Files!Content
<1>6. \A s : s # s0 =>
        /\ Files!Manifest(s) \in DOMAIN rows' <=> Files!Manifest(s) \in DOMAIN rows
        /\ Files!Manifest(s) \in DOMAIN rows =>
             rows'[Files!Manifest(s)] = rows[Files!Manifest(s)]
  <2>1. \A n \in writer.names : n.kind = "manifest" => n = Files!Manifest(s0)
    BY <1>3, Kinds DEF FileSet
  <2>2. \A s : s # s0 => Files!Manifest(s) \notin writer.names
    BY <2>1, Kinds
  <2> QED  BY <1>1, <2>2
<1>7. Files!Kept' = Files!Kept \cup {s0} /\ s0 \notin Files!Kept
  BY <1>1, <1>2, <1>4, <1>6 DEF Files!Kept
<1>8. /\ Files!Whole' = Files!Whole \cup (IF whole THEN {s0} ELSE {})
      /\ s0 \notin Files!Whole /\ Files!Whole \subseteq Files!Kept
  BY <1>2, <1>5, <1>6, <1>7 DEF Files!Whole, Files!Kept
<1> DEFINE added == {s0} \X (1..text.size)
<1>9. Files!Bytes' = Files!Bytes \cup (IF whole THEN added ELSE {})
  <2>1. \A s \in Files!Whole : rows'[Files!Manifest(s)] = rows[Files!Manifest(s)]
    BY <1>6, <1>8 DEF Files!Whole, Files!Kept
  <2> DEFINE Of(s) == {s} \X (1..rows[Files!Manifest(s)].text.size)
  <2> DEFINE After(s) == {s} \X (1..rows'[Files!Manifest(s)].text.size)
  <2>2. After(s0) = added /\ \A s \in Files!Whole : After(s) = Of(s)
    BY <1>5, <2>1
  <2>3. Files!Bytes = UNION {Of(s) : s \in Files!Whole}
    BY DEF Files!Bytes
  <2>4. Files!Bytes' = UNION {After(s) : s \in Files!Whole'}
    BY DEF Files!Bytes
  <2> HIDE DEF Of, After, added
  <2> QED  BY <1>2, <1>8, <2>2, <2>3, <2>4
<1>10. Files!Bytes \cap added = {}
  BY <1>8 DEF Files!Bytes
<1>11. IsFiniteSet(added) /\ Cardinality(added) = text.size
  <2> DEFINE n == text.size
  <2> DEFINE f == [i \in 1..n |-> <<s0, i>>]
  <2>1. added = {f[i] : i \in 1..n}
    <3>1. \A i \in 1..n : f[i] = <<s0, i>>
      OBVIOUS
    <3>2. added = {<<s0, i>> : i \in 1..n}
      OBVIOUS
    <3> HIDE DEF f, added
    <3> QED  BY <3>1, <3>2
  <2>2. f \in [1..n -> {f[i] : i \in 1..n}]
    OBVIOUS
  <2>3. \A i, j \in 1..n : f[i] = f[j] => i = j
    OBVIOUS
  <2>4. n \in Nat
    BY <1>2
  <2> HIDE DEF f, added, n
  <2>5. IsFiniteSet(added) /\ Cardinality(added) = n
    BY <2>1, <2>2, <2>3, <2>4, Numbered
  <2> QED  BY <2>5 DEF n
<1> DEFINE more == {Files!Chunk(s0, i) : i \in 1..Files!Chunks(text)}
<1>12. Files!KeptChunks' = Files!KeptChunks \cup (IF whole THEN more ELSE {})
  <2>1. \A n \in writer.names : n.kind = "chunk" <=> whole /\ n \in more
    BY <1>3, Kinds DEF FileSet
  <2>2. whole => more \subseteq writer.names
    BY <1>3 DEF FileSet
  <2>3. Files!KeptChunks' = {n \in DOMAIN rows \cup writer.names : n.kind = "chunk"}
    BY <1>1 DEF Files!KeptChunks
  <2> HIDE DEF more
  <2> QED  BY <1>2, <2>1, <2>2, <2>3 DEF Files!KeptChunks
<1>13. whole => Files!KeptChunks \cap more = {}
  BY <1>3 DEF FileSet, Files!KeptChunks
<1>14. IsFiniteSet(more) /\ Cardinality(more) = Files!Chunks(text)
  <2> DEFINE n == Files!Chunks(text)
  <2> DEFINE f == [i \in 1..n |-> Files!Chunk(s0, i)]
  <2>1. more = {f[i] : i \in 1..n}
    OBVIOUS
  <2>2. f \in [1..n -> {f[i] : i \in 1..n}]
    OBVIOUS
  <2>3. \A i, j \in 1..n : f[i] = f[j] => i = j
    BY Kinds
  <2>4. n \in Nat
    BY <1>2
  <2> HIDE DEF f, more, n
  <2>5. IsFiniteSet(more) /\ Cardinality(more) = n
    BY <2>1, <2>2, <2>3, <2>4, Numbered
  <2> QED  BY <2>5 DEF n
<1>15. IsFiniteSet({s0}) /\ Cardinality({s0}) = 1 /\ Cardinality({}) = 0 /\ IsFiniteSet({})
  BY FS_Singleton, FS_EmptySet
<1>16. /\ IsFiniteSet(Files!Kept) /\ IsFiniteSet(Files!Bytes) /\ IsFiniteSet(Files!KeptChunks)
       /\ u.sources = Cardinality(Files!Kept) /\ u.text = Cardinality(Files!Bytes)
       /\ u.chunks = Cardinality(Files!KeptChunks)
       /\ u.storage = u.text + u.chunks + u.sources
       /\ Cardinality(Files!Kept \ Files!Whole) = 0
  BY <1>3, FilesCardinality DEF CountInv, Files!UsageIsExact
<1> DEFINE v == Files!Counted
<1>17. Files!Usage' = v
  <2>1. v # None
    BY <1>1, CountedFits, FileConstants
  <2> QED  BY <1>1, <2>1 DEF Files!Usage
<1>18. /\ IsFiniteSet(Files!Kept') /\ Cardinality(Files!Kept') = u.sources + 1
       /\ u.sources \in Nat
  <2>1. Files!Kept \cap {s0} = {}
    BY <1>7
  <2> QED  BY <1>7, <1>15, <1>16, <2>1, Disjoint
<1>19. /\ IsFiniteSet(Files!Bytes') /\ u.text \in Nat
       /\ Cardinality(Files!Bytes') = u.text + (IF whole THEN text.size ELSE 0)
  <2>1. IsFiniteSet(Files!Bytes \cup added) /\ u.text \in Nat
        /\ Cardinality(Files!Bytes \cup added) = u.text + text.size
    <3> HIDE DEF added, u
    <3>1. /\ IsFiniteSet(Files!Bytes \cup added) /\ Cardinality(Files!Bytes) \in Nat
          /\ Cardinality(Files!Bytes \cup added) = Cardinality(Files!Bytes) + Cardinality(added)
      BY <1>10, <1>11, <1>16, Disjoint
    <3> QED  BY <1>11, <1>16, <3>1
  <2>2. CASE whole
    BY <1>9, <2>1, <2>2
  <2>3. CASE ~whole
    <3>1. Files!Bytes' = Files!Bytes
      BY <1>9, <2>3
    <3> QED  BY <1>16, <2>1, <2>3, <3>1
  <2> QED  BY <1>2, <2>2, <2>3
<1>20. /\ IsFiniteSet(Files!KeptChunks') /\ u.chunks \in Nat
       /\ Cardinality(Files!KeptChunks') = u.chunks + (IF whole THEN Files!Chunks(text) ELSE 0)
  <2>1. u.chunks \in Nat
    BY <1>16, FS_CardinalityType
  <2>2. CASE whole
    <3>1. /\ IsFiniteSet(Files!KeptChunks \cup more)
          /\ Cardinality(Files!KeptChunks \cup more) = u.chunks + Files!Chunks(text)
      BY <1>13, <1>14, <1>16, <2>2, Disjoint
    <3> QED  BY <1>12, <2>1, <2>2, <3>1
  <2>3. CASE ~whole
    <3>1. Files!KeptChunks' = Files!KeptChunks
      BY <1>12, <2>3
    <3> QED  BY <1>16, <2>1, <2>3, <3>1
  <2> QED  BY <1>2, <2>2, <2>3
<1>21. Cardinality(Files!Kept' \ Files!Whole') = IF ~whole THEN 1 ELSE 0
  <2>1. Files!Kept \ Files!Whole = {}
    <3>1. IsFiniteSet(Files!Kept \ Files!Whole)
      BY <1>16, FS_Difference
    <3> QED  BY <1>16, <3>1, FS_EmptySet
  <2>2. CASE whole
    <3>1. Files!Kept' \ Files!Whole' = {}
      BY <1>7, <1>8, <2>1, <2>2
    <3> QED  BY <1>15, <2>2, <3>1
  <2>3. CASE ~whole
    <3>1. Files!Kept' \ Files!Whole' = {s0}
      BY <1>7, <1>8, <2>1, <2>3
    <3> QED  BY <1>15, <2>3, <3>1
  <2> QED  BY <1>2, <2>2, <2>3
<1>22. /\ v.sources = u.sources + 1 /\ v.sealed = ~whole
       /\ v.text = u.text + (IF whole THEN text.size ELSE 0)
       /\ v.chunks = u.chunks + (IF whole THEN Files!Chunks(text) ELSE 0)
       /\ v.storage = u.storage + Files!ManifestBytes(whole, text)
                        + (IF whole THEN text.size ELSE 0)
  BY DEF Files!Counted
<1>23. v.storage = v.text + v.chunks + v.sources
  <2>1. Files!ManifestBytes(whole, text) = 1 + (IF whole THEN Files!Chunks(text) ELSE 0)
    BY DEF Files!ManifestBytes
  <2> HIDE DEF u, v, text, whole
  <2> QED  BY <1>2, <1>16, <1>18, <1>19, <1>20, <1>22, <2>1
<1>24. Files!UsageIsExact'
  <2>1. /\ v.sources = Cardinality(Files!Kept') /\ v.text = Cardinality(Files!Bytes')
        /\ v.chunks = Cardinality(Files!KeptChunks')
        /\ v.storage = v.text + v.chunks + v.sources
        /\ Cardinality(Files!Kept' \ Files!Whole') = IF v.sealed THEN 1 ELSE 0
    BY <1>18, <1>19, <1>20, <1>21, <1>22, <1>23
  <2> HIDE DEF v
  <2> QED  BY <1>17, <2>1, FilesCardinality DEF Files!UsageIsExact
<1> QED  BY <1>18, <1>19, <1>20, <1>24 DEF CountInv

\* Any other step leaves the usage row, the manifests and the chunks alone.
LEMMA CountNext ==
  ASSUME Files!ArtifactsAssumption, FileInv, CountInv, Files!Next
  PROVE  CountInv'
<1>1. CASE UNCHANGED <<rows, usage>>
  BY <1>1, KeptStands
<1>2. ASSUME NEW id \in Uploads, NEW c \in BOOLEAN, NEW r \in BOOLEAN,
             Files!StoreCommit(id, c, r)
      PROVE  CountInv'
  <2>1. /\ usage' = usage
        /\ rows' = IF c THEN Files!Put(rows, Files!Upload(id),
                                       Files!Content(Files!NoText, TRUE)) ELSE rows
    BY <1>2 DEF Files!StoreCommit
  <2>2. \A n : n.kind \in {"manifest", "chunk"} => n # Files!Upload(id)
    BY Kinds
  <2>3. \A n : n.kind \in {"manifest", "chunk"} =>
          /\ n \in DOMAIN rows' <=> n \in DOMAIN rows
          /\ n \in DOMAIN rows => rows'[n] = rows[n]
    <3>1. CASE c
      <4>1. rows' = [m \in DOMAIN rows \cup {Files!Upload(id)} |->
                       IF m = Files!Upload(id) THEN Files!Content(Files!NoText, TRUE)
                       ELSE rows[m]]
        BY <2>1, <3>1 DEF Files!Put
      <4>2. /\ DOMAIN rows' = DOMAIN rows \cup {Files!Upload(id)}
            /\ \A n \in DOMAIN rows : n # Files!Upload(id) => rows'[n] = rows[n]
        BY <4>1
      <4> QED  BY <2>2, <4>2
    <3>2. CASE ~c
      BY <2>1, <3>2
    <3> QED  BY <3>1, <3>2
  <2> QED  BY <2>1, <2>3, KeptStands
<1>3. ASSUME NEW c \in BOOLEAN, NEW r \in BOOLEAN, Files!Commit(c, r)
      PROVE  CountInv'
  <2>1. CASE c
    BY <1>3, <2>1, CommitCounts
  <2>2. CASE ~c
    BY <1>1, <1>3, <2>2 DEF Files!Commit
  <2> QED  BY <2>1, <2>2
<1>4. CASE \E s \in AllSources, text \in Files!Texts : Files!Capture(s, text)
  BY <1>1, <1>4 DEF Files!Capture
<1>5. CASE Files!FindFile \/ Files!WriteTemp \/ Files!Rename \/ Files!SyncDir \/ Files!Fail
  BY <1>1, <1>5 DEF Files!FindFile, Files!WriteTemp, Files!Rename, Files!SyncDir, Files!Fail,
     Files!Rollback
<1>6. CASE \E id \in Uploads : \/ Files!StoreTemp(id) \/ Files!StoreRename(id)
                               \/ Files!StoreSync(id) \/ Files!StoreRefused(id)
  BY <1>1, <1>6 DEF Files!StoreTemp, Files!StoreRename, Files!StoreSync, Files!StoreRefused
<1>7. CASE Files!Close \/ Files!Open \/ \E gone \in SUBSET unsynced : Files!Crash(gone)
  BY <1>1, <1>7 DEF Files!Close, Files!Open, Files!Crash
<1> QED  BY <1>2, <1>3, <1>4, <1>5, <1>6, <1>7 DEF Files!Next, Files!Write

\* Nothing is counted at first.
LEMMA CountInit ==
  ASSUME Files!Init PROVE CountInv
<1>1. DOMAIN rows = {} /\ Files!Usage = Files!NoUsage
  BY DEF Files!Init, Files!Usage
<1>2. Files!Kept = {} /\ Files!KeptChunks = {}
  BY <1>1 DEF Files!Kept, Files!KeptChunks
<1>3. Files!Whole = {} /\ Files!Kept \ Files!Whole = {}
  BY <1>2 DEF Files!Whole
<1>4. Files!Bytes = {}
  BY <1>3 DEF Files!Bytes
<1>5. IsFiniteSet({}) /\ Files!Cardinality({}) = 0
  BY FS_EmptySet, FilesCardinality
<1> QED  BY <1>1, <1>2, <1>3, <1>4, <1>5 DEF CountInv, Files!UsageIsExact, Files!NoUsage

\* The usage row is what the committed rows add up to - the texts, their bytes and chunks,
\* and at most one marker, the last - and it leaves room for the marker of a text that is
\* missing: whatever order texts come in, through refusals, failed commits and restarts
\* (updateSafeTextUsage, safeTextCanStoreComplete).
THEOREM UsageSound == Spec => []UsageIsSound
<1>1. Files!ArtifactsAssumption
  BY StorageAssumption
<1>2. CountInv /\ UNCHANGED fileVars => CountInv'
  BY KeptStands DEF fileVars
<1>3. FileInv /\ CountInv /\ [Files!Next]_fileVars => CountInv'
  BY <1>1, <1>2, CountNext
<1>4. Files!Init => CountInv
  BY CountInit
<1>5. Spec => []CountInv
  BY <1>3, <1>4, FileInvariance, FilePart, PTL
<1>6. FileInv /\ CountInv => UsageIsSound
  BY DEF FileInv, UsageInv, CountInv, UsageIsSound, Files!UsageIsSound
<1> QED  BY <1>5, <1>6, FileInvariance, PTL
-----------------------------------------------------------------------------
\* The lists a client walks through.

\* A set of numbers has a least one.
LEMMA LeastNat ==
  ASSUME NEW T, T \subseteq Nat, T # {}
  PROVE  \E n \in T : \A k \in T : n <= k
<1> DEFINE R == OpToRel(<, Nat)
<1>1. IsWellFoundedOn(R, Nat)
  BY NatLessThanWellFounded
<1>2. \A j, k \in Nat : j < k => <<j, k>> \in R
  BY DEF OpToRel
<1> HIDE DEF R
<1>3. PICK x \in T : \A y \in T : ~ (<<y, x>> \in R)
  BY <1>1, WFMin
<1>4. \A j, k \in Nat : ~(k < j) => j <= k
  OBVIOUS
<1> QED  BY <1>2, <1>3, <1>4

\* How far a selection has come: f[i] is what the first i elements leave.
Selects(f, s, places, n) ==
  f = [i \in 0..n |-> IF i = 0 THEN <<>>
                      ELSE IF i \in places THEN Append(f[i - 1], s[i]) ELSE f[i - 1]]

\* There is such a function.
LEMMA SelectsExists ==
  ASSUME NEW s, NEW places, NEW n \in Nat
  PROVE  \E f : Selects(f, s, places, n)
<1> SUFFICES ASSUME ~\E f : Selects(f, s, places, n) PROVE FALSE
  OBVIOUS
<1> DEFINE Bad == {k \in Nat : ~\E f : Selects(f, s, places, k)}
<1>1. PICK k \in Bad : \A j \in Bad : k <= j
  BY LeastNat
<1>2. k # 0
  <2> DEFINE f == [i \in 0..0 |-> <<>>]
  <2>1. Selects(f, s, places, 0)
    BY DEF Selects
  <2> HIDE DEF f
  <2> QED  BY <1>1, <2>1
<1>3. k - 1 \in Nat /\ k - 1 \notin Bad
  BY <1>1, <1>2
<1>4. PICK g : Selects(g, s, places, k - 1)
  BY <1>3
<1> DEFINE f == [i \in 0..k |-> IF i < k THEN g[i]
                                ELSE IF k \in places THEN Append(g[k - 1], s[k]) ELSE g[k - 1]]
<1>5. \A i \in 0..(k - 1) : g[i] = IF i = 0 THEN <<>>
                      ELSE IF i \in places THEN Append(g[i - 1], s[i]) ELSE g[i - 1]
  BY <1>4 DEF Selects
<1>6. \A i \in 0..k : f[i] = IF i = 0 THEN <<>>
                      ELSE IF i \in places THEN Append(f[i - 1], s[i]) ELSE f[i - 1]
  <2> TAKE i \in 0..k
  <2>1. CASE i < k
    <3>1. i \in 0..(k - 1) /\ (i # 0 => i - 1 \in 0..k /\ i - 1 < k)
      BY <1>1, <2>1
    <3>2. f[i] = g[i] /\ (i # 0 => f[i - 1] = g[i - 1])
      BY <2>1, <3>1
    <3> HIDE DEF f
    <3> QED  BY <1>5, <3>1, <3>2
  <2>2. CASE i = k
    <3>1. k - 1 \in 0..k /\ k - 1 < k /\ k \in 0..k
      BY <1>1, <1>2
    <3>2. f[k - 1] = g[k - 1]
      BY <3>1
    <3>3. f[k] = IF k \in places THEN Append(g[k - 1], s[k]) ELSE g[k - 1]
      BY <3>1
    <3> HIDE DEF f
    <3> QED  BY <1>2, <2>2, <3>2, <3>3
  <2>3. i < k \/ i = k
    BY <1>1
  <2> QED  BY <2>1, <2>2, <2>3
<1>7. Selects(f, s, places, k)
  <2>1. f = [i \in 0..k |-> f[i]]
    OBVIOUS
  <2> HIDE DEF f
  <2> QED  BY <1>6, <2>1 DEF Selects
<1> HIDE DEF f
<1> QED  BY <1>1, <1>7

\* Select is the last value of such a function.
LEMMA SelectUnfolds ==
  ASSUME NEW s, NEW places, Len(s) \in Nat
  PROVE  \E f : Selects(f, s, places, Len(s)) /\ Lists!Select(s, places) = f[Len(s)]
<1> DEFINE f == CHOOSE f : Selects(f, s, places, Len(s))
<1>1. Selects(f, s, places, Len(s))
  BY SelectsExists
<1>2. Lists!Select(s, places) = f[Len(s)]
  BY DEF Lists!Select, Selects
<1> QED  BY <1>1, <1>2

\* What holds at zero and passes from a number to the next holds up to n.
LEMMA Reaches ==
  ASSUME NEW n \in Nat, NEW G, 0 \in G, \A i \in 0..(n - 1) : i \in G => i + 1 \in G
  PROVE  0..n \subseteq G
<1> SUFFICES ASSUME ~(0..n \subseteq G) PROVE FALSE
  OBVIOUS
<1> DEFINE Bad == {i \in 0..n : i \notin G}
<1>1. PICK k \in Bad : \A j \in Bad : k <= j
  <2>1. Bad \subseteq Nat /\ Bad # {}
    OBVIOUS
  <2> QED  BY <2>1, LeastNat
<1>2. k # 0 /\ k \in 0..n
  BY <1>1
<1>3. k - 1 \in 0..(n - 1) /\ k - 1 \in 0..n /\ k - 1 \notin Bad /\ (k - 1) + 1 = k
  BY <1>1, <1>2
<1> QED  BY <1>1, <1>3

\* Sequences with the same elements are equal.
LEMMA SameSequence ==
  ASSUME NEW S, NEW p \in Seq(S), NEW q \in Seq(S), Len(p) = Len(q),
         \A i \in 1..Len(p) : p[i] = q[i]
  PROVE  p = q
OBVIOUS

\* A part of a sequence, and a sequence with one element more.
LEMMA PartOf ==
  ASSUME NEW S, NEW s \in Seq(S), NEW a \in 1..(Len(s) + 1), NEW b \in 0..Len(s), a <= b + 1
  PROVE  /\ SubSeq(s, a, b) \in Seq(S) /\ Len(SubSeq(s, a, b)) = b - a + 1
         /\ \A j \in 1..(b - a + 1) : SubSeq(s, a, b)[j] = s[a + j - 1]
OBVIOUS

\* A sequence with one element more.
LEMMA OneMore ==
  ASSUME NEW S, NEW s \in Seq(S), NEW x \in S
  PROVE  /\ Append(s, x) \in Seq(S) /\ Len(Append(s, x)) = Len(s) + 1
         /\ \A j \in 1..Len(s) : Append(s, x)[j] = s[j]
         /\ Append(s, x)[Len(s) + 1] = x
OBVIOUS

\* The stages of a selection.
Staged(f, S, s, places) ==
  /\ Lists!Select(s, places) = f[Len(s)] /\ f[0] = <<>>
  /\ \A i \in 0..Len(s) : f[i] \in Seq(S)
  /\ \A i \in 1..Len(s) : f[i] = IF i \in places THEN Append(f[i - 1], s[i]) ELSE f[i - 1]

\* A selection goes through its stages.
LEMMA SelectStages ==
  ASSUME NEW S, NEW s \in Seq(S), NEW places
  PROVE  \E f : Staged(f, S, s, places)
<1>1. Len(s) \in Nat /\ \A i \in 1..Len(s) : s[i] \in S
  OBVIOUS
<1>2. PICK f : Selects(f, s, places, Len(s)) /\ Lists!Select(s, places) = f[Len(s)]
  BY <1>1, SelectUnfolds
<1>3. \A i \in 0..Len(s) : f[i] = IF i = 0 THEN <<>>
                      ELSE IF i \in places THEN Append(f[i - 1], s[i]) ELSE f[i - 1]
  BY <1>2 DEF Selects
<1>4. f[0] = <<>>
  BY <1>1, <1>3
<1>5. \A i \in 1..Len(s) : f[i] = IF i \in places THEN Append(f[i - 1], s[i]) ELSE f[i - 1]
  BY <1>1, <1>3
<1> DEFINE G == {i \in 0..Len(s) : f[i] \in Seq(S)}
<1>6. 0 \in G
  <2>1. <<>> \in Seq(S) /\ 0 \in 0..Len(s)
    BY <1>1
  <2>2. f[0] \in Seq(S)
    BY <1>4, <2>1
  <2> QED  BY <2>1, <2>2
<1>7. ASSUME NEW i \in 0..(Len(s) - 1), i \in G PROVE i + 1 \in G
  <2>1. i + 1 \in 1..Len(s) /\ i + 1 \in 0..Len(s) /\ (i + 1) - 1 = i
    BY <1>1
  <2>2. f[i + 1] = IF i + 1 \in places THEN Append(f[i], s[i + 1]) ELSE f[i]
    BY <1>5, <2>1
  <2>3. f[i] \in Seq(S) /\ s[i + 1] \in S
    BY <1>1, <1>7, <2>1
  <2>4. Append(f[i], s[i + 1]) \in Seq(S)
    BY <2>3, OneMore
  <2> QED  BY <2>1, <2>2, <2>3, <2>4
<1>8. 0..Len(s) \subseteq G
  <2> HIDE DEF G
  <2> QED  BY <1>1, <1>6, <1>7, Reaches
<1> QED  BY <1>2, <1>4, <1>5, <1>8 DEF Staged

\* Every element that is selected is at one of the places, and they come in order.
LEMMA SelectPlaces ==
  ASSUME NEW S, NEW s \in Seq(S), NEW places
  PROVE  /\ Lists!Select(s, places) \in Seq(S)
         /\ \E h : /\ \A j \in 1..Len(Lists!Select(s, places)) :
                        /\ h[j] \in 1..Len(s) /\ h[j] \in places
                        /\ Lists!Select(s, places)[j] = s[h[j]]
                   /\ \A j, k \in 1..Len(Lists!Select(s, places)) : j < k => h[j] < h[k]
<1>1. Len(s) \in Nat /\ \A i \in 1..Len(s) : s[i] \in S
  OBVIOUS
<1>s. PICK f : Staged(f, S, s, places)
  BY SelectStages
<1>2. /\ Lists!Select(s, places) = f[Len(s)] /\ f[0] = <<>>
      /\ \A i \in 0..Len(s) : f[i] \in Seq(S)
      /\ \A i \in 1..Len(s) :
           f[i] = IF i \in places THEN Append(f[i - 1], s[i]) ELSE f[i - 1]
  BY <1>s DEF Staged
<1> DEFINE Found(i, h) == /\ \A j \in 1..Len(f[i]) :
                               /\ h[j] \in 1..i /\ h[j] \in places /\ f[i][j] = s[h[j]]
                          /\ \A j, k \in 1..Len(f[i]) : j < k => h[j] < h[k]
<1> DEFINE G == {i \in 0..Len(s) : \E h : Found(i, h)}
<1>3. 0 \in G
  <2>1. Found(0, <<>>)
    BY <1>2
  <2> QED  BY <1>1, <2>1
<1>4. ASSUME NEW i \in 0..(Len(s) - 1), i \in G PROVE i + 1 \in G
  <2>1. i + 1 \in 1..Len(s) /\ i + 1 \in 0..Len(s) /\ (i + 1) - 1 = i /\ i \in 0..Len(s)
    BY <1>1
  <2>2. f[i + 1] = IF i + 1 \in places THEN Append(f[i], s[i + 1]) ELSE f[i]
    BY <1>2, <2>1
  <2>3. PICK h : Found(i, h)
    BY <1>4
  <2>4. f[i] \in Seq(S) /\ s[i + 1] \in S /\ Len(f[i]) \in Nat
    BY <1>1, <1>2, <2>1
  <2>5. CASE i + 1 \notin places
    <3>1. f[i + 1] = f[i]
      BY <2>2, <2>5
    <3>2. Found(i + 1, h)
      BY <2>3, <3>1
    <3> QED  BY <2>1, <3>2
  <2>6. CASE i + 1 \in places
    <3> DEFINE n == Len(f[i])
    <3> DEFINE g == [j \in 1..(n + 1) |-> IF j = n + 1 THEN i + 1 ELSE h[j]]
    <3>1. /\ Len(f[i + 1]) = n + 1 /\ f[i + 1][n + 1] = s[i + 1]
          /\ \A j \in 1..n : f[i + 1][j] = f[i][j]
      BY <2>2, <2>4, <2>6
    <3>2. /\ g[n + 1] = i + 1 /\ \A j \in 1..n : g[j] = h[j]
      BY <2>4
    <3>3. \A j \in 1..(n + 1) : j = n + 1 \/ j \in 1..n
      BY <2>4
    <3>4. \A j \in 1..n : h[j] \in 1..i /\ h[j] \in places /\ f[i][j] = s[h[j]]
      BY <2>3
    <3>5. \A j, k \in 1..n : j < k => h[j] < h[k]
      BY <2>3
    <3> HIDE DEF g, n
    <3>6. \A j \in 1..Len(f[i + 1]) :
            g[j] \in 1..(i + 1) /\ g[j] \in places /\ f[i + 1][j] = s[g[j]]
      <4> SUFFICES ASSUME NEW j \in 1..(n + 1)
                   PROVE  g[j] \in 1..(i + 1) /\ g[j] \in places /\ f[i + 1][j] = s[g[j]]
        BY <3>1
      <4>1. CASE j = n + 1
        BY <2>1, <2>6, <3>1, <3>2, <4>1
      <4>2. CASE j \in 1..n
        BY <2>1, <3>1, <3>2, <3>4, <4>2
      <4> QED  BY <3>3, <4>1, <4>2
    <3>7. \A j, k \in 1..Len(f[i + 1]) : j < k => g[j] < g[k]
      <4> SUFFICES ASSUME NEW j \in 1..(n + 1), NEW k \in 1..(n + 1), j < k
                   PROVE  g[j] < g[k]
        BY <3>1
      <4>1. j \in 1..n
        BY <2>4, <3>3 DEF n
      <4>2. CASE k = n + 1
        BY <2>1, <3>2, <3>4, <4>1, <4>2
      <4>3. CASE k \in 1..n
        BY <3>2, <3>5, <4>1, <4>3
      <4> QED  BY <3>3, <4>2, <4>3
    <3>8. Found(i + 1, g)
      BY <3>6, <3>7
    <3> QED  BY <2>1, <3>8
  <2> QED  BY <2>5, <2>6
<1>5. 0..Len(s) \subseteq G
  <2> HIDE DEF G
  <2> QED  BY <1>1, <1>3, <1>4, Reaches
<1>6. PICK h : Found(Len(s), h)
  BY <1>1, <1>5
<1>7. Lists!Select(s, places) \in Seq(S)
  BY <1>1, <1>2
<1>8. PICK t : t = Lists!Select(s, places) /\ t = f[Len(s)]
  BY <1>2
<1>9. /\ \A j \in 1..Len(t) : h[j] \in 1..Len(s) /\ h[j] \in places /\ t[j] = s[h[j]]
      /\ \A j, k \in 1..Len(t) : j < k => h[j] < h[k]
  BY <1>6, <1>8
<1> QED  BY <1>7, <1>8, <1>9

\* All places from some place on select the rest of the sequence.
LEMMA SelectRest ==
  ASSUME NEW S, NEW s \in Seq(S), NEW a \in 1..(Len(s) + 1), NEW places,
         \A i \in 1..Len(s) : i \in places <=> i >= a
  PROVE  Lists!Select(s, places) = SubSeq(s, a, Len(s))
<1>1. Len(s) \in Nat /\ \A i \in 1..Len(s) : s[i] \in S
  OBVIOUS
<1>s. PICK f : Staged(f, S, s, places)
  BY SelectStages
<1>2. /\ Lists!Select(s, places) = f[Len(s)] /\ f[0] = <<>>
      /\ \A i \in 0..Len(s) : f[i] \in Seq(S)
      /\ \A i \in 1..Len(s) :
           f[i] = IF i \in places THEN Append(f[i - 1], s[i]) ELSE f[i - 1]
  BY <1>s DEF Staged
<1> DEFINE G == {i \in 0..Len(s) : f[i] = IF i < a THEN <<>> ELSE SubSeq(s, a, i)}
<1>3. 0 \in G
  BY <1>1, <1>2
<1>4. ASSUME NEW i \in 0..(Len(s) - 1), i \in G PROVE i + 1 \in G
  <2>1. i + 1 \in 1..Len(s) /\ i + 1 \in 0..Len(s) /\ (i + 1) - 1 = i
    BY <1>1
  <2>2. f[i + 1] = IF i + 1 >= a THEN Append(f[i], s[i + 1]) ELSE f[i]
    BY <1>2, <2>1
  <2>3. f[i] = IF i < a THEN <<>> ELSE SubSeq(s, a, i)
    BY <1>4
  <2>4. CASE i + 1 < a
    BY <2>1, <2>2, <2>3, <2>4
  <2>5. CASE i + 1 = a
    <3>1. f[i] = <<>> /\ s[i + 1] \in S
      BY <1>1, <2>1, <2>3, <2>5
    <3>2. f[i + 1] = Append(<<>>, s[i + 1])
      BY <2>1, <2>2, <2>5, <3>1
    <3>3. /\ SubSeq(s, a, i + 1) \in Seq(S) /\ Len(SubSeq(s, a, i + 1)) = 1
          /\ SubSeq(s, a, i + 1)[1] = s[i + 1]
      <4>1. i + 1 \in 0..Len(s) /\ a <= (i + 1) + 1 /\ (i + 1) - a + 1 = 1 /\ a + 1 - 1 = i + 1
        BY <2>1, <2>5
      <4> QED  BY <4>1, PartOf
    <3>4. /\ Append(<<>>, s[i + 1]) \in Seq(S) /\ Len(Append(<<>>, s[i + 1])) = 1
          /\ Append(<<>>, s[i + 1])[1] = s[i + 1]
      BY <3>1
    <3>5. f[i + 1] = SubSeq(s, a, i + 1)
      <4> DEFINE p == Append(<<>>, s[i + 1])
      <4> DEFINE q == SubSeq(s, a, i + 1)
      <4> HIDE DEF p, q
      <4>1. p \in Seq(S) /\ q \in Seq(S) /\ Len(p) = 1 /\ Len(q) = 1 /\ p[1] = q[1]
        BY <3>3, <3>4 DEF p, q
      <4>2. p = q
        BY <4>1, SameSequence
      <4> QED  BY <3>2, <4>2 DEF p, q
    <3>6. ~(i + 1 < a)
      BY <2>1, <2>5
    <3>7. f[i + 1] = IF i + 1 < a THEN <<>> ELSE SubSeq(s, a, i + 1)
      BY <3>5, <3>6
    <3> QED  BY <2>1, <3>7
  <2>6. CASE i >= a
    <3>1. f[i + 1] = Append(SubSeq(s, a, i), s[i + 1])
      BY <2>1, <2>2, <2>3, <2>6
    <3> DEFINE l == SubSeq(s, a, i)
    <3> DEFINE m == SubSeq(s, a, i + 1)
    <3>2. /\ l \in Seq(S) /\ Len(l) = i - a + 1
          /\ \A j \in 1..(i - a + 1) : l[j] = s[a + j - 1]
      <4>1. i \in 0..Len(s) /\ a <= i + 1
        BY <1>1, <2>6
      <4> QED  BY <4>1, PartOf
    <3>3. /\ m \in Seq(S) /\ Len(m) = i - a + 2
          /\ \A j \in 1..(i - a + 2) : m[j] = s[a + j - 1]
      <4>1. i + 1 \in 0..Len(s) /\ a <= (i + 1) + 1 /\ (i + 1) - a + 1 = i - a + 2
        BY <1>1, <2>1, <2>6
      <4> QED  BY <4>1, PartOf
    <3>4. s[i + 1] \in S
      BY <1>1, <2>1
    <3> HIDE DEF l, m
    <3> DEFINE x == s[i + 1]
    <3> DEFINE p == Append(l, x)
    <3>5. /\ p \in Seq(S) /\ Len(p) = Len(l) + 1 /\ p[Len(l) + 1] = s[i + 1]
          /\ \A j \in 1..Len(l) : p[j] = l[j]
      <4>1. l \in Seq(S) /\ x \in S
        BY <3>2, <3>4
      <4>2. x = s[i + 1]
        OBVIOUS
      <4> HIDE DEF x
      <4> QED  BY <4>1, <4>2, OneMore
    <3> HIDE DEF p
    <3>6. Len(p) = i - a + 2 /\ Len(l) + 1 = i - a + 2
      BY <2>1, <2>6, <3>2, <3>5
    <3>7. \A j \in 1..(i - a + 2) : p[j] = m[j]
      <4> TAKE j \in 1..(i - a + 2)
      <4>1. CASE j = i - a + 2
        <5>1. a + j - 1 = i + 1
          BY <2>1, <2>6, <4>1
        <5> QED  BY <3>3, <3>5, <3>6, <4>1, <5>1
      <4>2. CASE j # i - a + 2
        <5>1. j \in 1..(i - a + 1)
          BY <2>1, <2>6, <4>2
        <5> QED  BY <3>2, <3>3, <3>5, <5>1
      <4> QED  BY <4>1, <4>2
    <3>8. p = m
      BY <3>3, <3>5, <3>6, <3>7, SameSequence
    <3>9. f[i + 1] = SubSeq(s, a, i + 1)
      BY <3>1, <3>8 DEF l, m, p
    <3>a. ~(i + 1 < a)
      BY <2>1, <2>6
    <3>b. f[i + 1] = IF i + 1 < a THEN <<>> ELSE SubSeq(s, a, i + 1)
      BY <3>9, <3>a
    <3> QED  BY <2>1, <3>b
  <2> QED  BY <2>1, <2>4, <2>5, <2>6
<1>5. Len(s) \in G
  <2> HIDE DEF G
  <2>1. 0..Len(s) \subseteq G
    BY <1>1, <1>3, <1>4, Reaches
  <2> QED  BY <1>1, <2>1
<1>6. CASE Len(s) < a
  <2>1. SubSeq(s, a, Len(s)) = <<>>
    BY <1>1, <1>6
  <2> QED  BY <1>2, <1>5, <1>6, <2>1
<1>7. CASE ~(Len(s) < a)
  BY <1>2, <1>5, <1>7
<1> QED  BY <1>6, <1>7

\* A row more selects the same rows, and perhaps that one.
LEMMA SelectGrows ==
  ASSUME NEW S, NEW s \in Seq(S), NEW x \in S, NEW places, NEW more,
         \A i \in 1..Len(s) : i \in places <=> i \in more
  PROVE  Lists!Select(Append(s, x), more)
           \in {Lists!Select(s, places), Append(Lists!Select(s, places), x)}
<1> DEFINE t == Append(s, x)
<1>1. /\ Len(s) \in Nat /\ t \in Seq(S) /\ Len(t) = Len(s) + 1 /\ t[Len(s) + 1] = x
      /\ \A i \in 1..Len(s) : t[i] = s[i]
  OBVIOUS
<1> HIDE DEF t
<1>s. PICK f : Staged(f, S, s, places)
  BY SelectStages
<1>2. /\ Lists!Select(s, places) = f[Len(s)] /\ f[0] = <<>>
      /\ \A i \in 0..Len(s) : f[i] \in Seq(S)
      /\ \A i \in 1..Len(s) :
           f[i] = IF i \in places THEN Append(f[i - 1], s[i]) ELSE f[i - 1]
  BY <1>s DEF Staged
<1>t. PICK g : Staged(g, S, t, more)
  BY <1>1, SelectStages
<1>3. /\ Lists!Select(t, more) = g[Len(t)] /\ g[0] = <<>>
      /\ \A i \in 0..Len(t) : g[i] \in Seq(S)
      /\ \A i \in 1..Len(t) :
           g[i] = IF i \in more THEN Append(g[i - 1], t[i]) ELSE g[i - 1]
  BY <1>t DEF Staged
<1> DEFINE G == {i \in 0..Len(s) : f[i] = g[i]}
<1>4. 0 \in G
  BY <1>1, <1>2, <1>3
<1>5. ASSUME NEW i \in 0..(Len(s) - 1), i \in G PROVE i + 1 \in G
  <2>1. i + 1 \in 1..Len(s) /\ i + 1 \in 1..Len(t) /\ i + 1 \in 0..Len(s) /\ (i + 1) - 1 = i
    BY <1>1
  <2>2. /\ f[i + 1] = IF i + 1 \in places THEN Append(f[i], s[i + 1]) ELSE f[i]
        /\ g[i + 1] = IF i + 1 \in more THEN Append(g[i], t[i + 1]) ELSE g[i]
    BY <1>2, <1>3, <2>1
  <2> QED  BY <1>1, <1>5, <2>1, <2>2
<1>6. Len(s) \in G
  <2> HIDE DEF G
  <2>1. 0..Len(s) \subseteq G
    BY <1>1, <1>4, <1>5, Reaches
  <2> QED  BY <1>1, <2>1
<1>7. f[Len(s)] = g[Len(s)]
  BY <1>6
<1>8. Len(t) \in 1..Len(t) /\ Len(t) - 1 = Len(s)
  BY <1>1
<1>9. g[Len(t)] = IF Len(t) \in more THEN Append(g[Len(s)], t[Len(t)]) ELSE g[Len(s)]
  BY <1>3, <1>8
<1>10. Lists!Select(t, more) \in {Lists!Select(s, places), Append(Lists!Select(s, places), x)}
  BY <1>1, <1>2, <1>3, <1>7, <1>9
<1> QED  BY <1>10 DEF t

\* One sequence is the beginning of another.
Starts(s, t) == Len(s) <= Len(t) /\ \A i \in 1..Len(s) : s[i] = t[i]

\* The ids of the list that is walked, as it is now.
PageIds == Lists!IdsOf(Lists!Listing(walk.kind))

\* The cursor of a walk that goes on: what it has, or the last id it has.
CursorInv ==
  ~walk.done =>
    walk.at = IF walk.kind \in Lists!ByOffset THEN Len(walk.got)
              ELSE IF walk.got = <<>> THEN Lists!FirstCursor(walk.kind)
                ELSE walk.got[Len(walk.got)]

\* A list that is good for one version is, at that version, the one the walk began with.
VersionedInv ==
  walk.kind \in {"dialogs", "requests", "attempts"} =>
    /\ walk.version = version => PageIds = walk.start
    /\ Starts(walk.got, walk.start) /\ Lists!IsInjective(walk.start)
    /\ walk.done => walk.got = walk.start

\* The history and the events grow at their end.
GrowingInv ==
  walk.kind \in {"history", "events"} =>
    /\ Starts(walk.got, PageIds) /\ Starts(walk.start, PageIds)
    /\ walk.done => Len(walk.start) <= Len(walk.got)

\* Read from its end, the history began with the message that was the last.
BackwardInv ==
  walk.kind = "latest" =>
    /\ Len(walk.start) <= Len(messages)
    /\ \A i \in 1..Len(walk.start) : walk.start[i] = Len(walk.start) + 1 - i
    /\ Starts(walk.got, walk.start)
    /\ walk.done => walk.got = walk.start

\* What a client has of the list it walks.
WalkInv ==
  walk # None =>
    /\ walk.kind = "attempts" => requests # <<>>
    /\ CursorInv /\ VersionedInv /\ GrowingInv /\ BackwardInv

\* The inductive invariant of the lists.
PageInv == Lists!TypeOK /\ WalkInv

\* The rows of a list, and their ids.
IdSet == Dialogs \cup Nat
Rows == [id : IdSet, size : Nat]
EventSet == [attempt : BOOLEAN, size : Sizes \cup {1}]

\* The sizes of messages and events are numbers.
LEMMA PageSizes ==
  ASSUME Lists!PagesAssumption
  PROVE  /\ Sizes \subseteq Nat /\ \A e \in EventSet : e.size \in Nat
         /\ PageBudget \in Nat /\ PageLimit \in Nat /\ PageLimit > 0 /\ MaxRows \in Nat
         /\ MaxVersion \in Nat
<1>1. Sizes \subseteq Nat
  BY DEF Lists!PagesAssumption
<1>2. \A e \in EventSet : e.size \in Sizes \cup {1}
  BY DEF EventSet
<1>3. ASSUME NEW e \in EventSet PROVE e.size \in Nat
  <2>1. e.size \in Sizes \/ e.size = 1
    BY <1>2
  <2>2. \A n \in Sizes : n \in Nat
    BY <1>1
  <2>3. 1 \in Nat
    OBVIOUS
  <2> QED  BY <2>1, <2>2, <2>3
<1> QED  BY <1>1, <1>3 DEF Lists!PagesAssumption

\* The ids of rows.
LEMMA IdsAre ==
  ASSUME NEW r \in Seq(Rows)
  PROVE  /\ Lists!IdsOf(r) \in Seq(IdSet) /\ Len(Lists!IdsOf(r)) = Len(r)
         /\ \A i \in 1..Len(r) : Lists!IdsOf(r)[i] = r[i].id
<1>1. Len(r) \in Nat /\ \A i \in 1..Len(r) : r[i] \in Rows
  OBVIOUS
<1>2. \A w \in Rows : w.id \in IdSet
  BY DEF Rows
<1>3. \A i \in 1..Len(r) : r[i].id \in IdSet
  BY <1>1, <1>2
<1> QED  BY <1>1, <1>3 DEF Lists!IdsOf

\* Rows that are numbered have their places as ids.
LEMMA NumberedAre ==
  ASSUME NEW s \in Seq(Nat)
  PROVE  /\ Lists!Numbered(s) \in Seq(Rows) /\ Len(Lists!Numbered(s)) = Len(s)
         /\ \A i \in 1..Len(s) : Lists!Numbered(s)[i].id = i
<1>1. Len(s) \in Nat /\ \A i \in 1..Len(s) : s[i] \in Nat
  OBVIOUS
<1>2. \A i \in 1..Len(s) : Lists!Row(i, s[i]) \in Rows /\ Lists!Row(i, s[i]).id = i
  BY <1>1 DEF Lists!Row, Rows, IdSet
<1>3. Lists!Numbered(s) = [i \in 1..Len(s) |-> Lists!Row(i, s[i])]
  BY DEF Lists!Numbered
<1>4. Lists!Numbered(s) \in Seq(Rows) /\ Len(Lists!Numbered(s)) = Len(s)
  BY <1>1, <1>2, <1>3
<1>5. \A i \in 1..Len(s) : Lists!Numbered(s)[i].id = i
  BY <1>2, <1>3
<1> QED  BY <1>4, <1>5

\* The ids of rows come in ascending order.
Ascending(r) ==
  /\ \A j \in 1..Len(r) : r[j].id \in Nat /\ r[j].id > 0
  /\ \A j, k \in 1..Len(r) : j < k => r[j].id < r[k].id

\* A selection of numbered rows is in ascending order.
LEMMA SelectedAscend ==
  ASSUME NEW s \in Seq(Nat), NEW places
  PROVE  /\ Lists!Select(Lists!Numbered(s), places) \in Seq(Rows)
         /\ Ascending(Lists!Select(Lists!Numbered(s), places))
<1> DEFINE n == Lists!Numbered(s)
<1> DEFINE p == Lists!Select(n, places)
<1>1. n \in Seq(Rows) /\ Len(n) = Len(s) /\ \A i \in 1..Len(s) : n[i].id = i
  BY NumberedAre
<1> HIDE DEF n
<1>2. /\ p \in Seq(Rows)
      /\ \E h : /\ \A j \in 1..Len(p) : /\ h[j] \in 1..Len(n) /\ h[j] \in places
                                        /\ p[j] = n[h[j]]
                /\ \A j, k \in 1..Len(p) : j < k => h[j] < h[k]
  BY <1>1, SelectPlaces
<1> HIDE DEF p
<1>3. PICK h : /\ \A j \in 1..Len(p) : h[j] \in 1..Len(n) /\ p[j] = n[h[j]]
               /\ \A j, k \in 1..Len(p) : j < k => h[j] < h[k]
  BY <1>2
<1>4. \A j \in 1..Len(p) : p[j].id = h[j] /\ h[j] \in 1..Len(s)
  BY <1>1, <1>3
<1>5. Len(s) \in Nat
  OBVIOUS
<1>6. \A j \in 1..Len(p) : p[j].id \in Nat /\ p[j].id > 0
  BY <1>4, <1>5
<1>7. \A j, k \in 1..Len(p) : j < k => p[j].id < p[k].id
  BY <1>3, <1>4
<1> QED  BY <1>2, <1>6, <1>7 DEF n, p, Ascending

\* Rows in ascending order have different ids.
LEMMA AscendingDiffer ==
  ASSUME NEW r \in Seq(Rows), Ascending(r)
  PROVE  Lists!IsInjective(Lists!IdsOf(r))
<1>1. /\ Lists!IdsOf(r) \in Seq(IdSet) /\ Len(Lists!IdsOf(r)) = Len(r)
      /\ \A i \in 1..Len(r) : Lists!IdsOf(r)[i] = r[i].id
  BY IdsAre
<1>2. DOMAIN Lists!IdsOf(r) = 1..Len(r) /\ Len(r) \in Nat
  BY <1>1
<1> SUFFICES ASSUME NEW i \in 1..Len(r), NEW j \in 1..Len(r), r[i].id = r[j].id
             PROVE  i = j
  BY <1>1, <1>2 DEF Lists!IsInjective
<1>3. i < j \/ i = j \/ j < i
  BY <1>2
<1>4. r[i].id \in Nat /\ r[j].id \in Nat /\ (i < j => r[i].id < r[j].id)
      /\ (j < i => r[j].id < r[i].id)
  BY DEF Ascending
<1> QED  BY <1>3, <1>4

\* The dialogs that are listed are different.
LEMMA DialogsDiffer ==
  ASSUME Lists!TypeOK
  PROVE  Lists!Listing("dialogs") \in Seq(Rows)
         /\ Lists!IsInjective(Lists!IdsOf(Lists!Listing("dialogs")))
<1> DEFINE places == {i \in 1..Len(dialogs) : ~Lists!Hidden(dialogs[i])}
<1> DEFINE p == Lists!Select(Lists!DialogRows, places)
<1>1. dialogs \in Seq(Dialogs) /\ Lists!IsInjective(dialogs) /\ Len(dialogs) \in Nat
  BY DEF Lists!TypeOK
<1>2. /\ \A i \in 1..Len(dialogs) : dialogs[i] \in Dialogs
      /\ \A i, j \in 1..Len(dialogs) : dialogs[i] = dialogs[j] => i = j
  BY <1>1 DEF Lists!IsInjective
<1>3. \A i \in 1..Len(dialogs) :
        Lists!Row(dialogs[i], 0) \in Rows /\ Lists!Row(dialogs[i], 0).id = dialogs[i]
  BY <1>2 DEF Lists!Row, Rows, IdSet
<1>4. /\ Lists!DialogRows \in Seq(Rows) /\ Len(Lists!DialogRows) = Len(dialogs)
      /\ \A i \in 1..Len(dialogs) : Lists!DialogRows[i].id = dialogs[i]
  BY <1>1, <1>3 DEF Lists!DialogRows
<1>5. Lists!Listing("dialogs") = p
  BY DEF Lists!Listing
<1> HIDE DEF places
<1>6. /\ p \in Seq(Rows)
      /\ \E h : /\ \A j \in 1..Len(p) : /\ h[j] \in 1..Len(Lists!DialogRows) /\ h[j] \in places
                                        /\ p[j] = Lists!DialogRows[h[j]]
                /\ \A j, k \in 1..Len(p) : j < k => h[j] < h[k]
  BY <1>4, SelectPlaces
<1> HIDE DEF p
<1>7. PICK h : /\ \A j \in 1..Len(p) : h[j] \in 1..Len(dialogs) /\ p[j].id = dialogs[h[j]]
               /\ \A j, k \in 1..Len(p) : j < k => h[j] < h[k]
  BY <1>4, <1>6
<1>8. \A j, k \in 1..Len(p) : p[j].id = p[k].id => h[j] = h[k]
  BY <1>2, <1>7
<1>9. \A j, k \in 1..Len(p) : h[j] = h[k] => j = k
  <2> SUFFICES ASSUME NEW j \in 1..Len(p), NEW k \in 1..Len(p), h[j] = h[k] PROVE j = k
    OBVIOUS
  <2>1. j < k \/ j = k \/ k < j
    BY <1>6
  <2>2. h[j] \in Nat /\ h[k] \in Nat /\ (j < k => h[j] < h[k]) /\ (k < j => h[k] < h[j])
    BY <1>7
  <2> QED  BY <2>1, <2>2
<1>10. /\ Lists!IdsOf(p) \in Seq(IdSet) /\ Len(Lists!IdsOf(p)) = Len(p)
       /\ \A i \in 1..Len(p) : Lists!IdsOf(p)[i] = p[i].id
  BY <1>6, IdsAre
<1>11. Lists!IsInjective(Lists!IdsOf(p))
  BY <1>8, <1>9, <1>10 DEF Lists!IsInjective
<1> QED  BY <1>5, <1>6, <1>11

\* The messages as the history lists them.
LEMMA MessagesAre ==
  ASSUME Lists!PagesAssumption, Lists!TypeOK
  PROVE  /\ messages \in Seq(Nat) /\ Len(messages) \in Nat
         /\ Lists!Listing("history") = Lists!Numbered(messages)
         /\ Lists!Listing("history") \in Seq(Rows) /\ Ascending(Lists!Listing("history"))
         /\ Len(Lists!Listing("history")) = Len(messages)
         /\ \A i \in 1..Len(messages) : Lists!Listing("history")[i].id = i
<1>1. messages \in Seq(Nat)
  <2>1. messages \in Seq(Sizes) /\ Sizes \subseteq Nat
    BY PageSizes DEF Lists!TypeOK
  <2>a. Len(messages) \in Nat
    BY <2>1
  <2>b. ASSUME NEW i \in 1..Len(messages) PROVE messages[i] \in Nat
    <3>1. messages[i] \in Sizes
      BY <2>1
    <3> QED  BY <2>1, <3>1
  <2>2. Len(messages) \in Nat /\ \A i \in 1..Len(messages) : messages[i] \in Nat
    BY <2>a, <2>b
  <2>3. messages = [i \in 1..Len(messages) |-> messages[i]]
    BY <2>1
  <2> QED  BY <2>2, <2>3
<1>2. Lists!Listing("history") = Lists!Numbered(messages)
  BY DEF Lists!Listing
<1>3. /\ Lists!Numbered(messages) \in Seq(Rows) /\ Len(Lists!Numbered(messages)) = Len(messages)
      /\ \A i \in 1..Len(messages) : Lists!Numbered(messages)[i].id = i
  BY <1>1, NumberedAre
<1>4. Len(messages) \in Nat
  BY <1>1
<1>5. Ascending(Lists!Numbered(messages))
  BY <1>3, <1>4 DEF Ascending
<1> QED  BY <1>1, <1>2, <1>3, <1>4, <1>5

\* The history from its end.
LEMMA LatestAre ==
  ASSUME Lists!PagesAssumption, Lists!TypeOK
  PROVE  /\ Lists!Listing("latest") \in Seq(Rows)
         /\ Len(Lists!Listing("latest")) = Len(messages)
         /\ \A i \in 1..Len(messages) : Lists!Listing("latest")[i].id = Len(messages) + 1 - i
<1> DEFINE n == Lists!Numbered(messages)
<1>1. /\ n \in Seq(Rows) /\ Len(n) = Len(messages) /\ Len(messages) \in Nat
      /\ \A i \in 1..Len(messages) : n[i].id = i
  BY MessagesAre
<1>2. Lists!Listing("latest") = Lists!Reverse(n)
  BY DEF Lists!Listing
<1> HIDE DEF n
<1>3. \A i \in 1..Len(n) : (Len(n) - i) + 1 \in 1..Len(n) /\ n[(Len(n) - i) + 1] \in Rows
  BY <1>1
<1>4. Lists!Reverse(n) = [i \in 1..Len(n) |-> n[(Len(n) - i) + 1]]
  BY DEF Lists!Reverse
<1>5. Lists!Reverse(n) \in Seq(Rows) /\ Len(Lists!Reverse(n)) = Len(n)
  BY <1>1, <1>3, <1>4
<1>6. \A i \in 1..Len(messages) : Lists!Reverse(n)[i].id = Len(messages) + 1 - i
  <2> TAKE i \in 1..Len(messages)
  <2>1. Lists!Reverse(n)[i] = n[(Len(n) - i) + 1]
    BY <1>1, <1>4
  <2>2. n[(Len(n) - i) + 1].id = (Len(n) - i) + 1
    BY <1>1, <1>3
  <2> QED  BY <1>1, <2>1, <2>2
<1> QED  BY <1>1, <1>2, <1>5, <1>6

\* The events of the attempt among those of the log.
EventsOf(e) ==
  Lists!Select(Lists!Numbered([i \in 1..Len(e) |-> e[i].size]),
    {i \in 1..Len(e) : e[i].attempt})

\* The sizes of events.
LEMMA EventSizes ==
  ASSUME Lists!PagesAssumption, NEW e \in Seq(EventSet)
  PROVE  /\ [i \in 1..Len(e) |-> e[i].size] \in Seq(Nat)
         /\ Len([i \in 1..Len(e) |-> e[i].size]) = Len(e)
<1>1. \A i \in 1..Len(e) : e[i].size \in Nat
  BY PageSizes
<1>2. Len(e) \in Nat
  OBVIOUS
<1> QED  BY <1>1, <1>2

\* They come in ascending order.
LEMMA EventsAscend ==
  ASSUME Lists!PagesAssumption, NEW e \in Seq(EventSet)
  PROVE  EventsOf(e) \in Seq(Rows) /\ Ascending(EventsOf(e))
<1> DEFINE z == [i \in 1..Len(e) |-> e[i].size]
<1> DEFINE places == {i \in 1..Len(e) : e[i].attempt}
<1>1. z \in Seq(Nat)
  BY EventSizes
<1>2. EventsOf(e) = Lists!Select(Lists!Numbered(z), places)
  BY DEF EventsOf
<1> HIDE DEF z, places
<1> QED  BY <1>1, <1>2, SelectedAscend

\* What begins another sequence still does when that one grows.
LEMMA StartsAreTransitive ==
  ASSUME NEW S, NEW p \in Seq(S), NEW q \in Seq(S), NEW r \in Seq(S), Starts(p, q), Starts(q, r)
  PROVE  Starts(p, r)
BY DEF Starts

\* An event more is a row more, or none.
LEMMA EventsGrow ==
  ASSUME Lists!PagesAssumption, NEW e \in Seq(EventSet), NEW x \in EventSet
  PROVE  Starts(Lists!IdsOf(EventsOf(e)), Lists!IdsOf(EventsOf(Append(e, x))))
<1> DEFINE t == Append(e, x)
<1> DEFINE ze == [i \in 1..Len(e) |-> e[i].size]
<1> DEFINE zt == [i \in 1..Len(t) |-> t[i].size]
<1> DEFINE places == {i \in 1..Len(e) : e[i].attempt}
<1> DEFINE more == {i \in 1..Len(t) : t[i].attempt}
<1>1. /\ t \in Seq(EventSet) /\ Len(t) = Len(e) + 1 /\ t[Len(e) + 1] = x
      /\ \A i \in 1..Len(e) : t[i] = e[i]
  BY OneMore
<1>2. ze \in Seq(Nat) /\ Len(ze) = Len(e) /\ zt \in Seq(Nat) /\ Len(zt) = Len(t)
  <2> HIDE DEF t
  <2> QED  BY <1>1, EventSizes
<1>3. EventsOf(e) = Lists!Select(Lists!Numbered(ze), places)
      /\ EventsOf(t) = Lists!Select(Lists!Numbered(zt), more)
  BY DEF EventsOf
<1>0. Len(e) \in Nat /\ x.size \in Nat
  BY PageSizes
<1>4. \A i \in 1..Len(e) : i \in places <=> i \in more
  <2> HIDE DEF t
  <2> QED  BY <1>0, <1>1
<1>5. /\ \A i \in 1..Len(e) : zt[i] = ze[i]
      /\ zt[Len(e) + 1] = x.size
  <2> HIDE DEF t
  <2> QED  BY <1>0, <1>1
<1> DEFINE row == Lists!Row(Len(e) + 1, x.size)
<1>6. row \in Rows
  BY <1>0 DEF Lists!Row, Rows, IdSet
<1> HIDE DEF t, ze, zt, places, more, row
<1> DEFINE ne == Lists!Numbered(ze)
<1> DEFINE nt == Lists!Numbered(zt)
<1>7. ne \in Seq(Rows) /\ Len(ne) = Len(e) /\ nt \in Seq(Rows) /\ Len(nt) = Len(e) + 1
  BY <1>1, <1>2, NumberedAre
<1>8. /\ \A i \in 1..Len(e) : ne[i] = Lists!Row(i, ze[i])
      /\ \A i \in 1..(Len(e) + 1) : nt[i] = Lists!Row(i, zt[i])
  BY <1>1, <1>2 DEF Lists!Numbered
<1>9. nt = Append(ne, row)
  <2> DEFINE a == Append(ne, row)
  <2>1. /\ a \in Seq(Rows) /\ Len(a) = Len(ne) + 1 /\ a[Len(ne) + 1] = row
        /\ \A j \in 1..Len(ne) : a[j] = ne[j]
    <3> HIDE DEF ne
    <3> QED  BY <1>6, <1>7, OneMore
  <2> HIDE DEF ne, nt, a
  <2>2. Len(a) = Len(e) + 1 /\ a[Len(e) + 1] = nt[Len(e) + 1]
    BY <1>0, <1>5, <1>7, <1>8, <2>1 DEF row
  <2>3. \A j \in 1..Len(e) : a[j] = nt[j]
    BY <1>0, <1>5, <1>7, <1>8, <2>1
  <2>4. \A j \in 1..Len(nt) : nt[j] = a[j]
    BY <1>0, <1>7, <2>2, <2>3
  <2>5. nt = a
    BY <1>7, <2>1, <2>2, <2>4, SameSequence
  <2> QED  BY <2>5 DEF a
<1> HIDE DEF ne, nt
<1>10. \A i \in 1..Len(ne) : i \in places <=> i \in more
  BY <1>4, <1>7
<1>11. Lists!Select(Append(ne, row), more)
         \in {Lists!Select(ne, places), Append(Lists!Select(ne, places), row)}
  BY <1>6, <1>7, <1>10, SelectGrows
<1> DEFINE p == EventsOf(e)
<1> DEFINE q == EventsOf(t)
<1>12. q \in {p, Append(p, row)}
  BY <1>3, <1>9, <1>11 DEF ne, nt
<1>13. p \in Seq(Rows) /\ q \in Seq(Rows)
  BY <1>1, EventsAscend
<1> HIDE DEF p, q
<1>14. Len(p) \in Nat /\ Len(p) <= Len(q) /\ \A i \in 1..Len(p) : q[i] = p[i]
  BY <1>6, <1>12, <1>13
<1>15. /\ Len(Lists!IdsOf(p)) = Len(p) /\ \A i \in 1..Len(p) : Lists!IdsOf(p)[i] = p[i].id
       /\ Len(Lists!IdsOf(q)) = Len(q) /\ \A i \in 1..Len(q) : Lists!IdsOf(q)[i] = q[i].id
  BY <1>13, IdsAre
<1>16. Len(q) \in Nat
  BY <1>13
<1> QED  BY <1>14, <1>15, <1>16 DEF Starts, p, q, t

\* Every list is a sequence of rows with different ids.
LEMMA ListingIs ==
  ASSUME Lists!PagesAssumption, Lists!TypeOK, NEW kind \in Lists!Kinds
  PROVE  Lists!Listing(kind) \in Seq(Rows)
         /\ Lists!IsInjective(Lists!IdsOf(Lists!Listing(kind)))
<1>1. CASE kind = "dialogs"
  BY <1>1, DialogsDiffer
<1>2. CASE kind = "requests"
  <2> DEFINE z == [i \in 1..Len(requests) |-> 0]
  <2> DEFINE places == {i \in 1..Len(requests) : Lists!Queued(i)}
  <2>1. z \in Seq(Nat)
    <3>1. Len(requests) \in Nat
      BY DEF Lists!TypeOK
    <3> QED  BY <3>1
  <2>2. Lists!Listing("requests") = Lists!Select(Lists!Numbered(z), places)
    BY DEF Lists!Listing, Lists!RequestRows
  <2> HIDE DEF z, places
  <2>3. Lists!Listing("requests") \in Seq(Rows) /\ Ascending(Lists!Listing("requests"))
    BY <2>1, <2>2, SelectedAscend
  <2> QED  BY <1>2, <2>3, AscendingDiffer
<1>3. CASE kind = "attempts"
  <2> DEFINE r == Lists!Row(1, 0)
  <2> DEFINE p == Lists!Listing("attempts")
  <2>1. p = <<>> \/ p = <<r>>
    BY DEF Lists!Listing
  <2>2. r \in Rows /\ r.id = 1
    BY DEF Lists!Row, Rows, IdSet
  <2> HIDE DEF r, p
  <2>a. <<>> \in Seq(Rows) /\ Len(<<>>) = 0
    OBVIOUS
  <2>b. <<r>> \in Seq(Rows) /\ Len(<<r>>) = 1 /\ <<r>>[1] = r
    BY <2>2
  <2>3. p \in Seq(Rows) /\ (Len(p) = 0 \/ (Len(p) = 1 /\ p[1] = r))
    BY <2>1, <2>a, <2>b
  <2>c. CASE Len(p) = 0
    <3>1. Ascending(p)
      BY <2>c DEF Ascending
    <3> QED  BY <1>3, <2>3, <3>1, AscendingDiffer DEF p
  <2>d. CASE Len(p) = 1 /\ p[1] = r
    <3>1. \A j \in 1..Len(p) : j = 1
      BY <2>d
    <3>2. \A j, k \in 1..Len(p) : ~(j < k) /\ p[j] = r
      BY <2>d, <3>1
    <3>3. Ascending(p)
      BY <2>2, <3>2 DEF Ascending
    <3> QED  BY <1>3, <2>3, <3>3, AscendingDiffer DEF p
  <2> QED  BY <2>3, <2>c, <2>d
<1>4. CASE kind = "history"
  BY <1>4, MessagesAre, AscendingDiffer
<1>5. CASE kind = "latest"
  <2> DEFINE p == Lists!Listing("latest")
  <2>1. /\ p \in Seq(Rows) /\ Len(p) = Len(messages) /\ Len(messages) \in Nat
        /\ \A i \in 1..Len(messages) : p[i].id = Len(messages) + 1 - i
    BY LatestAre, MessagesAre
  <2> HIDE DEF p
  <2>2. /\ Lists!IdsOf(p) \in Seq(IdSet) /\ Len(Lists!IdsOf(p)) = Len(p)
        /\ \A i \in 1..Len(p) : Lists!IdsOf(p)[i] = p[i].id
    BY <2>1, IdsAre
  <2>3. DOMAIN Lists!IdsOf(p) = 1..Len(messages)
    BY <2>1, <2>2
  <2>4. \A i, j \in 1..Len(messages) : Lists!IdsOf(p)[i] = Lists!IdsOf(p)[j] => i = j
    BY <2>1, <2>2
  <2> QED  BY <1>5, <2>1, <2>3, <2>4 DEF Lists!IsInjective, p
<1>6. CASE kind = "events"
  <2>1. events \in Seq(EventSet)
    BY DEF Lists!TypeOK, EventSet
  <2>2. Lists!Listing("events") = EventsOf(events)
    BY DEF Lists!Listing, Lists!EventRows, EventsOf
  <2>3. Lists!Listing("events") \in Seq(Rows) /\ Ascending(Lists!Listing("events"))
    BY <2>1, <2>2, EventsAscend
  <2> QED  BY <1>6, <2>3, AscendingDiffer
<1> QED  BY <1>1, <1>2, <1>3, <1>4, <1>5, <1>6 DEF Lists!Kinds

\* A page is the beginning of the rest of its list.
LEMMA PageIs ==
  ASSUME Lists!PagesAssumption, NEW kind, NEW at, Lists!Rest(kind, at) \in Seq(Rows)
  PROVE  \E m \in 0..Len(Lists!Rest(kind, at)) :
           Lists!Page(kind, at) = SubSeq(Lists!Rest(kind, at), 1, m)
<1> DEFINE rest == Lists!Rest(kind, at)
<1> DEFINE Taken(k) == /\ k <= PageLimit /\ \A i \in 1..k : Lists!Fits(SubSeq(rest, 1, i))
                       /\ k \in {PageLimit, Len(rest)} \/ ~Lists!Fits(SubSeq(rest, 1, k + 1))
<1> DEFINE Stop == {k \in Nat :
                      k \in {PageLimit, Len(rest)} \/ ~Lists!Fits(SubSeq(rest, 1, k + 1))}
<1>1. PageLimit \in Nat /\ Len(rest) \in Nat
  BY PageSizes
<1>2. PageLimit \in Stop /\ Len(rest) \in Stop
  BY <1>1
<1>3. PICK k \in Stop : \A j \in Stop : k <= j
  <2>1. Stop \subseteq Nat /\ Stop # {}
    BY <1>2
  <2> HIDE DEF Stop
  <2> QED  BY <2>1, LeastNat
<1>4. k \in 0..Len(rest) /\ k <= PageLimit
  <2>1. k \in Nat
    OBVIOUS
  <2>2. k <= PageLimit /\ k <= Len(rest)
    <3> HIDE DEF Stop
    <3> QED  BY <1>2, <1>3
  <2> QED  BY <1>1, <2>1, <2>2
<1>5. ASSUME NEW i \in 1..k PROVE Lists!Fits(SubSeq(rest, 1, i))
  <2>1. i - 1 \in Nat /\ ~(k <= i - 1) /\ (i - 1) + 1 = i
    BY <1>4
  <2>2. i - 1 \notin Stop
    BY <1>3, <2>1
  <2> QED  BY <2>1, <2>2
<1>6. Taken(k)
  BY <1>3, <1>4, <1>5
<1>7. Lists!Page(kind, at) = SubSeq(rest, 1, CHOOSE n \in 0..Len(rest) : Taken(n))
  BY DEF Lists!Page
<1> HIDE DEF Taken, rest
<1>8. (CHOOSE n \in 0..Len(rest) : Taken(n)) \in 0..Len(rest)
  BY <1>4, <1>6
<1>9. \E m \in 0..Len(rest) : Lists!Page(kind, at) = SubSeq(rest, 1, m)
  BY <1>7, <1>8
<1> QED  BY <1>9 DEF rest

\* The events after one of them are the rest of the list.
LEMMA RestOfEvents ==
  ASSUME Lists!PagesAssumption, Lists!TypeOK, NEW c \in 0..Len(Lists!Listing("events")), NEW at,
         at = IF c = 0 THEN 0 ELSE Lists!Listing("events")[c].id
  PROVE  Lists!Rest("events", at) = SubSeq(Lists!Listing("events"), c + 1,
           Len(Lists!Listing("events")))
<1> DEFINE p == Lists!Listing("events")
<1> DEFINE places == {i \in 1..Len(p) : p[i].id > at}
<1>1. p \in Seq(Rows) /\ Ascending(p)
  <2>1. events \in Seq(EventSet)
    BY DEF Lists!TypeOK, EventSet
  <2>2. p = EventsOf(events)
    BY DEF Lists!Listing, Lists!EventRows, EventsOf
  <2> QED  BY <2>1, <2>2, EventsAscend
<1>2. Lists!Rest("events", at) = Lists!Select(p, places)
  BY DEF Lists!Rest
<1> HIDE DEF p
<1>3. /\ \A j \in 1..Len(p) : p[j].id \in Nat /\ p[j].id > 0
      /\ \A j, k \in 1..Len(p) : j < k => p[j].id < p[k].id
      /\ Len(p) \in Nat /\ c \in 0..Len(p) /\ at = IF c = 0 THEN 0 ELSE p[c].id
  BY <1>1 DEF Ascending, p
<1>4. ASSUME NEW i \in 1..Len(p) PROVE i \in places <=> i >= c + 1
  <2>1. CASE c = 0
    BY <1>3, <2>1
  <2>2. CASE c # 0
    <3>1. c \in 1..Len(p) /\ at = p[c].id /\ at \in Nat /\ p[i].id \in Nat
      BY <1>3, <2>2
    <3>2. c < i \/ c = i \/ i < c
      BY <1>3
    <3>3. (c < i => at < p[i].id) /\ (i < c => p[i].id < at) /\ (c = i => p[i].id = at)
      BY <1>3, <3>1
    <3>4. i \in places <=> p[i].id > at
      OBVIOUS
    <3>5. c \in Nat /\ i \in Nat
      BY <1>3
    <3> HIDE DEF places
    <3> QED  BY <3>1, <3>2, <3>3, <3>4, <3>5
  <2> QED  BY <2>1, <2>2
<1> HIDE DEF places
<1>5. c + 1 \in 1..(Len(p) + 1)
  BY <1>3
<1>6. Lists!Select(p, places) = SubSeq(p, c + 1, Len(p))
  BY <1>1, <1>4, <1>5, SelectRest
<1> QED  BY <1>2, <1>6 DEF p

\* The messages before one of them are the rest of the history read from its end.
LEMMA RestOfLatest ==
  ASSUME Lists!PagesAssumption, Lists!TypeOK, NEW a \in 1..(Len(messages) + 1), NEW at \in Nat,
         \A i \in 1..Len(messages) : Len(messages) + 1 - i < at <=> i >= a
  PROVE  Lists!Rest("latest", at) = SubSeq(Lists!Listing("latest"), a,
           Len(Lists!Listing("latest")))
<1> DEFINE p == Lists!Listing("latest")
<1> DEFINE places == {i \in 1..Len(p) : Lists!Older(p[i], at)}
<1>1. /\ p \in Seq(Rows) /\ Len(p) = Len(messages)
      /\ \A i \in 1..Len(messages) : p[i].id = Len(messages) + 1 - i
  BY LatestAre
<1>2. Lists!Rest("latest", at) = Lists!Select(p, places)
  BY DEF Lists!Rest
<1> HIDE DEF p
<1>3. \A i \in 1..Len(p) : i \in places <=> i >= a
  BY <1>1 DEF Lists!Older
<1> HIDE DEF places
<1>4. a \in 1..(Len(p) + 1)
  BY <1>1
<1>5. Lists!Select(p, places) = SubSeq(p, a, Len(p))
  BY <1>1, <1>3, <1>4, SelectRest
<1> QED  BY <1>2, <1>5 DEF p

\* Two sequences joined.
LEMMA Joined ==
  ASSUME NEW S, NEW s \in Seq(S), NEW t \in Seq(S)
  PROVE  s \o t \in Seq(S) /\ Len(s \o t) = Len(s) + Len(t)
OBVIOUS

\* The rows rest are what is left of the list base after what was got.
Follow(rest, got, base) ==
  /\ Starts(got, base) /\ Len(rest) = Len(base) - Len(got)
  /\ \A j \in 1..Len(rest) : rest[j].id = base[Len(got) + j]

\* A page of m rows takes a client from got to now.
Brings(page, m, got, now, base) ==
  /\ now \in Seq(IdSet) /\ Len(page) = m /\ Len(now) = Len(got) + m /\ Starts(now, base)
  /\ m > 0 => page # <<>> /\ Lists!Last(page).id = now[Len(now)]
  /\ m = 0 => page = <<>> /\ now = got

\* A page brings the next ids of the list.
LEMMA Brought ==
  ASSUME NEW got \in Seq(IdSet), NEW base \in Seq(IdSet), NEW rest \in Seq(Rows),
         NEW m \in 0..Len(rest), Follow(rest, got, base)
  PROVE  Brings(SubSeq(rest, 1, m), m, got, got \o Lists!IdsOf(SubSeq(rest, 1, m)), base)
<1> DEFINE page == SubSeq(rest, 1, m)
<1> DEFINE now == got \o Lists!IdsOf(page)
<1>0. /\ Starts(got, base) /\ Len(rest) = Len(base) - Len(got)
      /\ \A j \in 1..Len(rest) : rest[j].id = base[Len(got) + j]
  BY DEF Follow
<1>1. /\ Len(got) \in Nat /\ Len(base) \in Nat /\ Len(rest) \in Nat
      /\ Len(got) <= Len(base) /\ \A i \in 1..Len(got) : got[i] = base[i]
  BY <1>0 DEF Starts
<1>2. /\ page \in Seq(Rows) /\ Len(page) = m
      /\ \A j \in 1..m : page[j] = rest[j]
  <2>1. 1 \in 1..(Len(rest) + 1) /\ 1 <= m + 1 /\ m - 1 + 1 = m
    BY <1>1
  <2>2. /\ SubSeq(rest, 1, m) \in Seq(Rows) /\ Len(SubSeq(rest, 1, m)) = m - 1 + 1
        /\ \A j \in 1..(m - 1 + 1) : SubSeq(rest, 1, m)[j] = rest[1 + j - 1]
    BY <2>1, PartOf
  <2>3. \A j \in 1..m : 1 + j - 1 = j
    BY <1>1
  <2> QED  BY <2>1, <2>2, <2>3
<1>3. /\ Lists!IdsOf(page) \in Seq(IdSet) /\ Len(Lists!IdsOf(page)) = m
      /\ \A j \in 1..m : Lists!IdsOf(page)[j] = page[j].id
  BY <1>2, IdsAre
<1> DEFINE more == Lists!IdsOf(page)
<1> HIDE DEF more
<1>4. /\ now \in Seq(IdSet) /\ Len(now) = Len(got) + m
      /\ \A i \in 1..Len(got) : now[i] = got[i]
      /\ \A j \in 1..m : now[Len(got) + j] = more[j]
  <2>1. more \in Seq(IdSet) /\ Len(more) = m /\ now = got \o more
    BY <1>3 DEF more
  <2>2. now \in Seq(IdSet) /\ Len(now) = Len(got) + m
    <3>1. got \o more \in Seq(IdSet) /\ Len(got \o more) = Len(got) + Len(more)
      BY <2>1, Joined
    <3> QED  BY <2>1, <3>1
  <2>3. \A i \in 1..(Len(got) + m) : now[i] = IF i <= Len(got) THEN got[i]
          ELSE more[i - Len(got)]
    BY <1>1, <2>1
  <2>4. \A i \in 1..Len(got) : i \in 1..(Len(got) + m) /\ i <= Len(got)
    BY <1>1
  <2>5. \A j \in 1..m : /\ Len(got) + j \in 1..(Len(got) + m) /\ ~(Len(got) + j <= Len(got))
                        /\ (Len(got) + j) - Len(got) = j
    BY <1>1
  <2> QED  BY <2>2, <2>3, <2>4, <2>5
<1>5. \A j \in 1..m : more[j] = base[Len(got) + j]
  BY <1>0, <1>1, <1>2, <1>3 DEF more
<1>6. \A i \in 1..Len(now) : now[i] = base[i]
  <2> TAKE i \in 1..Len(now)
  <2>1. CASE i <= Len(got)
    BY <1>1, <1>4, <2>1
  <2>2. CASE i > Len(got)
    <3>1. i - Len(got) \in 1..m /\ Len(got) + (i - Len(got)) = i
      BY <1>1, <1>4, <2>2
    <3> QED  BY <1>4, <1>5, <3>1
  <2>3. i \in Nat
    BY <1>4
  <2> QED  BY <1>1, <2>1, <2>2, <2>3
<1>7. Starts(now, base)
  BY <1>0, <1>1, <1>4, <1>6 DEF Starts
<1>8. m > 0 => page # <<>> /\ Lists!Last(page).id = now[Len(now)]
  <2> HAVE m > 0
  <2>1. m \in 1..m
    BY <1>1
  <2>2. page # <<>>
    <3>1. Len(page) # 0 /\ Len(<<>>) = 0
      BY <1>1, <1>2
    <3> QED  BY <3>1
  <2>3. Lists!Last(page) = page[m] /\ now[Len(now)] = more[m] /\ more[m] = page[m].id
    BY <1>2, <1>3, <1>4, <2>1 DEF Lists!Last, more
  <2> QED  BY <2>2, <2>3
<1>9. m = 0 => page = <<>> /\ now = got
  <2> HAVE m = 0
  <2>1. page = <<>>
    BY <1>2
  <2>2. now = got
    BY <1>1, <1>4, SameSequence
  <2> QED  BY <2>1, <2>2
<1> QED  BY <1>2, <1>4, <1>7, <1>8, <1>9 DEF Brings

\* The list a page is of: as it is now, or as it was when the walk began.
Base == IF walk.kind \in {"history", "events"} \/ walk.got = <<>> THEN PageIds ELSE walk.start

\* The parts of the invariant that a walk has.
LEMMA WalkHas ==
  ASSUME PageInv, walk # None
  PROVE  /\ walk \in Lists!Walks /\ walk.kind \in Lists!Kinds /\ walk.at \in Nat
         /\ walk.version \in Nat
         /\ walk.got \in Seq(IdSet) /\ walk.start \in Seq(IdSet) /\ walk.done \in BOOLEAN
         /\ Len(walk.got) \in Nat /\ Len(walk.start) \in Nat
BY DEF PageInv, Lists!TypeOK, Lists!Walks, IdSet

\* From a list and an offset, what is left.
LEMMA RestByOffset ==
  ASSUME NEW p \in Seq(Rows), NEW c \in 0..Len(p), NEW rest, rest = SubSeq(p, c + 1, Len(p))
  PROVE  /\ rest \in Seq(Rows) /\ Len(rest) = Len(Lists!IdsOf(p)) - c
         /\ \A j \in 1..Len(rest) : rest[j].id = Lists!IdsOf(p)[c + j]
<1>1. Len(p) \in Nat
  OBVIOUS
<1>2. /\ rest \in Seq(Rows) /\ Len(rest) = Len(p) - c
      /\ \A j \in 1..(Len(p) - c) : rest[j] = p[c + j]
  <2>1. c + 1 \in 1..(Len(p) + 1) /\ Len(p) \in 0..Len(p) /\ c + 1 <= Len(p) + 1
    BY <1>1
  <2>2. /\ SubSeq(p, c + 1, Len(p)) \in Seq(Rows)
        /\ Len(SubSeq(p, c + 1, Len(p))) = Len(p) - (c + 1) + 1
        /\ \A j \in 1..(Len(p) - (c + 1) + 1) : SubSeq(p, c + 1, Len(p))[j] = p[(c + 1) + j - 1]
    BY <2>1, PartOf
  <2>3. Len(p) - (c + 1) + 1 = Len(p) - c /\ \A j \in 1..(Len(p) - c) : (c + 1) + j - 1 = c + j
    BY <1>1
  <2> QED  BY <2>2, <2>3
<1>3. Len(Lists!IdsOf(p)) = Len(p) /\ \A i \in 1..Len(p) : Lists!IdsOf(p)[i] = p[i].id
  BY IdsAre
<1>4. \A j \in 1..(Len(p) - c) : c + j \in 1..Len(p)
  BY <1>1
<1>5. PICK ids : ids = Lists!IdsOf(p)
  OBVIOUS
<1>6. Len(ids) = Len(p) /\ \A i \in 1..Len(p) : ids[i] = p[i].id
  BY <1>3, <1>5
<1>7. \A j \in 1..Len(rest) : rest[j].id = ids[c + j]
  <2> TAKE j \in 1..Len(rest)
  <2>1. j \in 1..(Len(p) - c)
    BY <1>2
  <2> QED  BY <1>2, <1>4, <1>6, <2>1
<1> QED  BY <1>2, <1>5, <1>6, <1>7

\* What is left of the list.
LEMMA LeftIs ==
  ASSUME Lists!PagesAssumption, PageInv, walk # None, ~walk.done,
         walk.got = <<>> \/ Lists!CursorIsGood(walk)
  PROVE  /\ Base \in Seq(IdSet) /\ Starts(walk.got, Base)
         /\ Lists!Rest(walk.kind, walk.at) \in Seq(Rows)
         /\ Len(Lists!Rest(walk.kind, walk.at)) = Len(Base) - Len(walk.got)
         /\ \A j \in 1..Len(Lists!Rest(walk.kind, walk.at)) :
              Lists!Rest(walk.kind, walk.at)[j].id = Base[Len(walk.got) + j]
<1> DEFINE c == Len(walk.got)
<1> DEFINE p == Lists!Listing(walk.kind)
<1> DEFINE rest == Lists!Rest(walk.kind, walk.at)
<1>1. Lists!TypeOK /\ CursorInv /\ VersionedInv /\ GrowingInv /\ BackwardInv
  BY DEF PageInv, WalkInv
<1>2. walk.kind \in Lists!Kinds /\ walk.at \in Nat /\ walk.got \in Seq(IdSet)
      /\ walk.start \in Seq(IdSet) /\ c \in Nat
  BY WalkHas
<1>3. p \in Seq(Rows)
  BY <1>1, <1>2, ListingIs
<1>4. PageIds = Lists!IdsOf(p) /\ PageIds \in Seq(IdSet) /\ Len(PageIds) = Len(p)
      /\ Len(p) \in Nat
      /\ \A i \in 1..Len(p) : PageIds[i] = p[i].id
  BY <1>3, IdsAre DEF PageIds
<1>5. walk.got = <<>> => Starts(walk.got, PageIds) /\ c = 0
  BY <1>4 DEF Starts
<1>6. CASE walk.kind \in Lists!ByOffset
  <2>1. Base = PageIds /\ Starts(walk.got, PageIds)
    <3>1. CASE walk.kind = "history"
      BY <1>1, <3>1 DEF Base, GrowingInv
    <3>2. CASE walk.kind # "history" /\ walk.got = <<>>
      BY <1>5, <3>2 DEF Base
    <3>3. CASE walk.kind # "history" /\ walk.got # <<>>
      <4>1. walk.kind \in {"dialogs", "requests", "attempts"}
        BY <1>6, <3>3 DEF Lists!ByOffset
      <4>2. walk.version = version
        BY <1>6, <3>3 DEF Lists!CursorIsGood
      <4> QED  BY <1>1, <3>3, <4>1, <4>2 DEF Base, VersionedInv
    <3> QED  BY <3>1, <3>2, <3>3
  <2>2. c \in 0..Len(p)
    BY <1>2, <1>4, <2>1 DEF Starts
  <2>3. walk.at = c
    BY <1>1, <1>6 DEF CursorInv
  <2>4. rest = SubSeq(p, c + 1, Len(p))
    BY <1>6, <2>3 DEF Lists!Rest, Lists!ByOffset
  <2> HIDE DEF p, rest, c
  <2>5. /\ rest \in Seq(Rows) /\ Len(rest) = Len(Lists!IdsOf(p)) - c
        /\ \A j \in 1..Len(rest) : rest[j].id = Lists!IdsOf(p)[c + j]
    BY <1>3, <2>2, <2>4, RestByOffset
  <2> QED  BY <1>4, <2>1, <2>5 DEF rest, c
<1>7. CASE walk.kind = "events"
  <2>1. Base = PageIds /\ Starts(walk.got, PageIds)
    BY <1>1, <1>7 DEF Base, GrowingInv
  <2>2. c \in 0..Len(p) /\ \A i \in 1..c : walk.got[i] = PageIds[i]
    BY <1>2, <1>4, <2>1 DEF Starts
  <2>3. walk.at = IF c = 0 THEN 0 ELSE p[c].id
    <3>1. c = 0 <=> walk.got = <<>>
      BY <1>2
    <3>2. walk.kind \notin Lists!ByOffset
      BY <1>7 DEF Lists!ByOffset
    <3>3. walk.at = IF walk.got = <<>> THEN 0 ELSE walk.got[c]
      BY <1>1, <1>7, <3>2 DEF CursorInv, Lists!FirstCursor
    <3>4. c # 0 => c \in 1..c /\ c \in 1..Len(p)
      BY <1>2, <2>2
    <3> QED  BY <1>4, <2>2, <3>1, <3>3, <3>4
  <2>4. rest = SubSeq(p, c + 1, Len(p))
    <3>1. p = Lists!Listing("events") /\ rest = Lists!Rest("events", walk.at)
      BY <1>7
    <3> HIDE DEF p, rest, c
    <3> QED  BY <1>1, <2>2, <2>3, <3>1, RestOfEvents
  <2> HIDE DEF p, rest, c
  <2>5. /\ rest \in Seq(Rows) /\ Len(rest) = Len(Lists!IdsOf(p)) - c
        /\ \A j \in 1..Len(rest) : rest[j].id = Lists!IdsOf(p)[c + j]
    BY <1>3, <2>2, <2>4, RestByOffset
  <2> QED  BY <1>4, <2>1, <2>5 DEF rest, c
<1>8. CASE walk.kind = "latest"
  <2> DEFINE big == Len(messages)
  <2>1. /\ big \in Nat /\ Len(p) = big /\ \A i \in 1..big : p[i].id = big + 1 - i
    BY <1>1, <1>8, LatestAre, MessagesAre
  <2>2. walk.kind \notin Lists!ByOffset /\ walk.kind \notin {"history", "events"}
    BY <1>8 DEF Lists!ByOffset
  <2>3. CASE walk.got = <<>>
    <3>1. Base = PageIds /\ c = 0 /\ Starts(walk.got, PageIds)
      BY <1>5, <2>3 DEF Base
    <3>2. walk.at = MaxRows + 1
      BY <1>1, <1>8, <2>2, <2>3 DEF CursorInv, Lists!FirstCursor
    <3>3. MaxRows \in Nat /\ big <= MaxRows
      BY <1>1, PageSizes DEF Lists!TypeOK
    <3>4. \A i \in 1..big : big + 1 - i < walk.at <=> i >= 1
      BY <2>1, <3>2, <3>3
    <3>5. 1 \in 1..(big + 1)
      BY <2>1
    <3>6. rest = SubSeq(p, 1, Len(p))
      <4> USE DEF p, rest
      <4> QED  BY <1>1, <1>2, <1>8, <3>4, <3>5, RestOfLatest
    <3>7. 0 \in 0..Len(p) /\ 0 + 1 = 1
      BY <1>4
    <3> HIDE DEF p, rest, c
    <3>8. /\ rest \in Seq(Rows) /\ Len(rest) = Len(Lists!IdsOf(p)) - 0
          /\ \A j \in 1..Len(rest) : rest[j].id = Lists!IdsOf(p)[0 + j]
      BY <1>3, <3>6, <3>7, RestByOffset
    <3> QED  BY <1>4, <3>1, <3>8 DEF rest, c
  <2>4. CASE walk.got # <<>>
    <3> DEFINE n == Len(walk.start)
    <3> DEFINE a == big - n + c
    <3>1. /\ Base = walk.start /\ Starts(walk.got, walk.start)
          /\ n \in Nat /\ n <= big
          /\ \A i \in 1..n : walk.start[i] = n + 1 - i
      BY <1>1, <1>2, <1>8, <2>2, <2>4 DEF Base, BackwardInv
    <3>2. c \in 1..n /\ walk.got[c] = walk.start[c]
      <4>1. c # 0
        BY <1>2, <2>4
      <4>2. c \in 1..c /\ c <= n
        BY <1>2, <3>1, <4>1 DEF Starts
      <4>3. \A i \in 1..Len(walk.got) : walk.got[i] = walk.start[i]
        BY <3>1 DEF Starts
      <4> QED  BY <4>2, <4>3
    <3>3. walk.at = n + 1 - c
      BY <1>1, <2>2, <2>4, <3>1, <3>2 DEF CursorInv
    <3>n. n \in Nat /\ n <= big /\ c \in 1..n /\ walk.at = n + 1 - c /\ big \in Nat
      BY <2>1, <3>1, <3>2, <3>3
    <3>4. a \in 0..big /\ a + 1 \in 1..(big + 1)
      <4> HIDE DEF n, c, big
      <4> QED  BY <3>n
    <3>5. \A i \in 1..big : big + 1 - i < walk.at <=> i >= a + 1
      <4> HIDE DEF n, c, big
      <4> QED  BY <3>n
    <3>6. rest = SubSeq(p, a + 1, Len(p))
      <4>1. p = Lists!Listing("latest") /\ rest = Lists!Rest("latest", walk.at)
        BY <1>8
      <4> HIDE DEF a, p, rest
      <4> QED  BY <1>1, <1>2, <3>4, <3>5, <4>1, RestOfLatest
    <3>7. /\ rest \in Seq(Rows) /\ Len(rest) = Len(Lists!IdsOf(p)) - a
          /\ \A j \in 1..Len(rest) : rest[j].id = Lists!IdsOf(p)[a + j]
      <4>1. a \in 0..Len(p)
        BY <2>1, <3>4
      <4> HIDE DEF a, p, rest
      <4> QED  BY <1>3, <3>6, <4>1, RestByOffset
    <3>8. Len(rest) = n - c
      <4>1. Len(rest) = big - a
        BY <1>4, <2>1, <3>7
      <4> HIDE DEF n, c, big, rest
      <4> QED  BY <3>n, <4>1
    <3>9. ASSUME NEW j \in 1..Len(rest) PROVE rest[j].id = walk.start[c + j]
      <4>1. c + j \in 1..n /\ a + j \in 1..big
        BY <2>1, <3>1, <3>2, <3>8
      <4>2. rest[j].id = big + 1 - (a + j)
        BY <1>4, <2>1, <3>7, <4>1
      <4>3. walk.start[c + j] = n + 1 - (c + j)
        BY <3>1, <4>1
      <4>4. big + 1 - (a + j) = n + 1 - (c + j)
        BY <2>1, <3>1, <3>2, <3>8
      <4> QED  BY <4>2, <4>3, <4>4
    <3> QED  BY <1>2, <3>1, <3>7, <3>8, <3>9
  <2> QED  BY <2>3, <2>4
<1> QED  BY <1>2, <1>6, <1>7, <1>8 DEF Lists!Kinds, Lists!ByOffset

\* The store and the version are left alone: lists and what is seen of them stay.
LEMMA StoreStays ==
  ASSUME UNCHANGED <<version, Lists!store>>
  PROVE  /\ UNCHANGED <<version, dialogs, tombstones, requests, messages, events>>
         /\ \A kind \in Lists!Kinds : Lists!Listing(kind)' = Lists!Listing(kind)
<1>1. UNCHANGED <<version, dialogs, tombstones, requests, messages, events>>
  BY DEF Lists!store
<1>2. Lists!Listing("dialogs")' = Lists!Listing("dialogs")
  BY <1>1 DEF Lists!Listing, Lists!DialogRows, Lists!Hidden
<1>3. Lists!Listing("requests")' = Lists!Listing("requests")
  BY <1>1 DEF Lists!Listing, Lists!RequestRows, Lists!Queued, Lists!Hidden
<1>4. Lists!Listing("attempts")' = Lists!Listing("attempts")
      /\ Lists!Listing("history")' = Lists!Listing("history")
      /\ Lists!Listing("latest")' = Lists!Listing("latest")
  BY <1>1 DEF Lists!Listing
<1>5. Lists!Listing("events")' = Lists!Listing("events")
  BY <1>1 DEF Lists!Listing, Lists!EventRows
<1> QED  BY <1>1, <1>2, <1>3, <1>4, <1>5 DEF Lists!Kinds

\* A sequence begins itself.
LEMMA StartsItself ==
  ASSUME NEW S, NEW p \in Seq(S)
  PROVE  Starts(p, p) /\ Starts(<<>>, p)
BY DEF Starts

\* The first page of a walk.
LEMMA BeginKeeps ==
  ASSUME Lists!PagesAssumption, PageInv, NEW kind \in Lists!Kinds, Lists!Begin(kind)
  PROVE  PageInv'
<1> DEFINE p == Lists!IdsOf(Lists!Listing(kind))
<1>1. /\ walk' = [kind |-> kind, at |-> Lists!FirstCursor(kind), version |-> version,
                  got |-> <<>>, start |-> p, done |-> FALSE]
      /\ UNCHANGED <<version, Lists!store>>
  BY DEF Lists!Begin
<1>2. UNCHANGED <<version, dialogs, tombstones, requests, messages, events>>
      /\ Lists!Listing(kind)' = Lists!Listing(kind)
  BY <1>1, StoreStays
<1>3. /\ walk'.kind = kind /\ walk'.at = Lists!FirstCursor(kind) /\ walk'.version = version
      /\ walk'.got = <<>> /\ walk'.start = p /\ walk'.done = FALSE
  BY <1>1
<1>4. Lists!TypeOK
  BY DEF PageInv
<1>5. p \in Seq(IdSet) /\ Lists!IsInjective(p)
  BY <1>4, ListingIs, IdsAre
<1>6. PageIds' = p
  <2>1. PageIds' = Lists!IdsOf(Lists!Listing(kind)')
    BY <1>3 DEF PageIds, Lists!IdsOf
  <2> QED  BY <1>2, <2>1
<1> HIDE DEF p
<1>7. version \in Nat /\ version \in 0..MaxVersion /\ MaxRows \in Nat
  BY <1>4, PageSizes DEF Lists!TypeOK
<1>8. Lists!FirstCursor(kind) \in Nat
      /\ (kind \in Lists!ByOffset => Lists!FirstCursor(kind) = 0)
  BY <1>7 DEF Lists!FirstCursor, Lists!ByOffset
<1>9. walk' \in Lists!Walks
  <2>1. p \in Seq(Dialogs \cup Nat) /\ <<>> \in Seq(Dialogs \cup Nat)
    BY <1>5 DEF IdSet
  <2> QED  BY <1>1, <1>7, <1>8, <2>1 DEF Lists!Walks, p
<1>10. Lists!TypeOK'
  <2>1. walk'.kind \in Lists!ByOffset => walk'.at \in 0..Len(walk'.got)
    BY <1>3, <1>8
  <2>2. walk'.version <= version'
    BY <1>2, <1>3, <1>7
  <2> QED  BY <1>2, <1>4, <1>9, <2>1, <2>2 DEF Lists!TypeOK
<1>11. CursorInv'
  BY <1>3, <1>8 DEF CursorInv
<1>12. Starts(<<>>, p) /\ Starts(p, p)
  BY <1>5, StartsItself
<1>13. VersionedInv'
  BY <1>3, <1>5, <1>6, <1>12 DEF VersionedInv
<1>14. GrowingInv'
  BY <1>3, <1>6, <1>12 DEF GrowingInv
<1>15. BackwardInv'
  <2> SUFFICES ASSUME kind = "latest"
               PROVE  /\ Len(p) <= Len(messages)
                      /\ \A i \in 1..Len(p) : p[i] = Len(p) + 1 - i
    BY <1>2, <1>3, <1>12 DEF BackwardInv
  <2> DEFINE r == Lists!Listing("latest")
  <2>1. /\ r \in Seq(Rows) /\ Len(r) = Len(messages) /\ Len(messages) \in Nat
        /\ \A i \in 1..Len(messages) : r[i].id = Len(messages) + 1 - i
    BY <1>4, LatestAre, MessagesAre
  <2>2. p = Lists!IdsOf(r)
    BY DEF p
  <2> HIDE DEF r
  <2>3. Len(p) = Len(r) /\ \A i \in 1..Len(r) : p[i] = r[i].id
    BY <2>1, <2>2, IdsAre
  <2> QED  BY <2>1, <2>3
<1>16. walk'.kind = "attempts" => requests' # <<>>
  BY <1>2, <1>3 DEF Lists!Begin, Lists!Visible
<1> QED  BY <1>10, <1>11, <1>13, <1>14, <1>15, <1>16 DEF PageInv, WalkInv

\* The walk after a page that was answered.
Answered(page, rest) ==
  /\ walk'.kind = walk.kind /\ walk'.version = version
  /\ walk'.got = walk.got \o Lists!IdsOf(page)
  /\ walk'.done = ~(Len(page) < Len(rest))
  /\ walk'.start = IF walk.got = <<>> THEN Lists!IdsOf(Lists!Listing(walk.kind)) ELSE walk.start
  /\ walk'.at = IF Len(page) < Len(rest) /\ page # <<>>
                THEN Lists!NextCursor(walk.kind, walk.at, page)
                ELSE walk.at
  /\ walk' = [kind |-> walk'.kind, at |-> walk'.at, version |-> walk'.version,
              got |-> walk'.got, start |-> walk'.start, done |-> walk'.done]

\* A read ends the walk or answers a page.
LEMMA FetchIs ==
  ASSUME Lists!PagesAssumption, PageInv, Lists!Fetch
  PROVE  \/ /\ walk' = None
            /\ (~Lists!Visible(walk.kind) \/ (walk.got # <<>> /\ ~Lists!CursorIsGood(walk)))
         \/ /\ walk.got = <<>> \/ Lists!CursorIsGood(walk)
            /\ Answered(Lists!Page(walk.kind, walk.at), Lists!Rest(walk.kind, walk.at))
<1>1. walk # None
  BY DEF Lists!Fetch
<1>2. walk \in Lists!Walks
  BY <1>1, WalkHas
<1> DEFINE page == Lists!Page(walk.kind, walk.at)
<1> DEFINE rest == Lists!Rest(walk.kind, walk.at)
<1>3. CASE ~Lists!Visible(walk.kind) \/ (walk.got # <<>> /\ ~Lists!CursorIsGood(walk))
  BY <1>3 DEF Lists!Fetch
<1>4. CASE ~(~Lists!Visible(walk.kind) \/ (walk.got # <<>> /\ ~Lists!CursorIsGood(walk)))
  <2>1. walk' = [walk EXCEPT !.got = @ \o Lists!IdsOf(page), !.version = version,
                             !.done = ~(Len(page) < Len(rest)),
                             !.start = IF walk.got = <<>>
                               THEN Lists!IdsOf(Lists!Listing(walk.kind)) ELSE @,
                             !.at = IF Len(page) < Len(rest) /\ page # <<>>
                                    THEN Lists!NextCursor(walk.kind, @, page) ELSE @]
    BY <1>4 DEF Lists!Fetch
  <2> HIDE DEF page, rest
  <2>2. Answered(page, rest)
    BY <1>2, <2>1 DEF Answered, Lists!Walks
  <2> QED  BY <1>4, <2>2 DEF page, rest
<1> QED  BY <1>3, <1>4

\* The ids of messages and events are numbers.
LEMMA BaseNumbers ==
  ASSUME Lists!PagesAssumption, PageInv, walk # None, walk.kind \notin Lists!ByOffset
  PROVE  \A i \in 1..Len(Base) : Base[i] \in Nat
<1>1. Lists!TypeOK /\ BackwardInv /\ walk.kind \in {"latest", "events"}
  BY WalkHas DEF PageInv, WalkInv, Lists!Kinds, Lists!ByOffset
<1>2. Base \in {PageIds, walk.start} /\ (walk.kind = "events" => Base = PageIds)
  BY DEF Base
<1>3. CASE walk.kind = "events"
  <2> DEFINE p == Lists!Listing("events")
  <2>1. events \in Seq(EventSet)
    BY <1>1 DEF Lists!TypeOK, EventSet
  <2>2. p = EventsOf(events)
    BY DEF Lists!Listing, Lists!EventRows, EventsOf
  <2>3. p \in Seq(Rows) /\ Ascending(p)
    BY <2>1, <2>2, EventsAscend
  <2>4. Base = Lists!IdsOf(p)
    BY <1>2, <1>3 DEF PageIds
  <2> HIDE DEF p
  <2>5. Len(Lists!IdsOf(p)) = Len(p) /\ \A i \in 1..Len(p) : Lists!IdsOf(p)[i] = p[i].id
    BY <2>3, IdsAre
  <2> QED  BY <2>3, <2>4, <2>5 DEF Ascending
<1>4. CASE walk.kind = "latest"
  <2> DEFINE p == Lists!Listing("latest")
  <2>1. /\ p \in Seq(Rows) /\ Len(p) = Len(messages) /\ Len(messages) \in Nat
        /\ \A i \in 1..Len(messages) : p[i].id = Len(messages) + 1 - i
    BY <1>1, LatestAre, MessagesAre
  <2>2. PageIds = Lists!IdsOf(p)
    BY <1>4 DEF PageIds
  <2> HIDE DEF p
  <2>3. Len(Lists!IdsOf(p)) = Len(p) /\ \A i \in 1..Len(p) : Lists!IdsOf(p)[i] = p[i].id
    BY <2>1, IdsAre
  <2>4. \A i \in 1..Len(PageIds) : PageIds[i] \in Nat
    BY <2>1, <2>2, <2>3
  <2>5. Len(walk.start) \in Nat
        /\ \A i \in 1..Len(walk.start) : walk.start[i] = Len(walk.start) + 1 - i
    BY <1>1, <1>4, WalkHas DEF BackwardInv
  <2>6. \A i \in 1..Len(walk.start) : walk.start[i] \in Nat
    BY <2>5
  <2> QED  BY <1>2, <2>4, <2>6
<1> QED  BY <1>1, <1>3, <1>4

\* A page that is answered keeps the invariant.
LEMMA AnsweredKeeps ==
  ASSUME Lists!PagesAssumption, PageInv, walk # None, ~walk.done,
         walk.got = <<>> \/ Lists!CursorIsGood(walk), UNCHANGED <<version, Lists!store>>,
         Answered(Lists!Page(walk.kind, walk.at), Lists!Rest(walk.kind, walk.at))
  PROVE  PageInv' /\ walk' \in Lists!Walks
<1> DEFINE rest == Lists!Rest(walk.kind, walk.at)
<1> DEFINE page == Lists!Page(walk.kind, walk.at)
<1> DEFINE base == Base
<1> DEFINE c == Len(walk.got)
<1> DEFINE now == walk.got \o Lists!IdsOf(page)
<1>1. Lists!TypeOK /\ CursorInv /\ VersionedInv /\ GrowingInv /\ BackwardInv
      /\ (walk.kind = "attempts" => requests # <<>>)
  BY DEF PageInv, WalkInv
<1>2. /\ walk.kind \in Lists!Kinds /\ walk.at \in Nat /\ walk.got \in Seq(IdSet)
      /\ walk.start \in Seq(IdSet) /\ c \in Nat
  BY WalkHas
<1>3. /\ base \in Seq(IdSet) /\ Starts(walk.got, base)
      /\ rest \in Seq(Rows) /\ Len(rest) = Len(base) - c
      /\ \A j \in 1..Len(rest) : rest[j].id = base[c + j]
  BY LeftIs
<1>4. UNCHANGED <<version, dialogs, tombstones, requests, messages, events>>
  BY StoreStays
<1>a. \A kind \in Lists!Kinds : Lists!Listing(kind)' = Lists!Listing(kind)
  BY StoreStays
<1>5. PICK m \in 0..Len(rest) : page = SubSeq(rest, 1, m)
  BY <1>3, PageIs
<1>6. /\ walk'.kind = walk.kind /\ walk'.version = version
      /\ walk'.got = now /\ walk'.done = ~(Len(page) < Len(rest))
      /\ walk'.start = IF walk.got = <<>> THEN PageIds ELSE walk.start
      /\ walk'.at = IF Len(page) < Len(rest) /\ page # <<>>
                    THEN Lists!NextCursor(walk.kind, walk.at, page) ELSE walk.at
      /\ walk' = [kind |-> walk'.kind, at |-> walk'.at, version |-> walk'.version,
                  got |-> walk'.got, start |-> walk'.start, done |-> walk'.done]
  BY DEF Answered, PageIds
<1>7. PageIds' = PageIds
  <2>1. PICK kind \in Lists!Kinds : walk.kind = kind
    BY <1>2
  <2>2. walk'.kind = kind
    BY <1>6, <2>1
  <2>3. PageIds = Lists!IdsOf(Lists!Listing(kind))
        /\ PageIds' = Lists!IdsOf(Lists!Listing(kind)')
    BY <2>1, <2>2 DEF PageIds, Lists!IdsOf
  <2> QED  BY <1>a, <2>3
<1>8. PageIds \in Seq(IdSet) /\ Lists!IsInjective(PageIds) /\ Len(PageIds) \in Nat
  BY <1>1, <1>2, ListingIs, IdsAre DEF PageIds
<1>9. base = IF walk.kind \in {"history", "events"} \/ walk.got = <<>>
             THEN PageIds ELSE walk.start
  BY DEF Base
<1> HIDE DEF rest, page, base, c, now
<1>10. /\ now \in Seq(IdSet) /\ Len(page) = m /\ Len(now) = c + m /\ Starts(now, base)
       /\ m > 0 => page # <<>> /\ Lists!Last(page).id = now[Len(now)]
       /\ m = 0 => page = <<>> /\ now = walk.got
  <2>1. now = walk.got \o Lists!IdsOf(page)
    BY DEF now
  <2>2. Len(rest) = Len(base) - Len(walk.got)
        /\ \A j \in 1..Len(rest) : rest[j].id = base[Len(walk.got) + j]
    BY <1>3 DEF c
  <2>3. /\ now \in Seq(IdSet) /\ Len(page) = m /\ Len(now) = Len(walk.got) + m
        /\ Starts(now, base)
        /\ m > 0 => page # <<>> /\ Lists!Last(page).id = now[Len(now)]
        /\ m = 0 => page = <<>> /\ now = walk.got
    <3> DEFINE got == walk.got
    <3>1. got \in Seq(IdSet) /\ base \in Seq(IdSet) /\ rest \in Seq(Rows) /\ m \in 0..Len(rest)
      BY <1>2, <1>3
    <3>2. page = SubSeq(rest, 1, m) /\ now = got \o Lists!IdsOf(page) /\ Starts(got, base)
      BY <1>3, <1>5, <2>1
    <3>3. Len(rest) = Len(base) - Len(got)
          /\ \A j \in 1..Len(rest) : rest[j].id = base[Len(got) + j]
      BY <2>2
    <3>4. Follow(rest, got, base)
      BY <3>2, <3>3 DEF Follow
    <3>5. Brings(page, m, got, now, base)
      <4> HIDE DEF got
      <4> QED  BY <3>1, <3>2, <3>4, Brought
    <3> QED  BY <3>5 DEF Brings
  <2> QED  BY <2>3 DEF c
<1>11. Len(base) \in Nat /\ Len(rest) \in Nat /\ m \in Nat /\ m <= Len(rest)
  BY <1>3
<1>12. m > 0 \/ m = 0
  BY <1>11
<1>13. walk'.done => Len(now) = Len(base)
  <2> HAVE walk'.done
  <2>1. ~(m < Len(rest)) /\ Len(now) = c + m /\ Len(rest) = Len(base) - c
    BY <1>3, <1>6, <1>10
  <2>2. c \in Nat /\ Len(base) \in Nat /\ Len(rest) \in Nat /\ m \in Nat /\ m <= Len(rest)
    BY <1>2, <1>11
  <2>3. m = Len(rest)
    BY <2>1, <2>2
  <2> QED  BY <2>1, <2>2, <2>3
<1>14. walk'.done => now = base
  BY <1>3, <1>10, <1>13, SameSequence DEF Starts
<1>15. m > 0 => now[Len(now)] = base[Len(now)] /\ Len(now) \in 1..Len(base)
  BY <1>2, <1>10, <1>11 DEF Starts
<1>16. ASSUME walk.kind \in Lists!ByOffset
       PROVE  CursorInv' /\ walk'.at \in 0..Len(now) /\ walk'.at \in Nat
  <2>1. walk.at = c
    BY <1>1, <1>16 DEF CursorInv, c
  <2>2. m > 0 => Lists!NextCursor(walk.kind, walk.at, page) = c + m
    BY <1>10, <1>16, <2>1 DEF Lists!NextCursor
  <2>3. walk'.at \in 0..Len(now) /\ walk'.at \in Nat
    BY <1>2, <1>6, <1>10, <1>11, <1>12, <2>1, <2>2
  <2>4. ~walk'.done => walk'.at = Len(now)
    <3> HAVE ~walk'.done
    <3>1. Len(page) < Len(rest)
      BY <1>6
    <3>2. m > 0 => walk'.at = c + m
      BY <1>6, <1>10, <2>2, <3>1
    <3>3. m = 0 => walk'.at = c
      BY <1>6, <1>10, <2>1, <3>1
    <3> QED  BY <1>2, <1>10, <1>12, <3>2, <3>3
  <2>5. CursorInv'
    BY <1>6, <1>16, <2>4 DEF CursorInv
  <2> QED  BY <2>3, <2>5
<1>17. ASSUME walk.kind \notin Lists!ByOffset PROVE CursorInv' /\ walk'.at \in Nat
  <2>1. walk.at = IF walk.got = <<>> THEN Lists!FirstCursor(walk.kind)
          ELSE walk.got[Len(walk.got)]
    BY <1>1, <1>17 DEF CursorInv
  <2>2. m > 0 => Lists!NextCursor(walk.kind, walk.at, page) = now[Len(now)]
    BY <1>10, <1>17 DEF Lists!NextCursor
  <2>3. m > 0 => now[Len(now)] \in Nat /\ now # <<>>
    <3> HAVE m > 0
    <3>1. \A i \in 1..Len(base) : base[i] \in Nat
      BY <1>17, BaseNumbers DEF base
    <3>2. Len(now) # 0 /\ Len(<<>>) = 0
      BY <1>2, <1>10, <1>11
    <3> QED  BY <1>15, <3>1, <3>2
  <2>4. walk'.at \in Nat
    BY <1>2, <1>6, <1>10, <1>12, <2>2, <2>3
  <2>5. ~walk'.done =>
          walk'.at = IF now = <<>> THEN Lists!FirstCursor(walk.kind) ELSE now[Len(now)]
    BY <1>6, <1>10, <1>12, <2>1, <2>2, <2>3
  <2>6. CursorInv'
    <3>1. Lists!FirstCursor(walk'.kind) = Lists!FirstCursor(walk.kind)
      BY <1>6
    <3> QED  BY <1>6, <1>17, <2>5, <3>1 DEF CursorInv, Lists!FirstCursor
  <2> QED  BY <1>17, <2>4, <2>6
<1>18. CursorInv' /\ walk'.at \in Nat
       /\ (walk.kind \in Lists!ByOffset => walk'.at \in 0..Len(now))
  <2>1. CASE walk.kind \in Lists!ByOffset
    BY <1>16, <2>1
  <2> QED  BY <1>17, <2>1
<1>19. walk'.start \in Seq(IdSet)
  BY <1>2, <1>6, <1>8
<1>20. version \in Nat
  BY <1>1 DEF Lists!TypeOK
<1>21. walk' \in Lists!Walks
  <2>1. walk'.done \in BOOLEAN
    BY <1>6
  <2> QED  BY <1>2, <1>6, <1>10, <1>18, <1>19, <1>20, <2>1 DEF Lists!Walks, IdSet
<1>22. Lists!TypeOK'
  <2>1. walk'.version <= version'
    BY <1>4, <1>6, <1>20
  <2> QED  BY <1>1, <1>4, <1>6, <1>18, <1>21, <2>1 DEF Lists!TypeOK
<1>23. VersionedInv'
  <2> SUFFICES ASSUME walk.kind \in {"dialogs", "requests", "attempts"}
               PROVE  /\ PageIds = walk'.start /\ Starts(now, walk'.start)
                      /\ Lists!IsInjective(walk'.start)
                      /\ walk'.done => now = walk'.start
    BY <1>4, <1>6, <1>7 DEF VersionedInv
  <2>1. CASE walk.got = <<>>
    BY <1>6, <1>8, <1>9, <1>10, <1>14, <2>1
  <2>2. CASE walk.got # <<>>
    <3>1. walk.version = version
      BY <2>2 DEF Lists!CursorIsGood, Lists!ByOffset
    <3> QED  BY <1>1, <1>6, <1>8, <1>9, <1>10, <1>14, <2>2, <3>1 DEF VersionedInv
  <2> QED  BY <2>1, <2>2
<1>24. GrowingInv'
  <2> SUFFICES ASSUME walk.kind \in {"history", "events"}
               PROVE  /\ Starts(now, PageIds) /\ Starts(walk'.start, PageIds)
                      /\ walk'.done => Len(walk'.start) <= Len(now)
    BY <1>6, <1>7 DEF GrowingInv
  <2>1. Starts(now, PageIds) /\ (walk'.done => now = PageIds)
    BY <1>9, <1>10, <1>14
  <2>2. Starts(walk'.start, PageIds)
    BY <1>1, <1>6, <1>8, StartsItself DEF GrowingInv
  <2> QED  BY <2>1, <2>2 DEF Starts
<1>25. BackwardInv'
  <2> SUFFICES ASSUME walk.kind = "latest"
               PROVE  /\ Len(walk'.start) <= Len(messages)
                      /\ \A i \in 1..Len(walk'.start) :
                           walk'.start[i] = Len(walk'.start) + 1 - i
                      /\ Starts(now, walk'.start) /\ (walk'.done => now = walk'.start)
    BY <1>4, <1>6 DEF BackwardInv
  <2>1. walk'.start = base
    BY <1>6, <1>9
  <2>2. CASE walk.got = <<>>
    <3> DEFINE r == Lists!Listing("latest")
    <3>1. /\ r \in Seq(Rows) /\ Len(r) = Len(messages) /\ Len(messages) \in Nat
          /\ \A i \in 1..Len(messages) : r[i].id = Len(messages) + 1 - i
      BY <1>1, LatestAre, MessagesAre
    <3>2. PageIds = Lists!IdsOf(r)
      BY DEF PageIds
    <3> HIDE DEF r
    <3>3. Len(PageIds) = Len(r) /\ \A i \in 1..Len(r) : PageIds[i] = r[i].id
      BY <3>1, <3>2, IdsAre
    <3>4. Len(PageIds) = Len(messages)
          /\ \A i \in 1..Len(PageIds) : PageIds[i] = Len(PageIds) + 1 - i
      BY <3>1, <3>3
    <3>5. walk'.start = PageIds
      BY <1>6, <2>2
    <3>6. Len(PageIds) <= Len(messages)
      BY <1>8, <3>4
    <3> QED  BY <1>10, <1>14, <2>1, <3>4, <3>5, <3>6
  <2>3. CASE walk.got # <<>>
    <3>1. walk'.start = walk.start
      BY <1>6, <2>3
    <3> QED  BY <1>1, <1>10, <1>14, <2>1, <3>1 DEF BackwardInv
  <2> QED  BY <2>2, <2>3
<1>26. walk'.kind = "attempts" => requests' # <<>>
  BY <1>1, <1>4, <1>6
<1> QED  BY <1>18, <1>21, <1>22, <1>23, <1>24, <1>25, <1>26 DEF PageInv, WalkInv

\* A walk that is over.
LEMMA NoWalkKeeps ==
  ASSUME PageInv, UNCHANGED <<version, Lists!store>>, walk' = None PROVE PageInv'
BY DEF PageInv, Lists!TypeOK, WalkInv, Lists!store

\* A sequence with an element put in at a place.
LEMMA InsertIs ==
  ASSUME NEW S, NEW s \in Seq(S), NEW e \in S, NEW i \in 1..(Len(s) + 1),
         Lists!IsInjective(s), e \notin Lists!Range(s)
  PROVE  /\ Lists!InsertAt(s, i, e) \in Seq(S) /\ Lists!IsInjective(Lists!InsertAt(s, i, e))
         /\ Lists!Range(s) \subseteq Lists!Range(Lists!InsertAt(s, i, e))
<1> DEFINE n == Len(s)
<1> DEFINE a == SubSeq(s, 1, i - 1)
<1> DEFINE b == SubSeq(s, i, n)
<1> DEFINE t == (a \o <<e>>) \o b
<1>1. n \in Nat /\ i \in 1..(n + 1) /\ \A j \in 1..n : s[j] \in S
  OBVIOUS
<1>2. /\ a \in Seq(S) /\ Len(a) = i - 1 /\ \A j \in 1..(i - 1) : a[j] = s[j]
  <2>1. 1 \in 1..(n + 1) /\ i - 1 \in 0..n /\ 1 <= (i - 1) + 1 /\ (i - 1) - 1 + 1 = i - 1
    BY <1>1
  <2>2. /\ a \in Seq(S) /\ Len(a) = (i - 1) - 1 + 1
        /\ \A j \in 1..((i - 1) - 1 + 1) : a[j] = s[1 + j - 1]
    BY <2>1, PartOf
  <2>3. \A j \in 1..(i - 1) : 1 + j - 1 = j
    BY <1>1
  <2> QED  BY <2>1, <2>2, <2>3
<1>3. /\ b \in Seq(S) /\ Len(b) = n - i + 1 /\ \A j \in 1..(n - i + 1) : b[j] = s[i + j - 1]
  <2>1. n \in 0..n /\ i <= n + 1
    BY <1>1
  <2> QED  BY <2>1, PartOf
<1>4. Lists!InsertAt(s, i, e) = t
  BY DEF Lists!InsertAt
<1> DEFINE u == a \o <<e>>
<1>5. /\ u \in Seq(S) /\ Len(u) = i /\ u[i] = e /\ \A j \in 1..(i - 1) : u[j] = s[j]
  <2> HIDE DEF a
  <2>1. <<e>> \in Seq(S) /\ Len(<<e>>) = 1 /\ <<e>>[1] = e
    OBVIOUS
  <2>2. u \in Seq(S) /\ Len(u) = (i - 1) + 1
    BY <1>2, <2>1, Joined
  <2>3. \A j \in 1..((i - 1) + 1) : u[j] = IF j <= i - 1 THEN a[j] ELSE <<e>>[j - (i - 1)]
    BY <1>1, <1>2, <2>1
  <2>4. i \in 1..((i - 1) + 1) /\ ~(i <= i - 1) /\ i - (i - 1) = 1 /\ (i - 1) + 1 = i
    BY <1>1
  <2>5. u[i] = e
    BY <2>1, <2>3, <2>4
  <2>6. \A j \in 1..(i - 1) : j \in 1..((i - 1) + 1) /\ j <= i - 1
    BY <1>1
  <2> QED  BY <1>2, <2>2, <2>3, <2>4, <2>5, <2>6
<1> HIDE DEF a, b, u
<1>6. /\ t \in Seq(S) /\ Len(t) = n + 1
      /\ \A j \in 1..(n + 1) : t[j] = IF j <= i THEN u[j] ELSE b[j - i]
  <2>1. t = u \o b
    BY DEF u
  <2>2. t \in Seq(S) /\ Len(t) = i + (n - i + 1)
    <3>1. u \o b \in Seq(S) /\ Len(u \o b) = Len(u) + Len(b)
      BY <1>3, <1>5, Joined
    <3> QED  BY <1>3, <1>5, <2>1, <3>1
  <2>3. \A j \in 1..(i + (n - i + 1)) : t[j] = IF j <= i THEN u[j] ELSE b[j - i]
    BY <1>1, <1>3, <1>5, <2>1
  <2>4. i + (n - i + 1) = n + 1
    BY <1>1
  <2> QED  BY <2>2, <2>3, <2>4
<1> HIDE DEF t
<1>7. \A j \in 1..(n + 1) : t[j] = IF j < i THEN s[j] ELSE IF j = i THEN e ELSE s[j - 1]
  <2> TAKE j \in 1..(n + 1)
  <2>1. CASE j < i
    <3>1. j \in 1..(i - 1) /\ j <= i
      BY <1>1, <2>1
    <3> QED  BY <1>5, <1>6, <2>1, <3>1
  <2>2. CASE j = i
    <3>1. ~(j < i) /\ j <= i
      BY <1>1, <2>2
    <3> QED  BY <1>5, <1>6, <2>2, <3>1
  <2>3. CASE j > i
    <3>1. ~(j < i) /\ ~(j <= i) /\ j # i /\ j - i \in 1..(n - i + 1) /\ i + (j - i) - 1 = j - 1
      BY <1>1, <2>3
    <3> QED  BY <1>3, <1>6, <3>1
  <2>4. j < i \/ j = i \/ j > i
    BY <1>1
  <2> QED  BY <2>1, <2>2, <2>3, <2>4
<1>8. \A j \in 1..n : s[j] # e
  BY <1>1 DEF Lists!Range
<1>9. \A j, k \in 1..n : s[j] = s[k] => j = k
  BY <1>1 DEF Lists!IsInjective
<1> DEFINE from(j) == IF j < i THEN j ELSE j - 1
<1>10. \A j \in 1..(n + 1) : j # i => from(j) \in 1..n /\ t[j] = s[from(j)]
  <2> TAKE j \in 1..(n + 1)
  <2> HAVE j # i
  <2>1. from(j) \in 1..n
    BY <1>1
  <2>2. t[j] = s[from(j)]
    BY <1>7
  <2> QED  BY <2>1, <2>2
<1>11. \A j, k \in 1..(n + 1) : j # i /\ k # i /\ from(j) = from(k) => j = k
  BY <1>1
<1>12. t[i] = e
  BY <1>1, <1>7
<1> HIDE DEF from, n
<1>13. Lists!IsInjective(t)
  <2> SUFFICES ASSUME NEW j \in 1..(n + 1), NEW k \in 1..(n + 1), t[j] = t[k] PROVE j = k
    BY <1>6 DEF Lists!IsInjective
  <2>1. CASE j = i /\ k = i
    BY <2>1
  <2>2. CASE j = i /\ k # i
    BY <1>8, <1>10, <1>12, <2>2
  <2>3. CASE j # i /\ k = i
    BY <1>8, <1>10, <1>12, <2>3
  <2>4. CASE j # i /\ k # i
    <3>1. s[from(j)] = s[from(k)] /\ from(j) \in 1..n /\ from(k) \in 1..n
      BY <1>10, <2>4
    <3>2. from(j) = from(k)
      BY <1>9, <3>1
    <3> QED  BY <1>11, <2>4, <3>2
  <2> QED  BY <2>1, <2>2, <2>3, <2>4
<1>14. Lists!Range(s) \subseteq Lists!Range(t)
  <2>0. DOMAIN s = 1..n /\ DOMAIN t = 1..(n + 1)
    BY <1>6 DEF n
  <2> SUFFICES ASSUME NEW j \in 1..n PROVE \E k \in 1..(n + 1) : t[k] = s[j]
    BY <2>0 DEF Lists!Range
  <2> DEFINE k == IF j < i THEN j ELSE j + 1
  <2>1. k \in 1..(n + 1) /\ k # i /\ from(k) = j
    BY <1>1 DEF from
  <2> QED  BY <1>10, <2>1
<1> QED  BY <1>4, <1>6, <1>13, <1>14

\* What a commit between two pages may do to the lists.
Grown ==
  /\ walk' = walk /\ version' \in 0..MaxVersion /\ version <= version'
  /\ version' = version => UNCHANGED <<dialogs, tombstones, requests>>
  /\ messages' = messages \/ \E size \in Sizes : messages' = Append(messages, size)
  /\ events' = events \/ \E x \in EventSet : events' = Append(events, x)
  /\ requests # <<>> => requests' # <<>>

\* The event of a commit, and the version it makes.
LEMMA CommitHas ==
  ASSUME Lists!PagesAssumption, Lists!TypeOK, version < MaxVersion, Lists!Bump,
         NEW b \in BOOLEAN, NEW size \in Sizes \cup {1}, Lists!Report(b, size)
  PROVE  /\ version' \in 0..MaxVersion /\ version <= version' /\ version' # version
         /\ \E x \in EventSet : events' = Append(events, x)
         /\ events' \in Seq([attempt : BOOLEAN, size : Sizes \cup {1}])
<1>1. version \in Nat /\ MaxVersion \in Nat /\ version' = version + 1
  BY PageSizes DEF Lists!TypeOK, Lists!Bump
<1> DEFINE x == [attempt |-> b, size |-> size]
<1>2. x \in EventSet
  BY DEF EventSet
<1>3. events' = Append(events, x)
  BY DEF Lists!Report
<1>4. events \in Seq(EventSet)
  BY DEF Lists!TypeOK, EventSet
<1> HIDE DEF x
<1>5. events' \in Seq(EventSet)
  BY <1>2, <1>3, <1>4, OneMore
<1> QED  BY <1>1, <1>2, <1>3, <1>5 DEF EventSet

\* A walk keeps its type while the version grows.
LEMMA WalkStays ==
  ASSUME Lists!TypeOK, walk' = walk, version' \in Nat, version <= version'
  PROVE  /\ walk' \in Lists!Walks \cup {None}
         /\ walk' # None => /\ walk'.version <= version'
                            /\ walk'.kind \in Lists!ByOffset => walk'.at \in 0..Len(walk'.got)
<1>1. walk' \in Lists!Walks \cup {None}
  BY DEF Lists!TypeOK
<1>2. ASSUME walk # None PROVE walk.version <= version'
  <2>1. walk.version \in Nat /\ walk.version <= version /\ version \in Nat
    BY <1>2 DEF Lists!TypeOK, Lists!Walks
  <2> QED  BY <2>1
<1> QED  BY <1>1, <1>2 DEF Lists!TypeOK

\* dialog.create puts a dialog somewhere in the list.
LEMMA CreateGrows ==
  ASSUME Lists!PagesAssumption, Lists!TypeOK, NEW d \in Dialogs,
         NEW place \in 1..(Len(dialogs) + 1),
         Lists!CreateDialog(d, place)
  PROVE  Grown /\ Lists!TypeOK'
<1>1. /\ version < MaxVersion /\ d \notin Lists!Range(dialogs) /\ Lists!Bump
      /\ Lists!Report(FALSE, 1)
      /\ dialogs' = Lists!InsertAt(dialogs, place, d)
      /\ UNCHANGED <<tombstones, requests, messages, walk>>
  BY DEF Lists!CreateDialog
<1>2. /\ version' \in 0..MaxVersion /\ version <= version' /\ version' # version
      /\ \E x \in EventSet : events' = Append(events, x)
      /\ events' \in Seq([attempt : BOOLEAN, size : Sizes \cup {1}])
  BY <1>1, CommitHas
<1>3. dialogs \in Seq(Dialogs) /\ Lists!IsInjective(dialogs)
  BY DEF Lists!TypeOK
<1>4. /\ dialogs' \in Seq(Dialogs) /\ Lists!IsInjective(dialogs')
      /\ Lists!Range(dialogs) \subseteq Lists!Range(dialogs')
  BY <1>1, <1>3, InsertIs
<1>5. tombstones' \subseteq Lists!Range(dialogs')
  BY <1>1, <1>4 DEF Lists!TypeOK
<1>6. Grown
  BY <1>1, <1>2 DEF Grown
<1>7. /\ walk' \in Lists!Walks \cup {None}
      /\ walk' # None => /\ walk'.version <= version'
                         /\ walk'.kind \in Lists!ByOffset => walk'.at \in 0..Len(walk'.got)
  BY <1>1, <1>2, WalkStays
<1>8. Lists!TypeOK'
  BY <1>1, <1>2, <1>4, <1>5, <1>7 DEF Lists!TypeOK
<1> QED  BY <1>6, <1>8

\* LogicalDelete adds a tombstone.
LEMMA DeleteGrows ==
  ASSUME Lists!PagesAssumption, Lists!TypeOK, NEW d \in Dialogs, Lists!DeleteDialog(d)
  PROVE  Grown /\ Lists!TypeOK'
<1>1. /\ version < MaxVersion /\ d \in Lists!Range(dialogs) \ tombstones /\ Lists!Bump
      /\ Lists!Report(FALSE, 1)
      /\ tombstones' = tombstones \cup {d}
      /\ UNCHANGED <<dialogs, requests, messages, walk>>
  BY DEF Lists!DeleteDialog
<1>2. /\ version' \in 0..MaxVersion /\ version <= version' /\ version' # version
      /\ \E x \in EventSet : events' = Append(events, x)
      /\ events' \in Seq([attempt : BOOLEAN, size : Sizes \cup {1}])
  BY <1>1, CommitHas
<1>3. Grown
  BY <1>1, <1>2 DEF Grown
<1>4. tombstones' \subseteq Lists!Range(dialogs')
  BY <1>1 DEF Lists!TypeOK
<1>5. /\ walk' \in Lists!Walks \cup {None}
      /\ walk' # None => /\ walk'.version <= version'
                         /\ walk'.kind \in Lists!ByOffset => walk'.at \in 0..Len(walk'.got)
  BY <1>1, <1>2, WalkStays
<1>6. Lists!TypeOK'
  BY <1>1, <1>2, <1>4, <1>5 DEF Lists!TypeOK
<1> QED  BY <1>3, <1>6

\* A message more.
LEMMA MessageMore ==
  ASSUME Lists!TypeOK, Len(messages) < MaxRows, MaxRows \in Nat, NEW size \in Sizes
  PROVE  Append(messages, size) \in Seq(Sizes) /\ Len(Append(messages, size)) <= MaxRows
<1>1. messages \in Seq(Sizes) /\ Len(messages) \in Nat
  BY DEF Lists!TypeOK
<1>2. Append(messages, size) \in Seq(Sizes) /\ Len(Append(messages, size)) = Len(messages) + 1
  BY <1>1, OneMore
<1> QED  BY <1>1, <1>2

\* message.enqueue: a message and a request.
LEMMA EnqueueGrows ==
  ASSUME Lists!PagesAssumption, Lists!TypeOK, NEW d \in Dialogs, NEW size \in Sizes,
         Lists!Enqueue(d, size)
  PROVE  Grown /\ Lists!TypeOK'
<1> DEFINE r == [dialog |-> d, status |-> "queued"]
<1> DEFINE ReqSet == [dialog : Dialogs, status : {"queued", "active", "ended"}]
<1>1. /\ version < MaxVersion /\ Lists!Bump /\ Lists!Report(FALSE, size)
      /\ Len(requests) < MaxRows /\ Len(messages) < MaxRows
      /\ requests' = Append(requests, r)
      /\ messages' = IF d = Home THEN Append(messages, size) ELSE messages
      /\ UNCHANGED <<dialogs, tombstones, walk>>
  BY DEF Lists!Enqueue
<1>2. /\ version' \in 0..MaxVersion /\ version <= version' /\ version' # version
      /\ \E x \in EventSet : events' = Append(events, x)
      /\ events' \in Seq([attempt : BOOLEAN, size : Sizes \cup {1}])
  BY <1>1, CommitHas
<1>3. r \in ReqSet /\ requests \in Seq(ReqSet)
  BY DEF Lists!TypeOK
<1> HIDE DEF r, ReqSet
<1>4. requests' \in Seq(ReqSet) /\ Len(requests') = Len(requests) + 1 /\ Len(requests) \in Nat
  BY <1>1, <1>3, OneMore
<1>5. requests' # <<>>
  <2>1. Len(requests') # 0 /\ Len(<<>>) = 0
    BY <1>4
  <2> QED  BY <2>1
<1>6. messages' \in Seq(Sizes) /\ Len(messages') <= MaxRows
  BY <1>1, MessageMore, PageSizes DEF Lists!TypeOK
<1>7. Grown
  BY <1>1, <1>2, <1>5 DEF Grown
<1>8. /\ walk' \in Lists!Walks \cup {None}
      /\ walk' # None => /\ walk'.version <= version'
                         /\ walk'.kind \in Lists!ByOffset => walk'.at \in 0..Len(walk'.got)
  BY <1>1, <1>2, WalkStays
<1>9. Lists!TypeOK'
  BY <1>1, <1>2, <1>4, <1>6, <1>8 DEF Lists!TypeOK, ReqSet
<1> QED  BY <1>7, <1>9

\* A request is dispatched or ends.
LEMMA AdvanceGrows ==
  ASSUME Lists!PagesAssumption, Lists!TypeOK, NEW i \in 1..Len(requests), Lists!Advance(i)
  PROVE  Grown /\ Lists!TypeOK'
<1> DEFINE ReqSet == [dialog : Dialogs, status : {"queued", "active", "ended"}]
<1> DEFINE b == requests[i].dialog = Home
<1>1. /\ version < MaxVersion /\ Lists!Bump /\ Lists!Report(b, 1)
      /\ requests' = [requests EXCEPT ![i].status = IF @ = "queued" THEN "active" ELSE "ended"]
      /\ UNCHANGED <<dialogs, tombstones, messages, walk>>
  BY DEF Lists!Advance
<1>2. /\ version' \in 0..MaxVersion /\ version <= version' /\ version' # version
      /\ \E x \in EventSet : events' = Append(events, x)
      /\ events' \in Seq([attempt : BOOLEAN, size : Sizes \cup {1}])
  <2>1. b \in BOOLEAN
    OBVIOUS
  <2> HIDE DEF b
  <2> QED  BY <1>1, <2>1, CommitHas
<1>3. requests \in Seq(ReqSet) /\ Len(requests) \in Nat
  BY DEF Lists!TypeOK
<1>4. requests' \in Seq(ReqSet) /\ Len(requests') = Len(requests)
  <2>1. requests[i] \in ReqSet
    <3> HIDE DEF ReqSet
    <3> QED  BY <1>3
  <2> DEFINE r == [requests[i] EXCEPT !.status = IF @ = "queued" THEN "active" ELSE "ended"]
  <2>2. r \in ReqSet
    BY <2>1
  <2>3. requests' = [requests EXCEPT ![i] = r]
    BY <1>1
  <2> HIDE DEF r, ReqSet
  <2> QED  BY <1>3, <2>2, <2>3
<1>5. requests' # <<>>
  <2>1. Len(requests') # 0 /\ Len(<<>>) = 0
    BY <1>3, <1>4
  <2> QED  BY <2>1
<1>6. Grown
  BY <1>1, <1>2, <1>5 DEF Grown
<1>7. /\ walk' \in Lists!Walks \cup {None}
      /\ walk' # None => /\ walk'.version <= version'
                         /\ walk'.kind \in Lists!ByOffset => walk'.at \in 0..Len(walk'.got)
  BY <1>1, <1>2, WalkStays
<1>8. Lists!TypeOK'
  BY <1>1, <1>2, <1>4, <1>7 DEF Lists!TypeOK
<1> QED  BY <1>6, <1>8

\* An assistant message, and the answer to a question.
LEMMA MessageGrows ==
  ASSUME Lists!PagesAssumption, Lists!TypeOK, NEW size \in Sizes,
         Lists!AssistantMessage(size) \/ Lists!AnswerInput(size)
  PROVE  Grown /\ Lists!TypeOK'
<1>1. /\ messages' = Append(messages, size) /\ Len(messages) < MaxRows
      /\ UNCHANGED <<dialogs, tombstones, requests, walk>>
  BY DEF Lists!AssistantMessage, Lists!AnswerInput
<1>2. messages' \in Seq(Sizes) /\ Len(messages') <= MaxRows
  BY <1>1, MessageMore, PageSizes
<1>3. /\ version' \in 0..MaxVersion /\ version <= version'
      /\ events' = events \/ \E x \in EventSet : events' = Append(events, x)
      /\ events' \in Seq([attempt : BOOLEAN, size : Sizes \cup {1}])
  <2>1. CASE Lists!AssistantMessage(size)
    <3>1. version < MaxVersion /\ Lists!Bump /\ Lists!Report(TRUE, size)
      BY <2>1 DEF Lists!AssistantMessage
    <3> QED  BY <3>1, CommitHas
  <2>2. CASE Lists!AnswerInput(size)
    <3>1. UNCHANGED <<version, events>> /\ version \in 0..MaxVersion /\ MaxVersion \in Nat
      BY <2>2, PageSizes DEF Lists!AnswerInput, Lists!TypeOK
    <3> QED  BY <3>1 DEF Lists!TypeOK
  <2> QED  BY <2>1, <2>2
<1>4. Grown
  BY <1>1, <1>3 DEF Grown
<1>5. /\ walk' \in Lists!Walks \cup {None}
      /\ walk' # None => /\ walk'.version <= version'
                         /\ walk'.kind \in Lists!ByOffset => walk'.at \in 0..Len(walk'.got)
  BY <1>1, <1>3, WalkStays
<1>6. Lists!TypeOK'
  BY <1>1, <1>2, <1>3, <1>5 DEF Lists!TypeOK
<1> QED  BY <1>4, <1>6

\* Each commit makes the lists grow.
LEMMA CommitGrows ==
  ASSUME Lists!PagesAssumption, Lists!TypeOK, Lists!Commit PROVE Grown /\ Lists!TypeOK'
<1>1. CASE \E d \in Dialogs : \E place \in 1..Len(dialogs) + 1 : Lists!CreateDialog(d, place)
  BY <1>1, CreateGrows
<1>2. CASE \E d \in Dialogs : Lists!DeleteDialog(d)
  BY <1>2, DeleteGrows
<1>3. CASE \E d \in Dialogs : \E size \in Sizes : Lists!Enqueue(d, size)
  BY <1>3, EnqueueGrows
<1>4. CASE \E i \in 1..Len(requests) : Lists!Advance(i)
  BY <1>4, AdvanceGrows
<1>5. CASE \E size \in Sizes : Lists!AssistantMessage(size) \/ Lists!AnswerInput(size)
  BY <1>5, MessageGrows
<1> QED  BY <1>1, <1>2, <1>3, <1>4, <1>5 DEF Lists!Commit

\* A list that grows at its end begins as it was.
LEMMA IdsGrow ==
  ASSUME Lists!PagesAssumption, PageInv, Grown, Lists!TypeOK', walk # None,
         walk.kind \in {"history", "events"}
  PROVE  Starts(PageIds, PageIds') /\ PageIds' \in Seq(IdSet)
<1>1. Lists!TypeOK /\ walk' = walk
  BY DEF PageInv, Grown
<1>2. CASE walk.kind = "history"
  <2>1. PageIds = Lists!IdsOf(Lists!Numbered(messages))
        /\ PageIds' = Lists!IdsOf(Lists!Numbered(messages'))
    BY <1>1, <1>2 DEF PageIds, Lists!Listing, Lists!IdsOf, Lists!Numbered
  <2>2. messages \in Seq(Nat)
    BY <1>1, MessagesAre
  <2>3. PICK n \in Seq(Nat) : /\ n = messages' /\ Len(messages) <= Len(n)
    <3>1. CASE messages' = messages
      BY <2>2, <3>1
    <3>2. CASE \E size \in Sizes : messages' = Append(messages, size)
      <4>1. PICK size \in Sizes : messages' = Append(messages, size)
        BY <3>2
      <4>2. size \in Nat
        BY PageSizes
      <4>3. messages' \in Seq(Nat) /\ Len(messages') = Len(messages) + 1
        BY <2>2, <4>1, <4>2, OneMore
      <4> QED  BY <2>2, <4>3
    <3> QED  BY <3>1, <3>2 DEF Grown
  <2>4. \A s \in Seq(Nat) : /\ Lists!IdsOf(Lists!Numbered(s)) \in Seq(IdSet)
                            /\ Len(Lists!IdsOf(Lists!Numbered(s))) = Len(s)
                            /\ \A i \in 1..Len(s) : Lists!IdsOf(Lists!Numbered(s))[i] = i
    <3> TAKE s \in Seq(Nat)
    <3> DEFINE p == Lists!Numbered(s)
    <3>1. p \in Seq(Rows) /\ Len(p) = Len(s) /\ \A i \in 1..Len(s) : p[i].id = i
      BY NumberedAre
    <3> HIDE DEF p
    <3>2. /\ Lists!IdsOf(p) \in Seq(IdSet) /\ Len(Lists!IdsOf(p)) = Len(p)
          /\ \A i \in 1..Len(p) : Lists!IdsOf(p)[i] = p[i].id
      BY <3>1, IdsAre
    <3>3. /\ Lists!IdsOf(p) \in Seq(IdSet) /\ Len(Lists!IdsOf(p)) = Len(s)
          /\ \A i \in 1..Len(s) : Lists!IdsOf(p)[i] = i
      BY <3>1, <3>2
    <3> QED  BY <3>3 DEF p
  <2>5. Len(messages) \in Nat /\ Len(n) \in Nat
    BY <2>2
  <2> QED  BY <2>1, <2>2, <2>3, <2>4, <2>5 DEF Starts
<1>3. CASE walk.kind = "events"
  <2>1. PageIds = Lists!IdsOf(EventsOf(events)) /\ PageIds' = Lists!IdsOf(EventsOf(events'))
    BY <1>1, <1>3 DEF PageIds, Lists!Listing, Lists!IdsOf, EventsOf, Lists!EventRows,
       Lists!Numbered, Lists!Row
  <2>2. events \in Seq(EventSet) /\ events' \in Seq(EventSet)
    BY <1>1 DEF Lists!TypeOK, EventSet
  <2>3. Lists!IdsOf(EventsOf(events)) \in Seq(IdSet)
    BY <2>2, EventsAscend, IdsAre
  <2>4. PICK n \in Seq(EventSet) : n = events'
    BY <2>2
  <2>5. Lists!IdsOf(EventsOf(n)) \in Seq(IdSet)
    BY EventsAscend, IdsAre
  <2>6. CASE n = events
    BY <2>1, <2>3, <2>4, <2>5, <2>6, StartsItself
  <2>7. CASE \E x \in EventSet : n = Append(events, x)
    BY <2>1, <2>2, <2>4, <2>5, <2>7, EventsGrow
  <2> QED  BY <2>4, <2>6, <2>7 DEF Grown
<1> QED  BY <1>2, <1>3

\* A commit between two pages keeps the invariant.
LEMMA ListCommitKeeps ==
  ASSUME Lists!PagesAssumption, PageInv, Lists!Commit PROVE PageInv'
<1>1. Grown /\ Lists!TypeOK /\ Lists!TypeOK' /\ WalkInv
  BY CommitGrows DEF PageInv
<1>2. CASE walk = None
  BY <1>1, <1>2 DEF PageInv, WalkInv, Grown
<1>3. CASE walk # None
  <2>1. walk' = walk /\ CursorInv /\ VersionedInv /\ GrowingInv /\ BackwardInv
        /\ (walk.kind = "attempts" => requests # <<>>)
    BY <1>1, <1>3 DEF WalkInv, Grown
  <2>2. /\ walk.got \in Seq(IdSet) /\ walk.start \in Seq(IdSet) /\ walk.version \in Nat
        /\ Len(walk.start) \in Nat
    BY <1>3, WalkHas
  <2>3. CursorInv'
    BY <2>1 DEF CursorInv, Lists!FirstCursor
  <2>4. VersionedInv'
    <3>1. ASSUME walk.kind \in {"dialogs", "requests", "attempts"}, walk.version = version'
          PROVE  PageIds' = walk.start
      <4>1. version \in Nat /\ version' \in Nat /\ version <= version'
            /\ walk.version <= version
        BY <1>1, <1>3 DEF Lists!TypeOK, Grown
      <4>2. walk.version = version /\ version' = version
        BY <2>2, <3>1, <4>1
      <4>3. UNCHANGED <<dialogs, tombstones, requests, walk>>
        BY <1>1, <4>2 DEF Grown
      <4>4. PageIds' = PageIds
        BY <3>1, <4>3 DEF PageIds, Lists!Listing, Lists!DialogRows, Lists!RequestRows,
           Lists!Queued, Lists!Hidden
      <4> QED  BY <2>1, <3>1, <4>2, <4>4 DEF VersionedInv
    <3> QED  BY <2>1, <3>1 DEF VersionedInv
  <2>5. GrowingInv'
    <3> SUFFICES ASSUME walk.kind \in {"history", "events"}
                 PROVE  Starts(walk.got, PageIds') /\ Starts(walk.start, PageIds')
      BY <2>1 DEF GrowingInv
    <3>1. Starts(PageIds, PageIds') /\ PageIds' \in Seq(IdSet)
      BY <1>1, <1>3, IdsGrow
    <3>2. PageIds \in Seq(IdSet)
      BY <1>1, <1>3, WalkHas, ListingIs, IdsAre DEF PageIds
    <3>3. Starts(walk.got, PageIds) /\ Starts(walk.start, PageIds)
      BY <2>1 DEF GrowingInv
    <3> QED  BY <2>2, <3>1, <3>2, <3>3, StartsAreTransitive
  <2>6. BackwardInv'
    <3>1. Len(messages) \in Nat /\ Len(messages') \in Nat /\ Len(messages) <= Len(messages')
      <4>1. messages \in Seq(Sizes) /\ messages' \in Seq(Sizes)
        BY <1>1 DEF Lists!TypeOK
      <4>2. CASE messages' = messages
        BY <4>1, <4>2
      <4>3. CASE \E size \in Sizes : messages' = Append(messages, size)
        BY <4>1, <4>3, OneMore
      <4> QED  BY <1>1, <4>2, <4>3 DEF Grown
    <3> QED  BY <2>1, <2>2, <3>1 DEF BackwardInv
  <2>7. walk'.kind = "attempts" => requests' # <<>>
    BY <1>1, <2>1 DEF Grown
  <2> QED  BY <1>1, <2>3, <2>4, <2>5, <2>6, <2>7 DEF PageInv, WalkInv
<1> QED  BY <1>2, <1>3

\* The lists begin as the invariant says.
LEMMA PageInit ==
  ASSUME Lists!PagesAssumption, Lists!Init PROVE PageInv
<1>1. MaxVersion \in Nat /\ Home \in Dialogs /\ MaxRows \in Nat
  BY PageSizes DEF Lists!PagesAssumption
<1>2. dialogs \in Seq(Dialogs) /\ Len(dialogs) = 1 /\ dialogs = <<Home>>
  BY <1>1 DEF Lists!Init
<1>3. Lists!IsInjective(dialogs)
  <2>1. DOMAIN dialogs = 1..1
    BY <1>2
  <2> QED  BY <2>1 DEF Lists!IsInjective
<1>4. Lists!TypeOK
  BY <1>1, <1>2, <1>3 DEF Lists!Init, Lists!TypeOK
<1> QED  BY <1>4 DEF Lists!Init, PageInv, WalkInv

\* Every step keeps the invariant.
LEMMA PageStepKeeps ==
  ASSUME Lists!PagesAssumption, PageInv, [Lists!Next]_(Lists!vars) PROVE PageInv'
<1>1. CASE Lists!Commit
  BY <1>1, ListCommitKeeps
<1>2. CASE \E kind \in Lists!Kinds : Lists!Begin(kind)
  BY <1>2, BeginKeeps
<1>3. CASE Lists!Fetch
  <2>1. walk # None /\ ~walk.done /\ UNCHANGED <<version, Lists!store>>
    BY <1>3 DEF Lists!Fetch
  <2>2. CASE walk' = None
    BY <2>1, <2>2, NoWalkKeeps
  <2>3. CASE /\ walk.got = <<>> \/ Lists!CursorIsGood(walk)
             /\ Answered(Lists!Page(walk.kind, walk.at), Lists!Rest(walk.kind, walk.at))
    BY <2>1, <2>3, AnsweredKeeps
  <2> QED  BY <1>3, <2>2, <2>3, FetchIs
<1>4. CASE Lists!Forget
  BY <1>4, NoWalkKeeps DEF Lists!Forget
<1>5. CASE UNCHANGED Lists!vars
  <2>1. UNCHANGED <<version, Lists!store, walk>>
    BY <1>5 DEF Lists!vars
  <2>2. UNCHANGED <<version, dialogs, tombstones, requests, messages, events>>
        /\ \A kind \in Lists!Kinds : Lists!Listing(kind)' = Lists!Listing(kind)
    BY <2>1, StoreStays
  <2>3. Lists!TypeOK' /\ Lists!TypeOK
    BY <2>1, <2>2 DEF PageInv, Lists!TypeOK
  <2>4. CASE walk = None
    BY <2>1, <2>3, <2>4 DEF PageInv, WalkInv
  <2>5. CASE walk # None
    <3>1. PICK kind \in Lists!Kinds : walk.kind = kind
      BY <2>5, WalkHas
    <3>2. PageIds = Lists!IdsOf(Lists!Listing(kind))
          /\ PageIds' = Lists!IdsOf(Lists!Listing(kind)')
      BY <2>1, <3>1 DEF PageIds, Lists!IdsOf
    <3>3. PageIds' = PageIds
      BY <2>2, <3>2
    <3>4. CursorInv /\ VersionedInv /\ GrowingInv /\ BackwardInv
          /\ (walk.kind = "attempts" => requests # <<>>)
      BY <2>5 DEF PageInv, WalkInv
    <3>5. CursorInv' /\ VersionedInv' /\ GrowingInv' /\ BackwardInv'
      BY <2>1, <2>2, <3>3, <3>4
      DEF CursorInv, VersionedInv, GrowingInv, BackwardInv, Lists!FirstCursor
    <3> QED  BY <2>1, <2>2, <2>3, <3>4, <3>5 DEF PageInv, WalkInv
  <2> QED  BY <2>4, <2>5
<1> QED  BY <1>1, <1>2, <1>3, <1>4, <1>5 DEF Lists!Next

\* The beginning of a sequence is a prefix of it.
LEMMA StartsIsPrefix ==
  ASSUME NEW S, NEW p \in Seq(S), NEW q \in Seq(S), Starts(p, q)
  PROVE  Lists!IsPrefix(p, q)
<1>1. /\ Len(p) \in Nat /\ Len(q) \in Nat /\ Len(p) <= Len(q)
      /\ \A i \in 1..Len(p) : p[i] = q[i]
  BY DEF Starts
<1> DEFINE a == SubSeq(p, 1, Len(p))
<1> DEFINE b == SubSeq(q, 1, Len(p))
<1>2. /\ a \in Seq(S) /\ Len(a) = Len(p) /\ \A j \in 1..Len(p) : a[j] = p[j]
  BY <1>1
<1>3. /\ b \in Seq(S) /\ Len(b) = Len(p) /\ \A j \in 1..Len(p) : b[j] = q[j]
  BY <1>1
<1> HIDE DEF a, b
<1>4. a = b
  BY <1>1, <1>2, <1>3, SameSequence
<1> QED  BY <1>1, <1>4 DEF Lists!IsPrefix, a, b

\* A walk that came to its end has the list.
LEMMA PageInvExact ==
  ASSUME Lists!PagesAssumption, PageInv PROVE Lists!PageIsExact
<1>1. Lists!TypeOK
  BY DEF PageInv
<1>2. Lists!WalkIsExact
  <2> SUFFICES ASSUME walk # None, walk.done
               PROVE  /\ Lists!IsPrefix(walk.start, walk.got)
                      /\ walk.kind \in {"history", "events"} \/ walk.got = walk.start
                      /\ Lists!IsInjective(walk.got)
    BY DEF Lists!WalkIsExact
  <2>1. VersionedInv /\ GrowingInv /\ BackwardInv
    BY DEF PageInv, WalkInv
  <2>2. /\ walk.kind \in Lists!Kinds /\ walk.got \in Seq(IdSet) /\ walk.start \in Seq(IdSet)
        /\ Len(walk.got) \in Nat /\ Len(walk.start) \in Nat
    BY WalkHas
  <2>3. CASE walk.kind \in {"history", "events"}
    <3>1. /\ Starts(walk.got, PageIds) /\ Starts(walk.start, PageIds)
          /\ Len(walk.start) <= Len(walk.got)
      BY <2>1, <2>3 DEF GrowingInv
    <3>2. PageIds \in Seq(IdSet) /\ Lists!IsInjective(PageIds)
      BY <1>1, <2>2, ListingIs, IdsAre DEF PageIds
    <3>3. Starts(walk.start, walk.got)
      BY <2>2, <3>1, <3>2 DEF Starts
    <3>4. Lists!IsPrefix(walk.start, walk.got)
      BY <2>2, <3>3, StartsIsPrefix
    <3>5. Lists!IsInjective(walk.got)
      <4>1. DOMAIN walk.got = 1..Len(walk.got) /\ DOMAIN PageIds = 1..Len(PageIds)
            /\ Len(PageIds) \in Nat /\ Len(walk.got) <= Len(PageIds)
        BY <2>2, <3>1, <3>2 DEF Starts
      <4>2. \A i \in 1..Len(walk.got) : walk.got[i] = PageIds[i] /\ i \in 1..Len(PageIds)
        BY <2>2, <3>1, <4>1 DEF Starts
      <4> QED  BY <3>2, <4>1, <4>2 DEF Lists!IsInjective
    <3> QED  BY <2>3, <3>4, <3>5
  <2>4. CASE walk.kind \notin {"history", "events"}
    <3>1. walk.got = walk.start
      BY <2>1, <2>2, <2>4 DEF VersionedInv, BackwardInv, Lists!Kinds
    <3>2. Lists!IsPrefix(walk.start, walk.got)
      BY <2>2, <3>1, StartsItself, StartsIsPrefix
    <3>3. Lists!IsInjective(walk.got)
      <4>1. CASE walk.kind = "latest"
        <5>1. \A i \in 1..Len(walk.got) : walk.got[i] = Len(walk.got) + 1 - i
          BY <2>1, <3>1, <4>1 DEF BackwardInv
        <5>2. DOMAIN walk.got = 1..Len(walk.got)
          BY <2>2
        <5> QED  BY <2>2, <5>1, <5>2 DEF Lists!IsInjective
      <4> QED  BY <2>1, <2>2, <2>4, <3>1, <4>1 DEF VersionedInv, Lists!Kinds
    <3> QED  BY <3>1, <3>2, <3>3
  <2> QED  BY <2>3, <2>4
<1> QED  BY <1>1, <1>2 DEF Lists!PageIsExact

\* A walk by sequence numbers is given up only when its dialog is deleted.
LEMMA PageStepSurvives ==
  ASSUME Lists!PagesAssumption, PageInv, [Lists!Next]_(Lists!vars)
  PROVE  [walk # None /\ walk.kind \in {"latest", "events"} /\ walk' = None
            => walk.done \/ Lists!Hidden(Home)]_(Lists!vars)
<1> SUFFICES ASSUME walk # None, walk.kind \in {"latest", "events"}, walk' = None,
                    ~walk.done, ~Lists!Hidden(Home), Lists!Next
             PROVE  FALSE
  OBVIOUS
<1>1. CASE Lists!Commit
  BY <1>1, CommitGrows DEF PageInv, Grown
<1>2. CASE \E kind \in Lists!Kinds : Lists!Begin(kind)
  BY <1>2 DEF Lists!Begin
<1>3. CASE Lists!Fetch
  <2>1. Lists!Visible(walk.kind) /\ Lists!CursorIsGood(walk)
    BY DEF Lists!Visible, Lists!CursorIsGood, Lists!ByOffset
  <2>2. Answered(Lists!Page(walk.kind, walk.at), Lists!Rest(walk.kind, walk.at))
    BY <1>3, <2>1, FetchIs
  <2>3. walk' \in Lists!Walks
    BY <1>3, <2>1, <2>2, AnsweredKeeps DEF Lists!Fetch
  <2> QED  BY <2>3 DEF Lists!PagesAssumption
<1>4. CASE Lists!Forget
  BY <1>4 DEF Lists!Forget
<1> QED  BY <1>1, <1>2, <1>3, <1>4 DEF Lists!Next

\* The lists are read in their own part, and nothing of them moves elsewhere.
LEMMA ListPart == Spec => Lists!Init /\ [][Lists!Next]_(Lists!vars)
<1>1. Init => Lists!Init
  BY DEF Init
<1>2. [Next]_vars => [Lists!Next]_(Lists!vars)
  BY DEF Next, vars, CommandStep, FileStep, ListStep, ReplicaStep, listVars, Lists!vars,
     Lists!store
<1> QED  BY <1>1, <1>2, PTL DEF Spec

\* PageInv is an invariant of the lists.
THEOREM PageInvariance == Spec => []PageInv
<1>1. Lists!PagesAssumption
  BY StorageAssumption
<1>2. Lists!Init => PageInv
  BY <1>1, PageInit
<1>3. PageInv /\ [Lists!Next]_(Lists!vars) => PageInv'
  BY <1>1, PageStepKeeps
<1> QED  BY <1>2, <1>3, ListPart, PTL

\* The pages of a list, read in transactions of their own between which anything may be
\* committed, are the list as it was when the walk began, each row once; only the history and
\* the events may hold more at their end; and a walk back through the history, or through the
\* events, ends early only when the dialog is deleted (Dialogs, requests,
\* Attempts, History, HistoryLatest and AttemptEvents of pages.go, and the cursors they take).
THEOREM PagesExact == Spec => PagesAreExact
<1>1. Lists!PagesAssumption
  BY StorageAssumption
<1>2. PageInv => (part = "lists" => Lists!PageIsExact)
  BY <1>1, PageInvExact
<1>3. PageInv /\ [Lists!Next]_(Lists!vars) =>
      [walk # None /\ walk.kind \in {"latest", "events"} /\ walk' = None
         => walk.done \/ Lists!Hidden(Home)]_(Lists!vars)
  BY <1>1, PageStepSurvives
<1>4. Spec => Lists!LatestSurvives
  BY <1>3, ListPart, PageInvariance, PTL DEF Lists!LatestSurvives
<1> QED  BY <1>2, <1>4, PageInvariance, PTL DEF PagesAreExact

-----------------------------------------------------------------------------
\* The export of a dialog.

\* No two records of a sequence have the same type and id.
Apart(r, q) == ~(r.type = q.type /\ r.id = q.id)
Distinct(s) == \A i, j \in 1..Len(s) : i # j => Apart(s[i], s[j])

\* Two sequences put together.
LEMMA JoinedIs ==
  ASSUME NEW S, NEW s \in Seq(S), NEW t \in Seq(S)
  PROVE  /\ s \o t \in Seq(S) /\ Len(s \o t) = Len(s) + Len(t)
         /\ \A i \in 1..Len(s) : (s \o t)[i] = s[i]
         /\ \A i \in 1..Len(t) : (s \o t)[Len(s) + i] = t[i]
OBVIOUS

\* Every place of two sequences put together is one of either.
LEMMA JoinedPlaces ==
  ASSUME NEW S, NEW s \in Seq(S), NEW t \in Seq(S), NEW i \in 1..Len(s \o t)
  PROVE  \/ i \in 1..Len(s) /\ (s \o t)[i] = s[i]
         \/ i - Len(s) \in 1..Len(t) /\ (s \o t)[i] = t[i - Len(s)]
<1>1. Len(s) \in Nat /\ Len(t) \in Nat /\ Len(s \o t) = Len(s) + Len(t)
  BY Joined
<1>2. CASE i <= Len(s)
  BY <1>1, <1>2, JoinedIs
<1>3. CASE i > Len(s)
  <2>1. i - Len(s) \in 1..Len(t) /\ Len(s) + (i - Len(s)) = i
    BY <1>1, <1>3
  <2> QED  BY <2>1, JoinedIs
<1> QED  BY <1>1, <1>2, <1>3

\* They have the elements of both.
LEMMA JoinedElements ==
  ASSUME NEW S, NEW s \in Seq(S), NEW t \in Seq(S)
  PROVE  Elements(s \o t) = Elements(s) \cup Elements(t)
<1>1. Len(s) \in Nat /\ Len(t) \in Nat /\ Len(s \o t) = Len(s) + Len(t)
  BY Joined
<1>2. ASSUME NEW i \in 1..Len(s \o t) PROVE (s \o t)[i] \in Elements(s) \cup Elements(t)
  BY JoinedPlaces DEF Elements
<1>3. ASSUME NEW i \in 1..Len(s) PROVE s[i] \in Elements(s \o t)
  <2>1. i \in 1..Len(s \o t) /\ (s \o t)[i] = s[i]
    BY <1>1, JoinedIs
  <2> QED  BY <2>1 DEF Elements
<1>4. ASSUME NEW i \in 1..Len(t) PROVE t[i] \in Elements(s \o t)
  <2>1. Len(s) + i \in 1..Len(s \o t) /\ (s \o t)[Len(s) + i] = t[i]
    BY <1>1, JoinedIs
  <2> QED  BY <2>1 DEF Elements
<1> DEFINE u == s \o t
<1> HIDE DEF u
<1>5. \A i \in 1..Len(u) : u[i] \in Elements(s) \cup Elements(t)
  BY <1>2 DEF u
<1>6. \A i \in 1..Len(s) : s[i] \in Elements(u)
  BY <1>3 DEF u
<1>7. \A i \in 1..Len(t) : t[i] \in Elements(u)
  BY <1>4 DEF u
<1>8. Elements(u) = Elements(s) \cup Elements(t)
  BY <1>5, <1>6, <1>7 DEF Elements
<1> QED  BY <1>8 DEF u

\* They are distinct when each is and no element of one is in the other.
LEMMA JoinedDistinct ==
  ASSUME NEW S, NEW s \in Seq(S), NEW t \in Seq(S), Distinct(s), Distinct(t),
         \A r \in Elements(s) : \A q \in Elements(t) : Apart(r, q)
  PROVE  Distinct(s \o t)
<1>1. Len(s) \in Nat /\ Len(t) \in Nat /\ Len(s \o t) = Len(s) + Len(t)
  BY Joined
<1>2. \A i \in 1..Len(s), j \in 1..Len(t) : Apart(s[i], t[j]) /\ Apart(t[j], s[i])
  BY DEF Elements, Apart
<1> SUFFICES ASSUME NEW i \in 1..Len(s \o t), NEW j \in 1..Len(s \o t), i # j
             PROVE  Apart((s \o t)[i], (s \o t)[j])
  BY DEF Distinct
<1>3. \/ i \in 1..Len(s) /\ (s \o t)[i] = s[i]
      \/ i - Len(s) \in 1..Len(t) /\ (s \o t)[i] = t[i - Len(s)]
  BY JoinedPlaces
<1>4. \/ j \in 1..Len(s) /\ (s \o t)[j] = s[j]
      \/ j - Len(s) \in 1..Len(t) /\ (s \o t)[j] = t[j - Len(s)]
  BY JoinedPlaces
<1>5. CASE i \in 1..Len(s) /\ (s \o t)[i] = s[i] /\ j \in 1..Len(s) /\ (s \o t)[j] = s[j]
  BY <1>5 DEF Distinct
<1>6. CASE /\ i \in 1..Len(s) /\ (s \o t)[i] = s[i]
           /\ j - Len(s) \in 1..Len(t) /\ (s \o t)[j] = t[j - Len(s)]
  BY <1>2, <1>6
<1>7. CASE /\ i - Len(s) \in 1..Len(t) /\ (s \o t)[i] = t[i - Len(s)]
           /\ j \in 1..Len(s) /\ (s \o t)[j] = s[j]
  BY <1>2, <1>7
<1>8. CASE /\ i - Len(s) \in 1..Len(t) /\ (s \o t)[i] = t[i - Len(s)]
           /\ j - Len(s) \in 1..Len(t) /\ (s \o t)[j] = t[j - Len(s)]
  <2>1. i - Len(s) # j - Len(s)
    BY <1>1
  <2> QED  BY <1>8, <2>1 DEF Distinct
<1> QED  BY <1>3, <1>4, <1>5, <1>6, <1>7, <1>8

\* A sequence of a smaller set.
LEMMA SeqWidens ==
  ASSUME NEW S, NEW T, S \subseteq T, NEW s \in Seq(S)
  PROVE  s \in Seq(T)
OBVIOUS

\* A sequence whose elements are in a set.
LEMMA SeqOfElements ==
  ASSUME NEW S, NEW T, NEW s \in Seq(S), Elements(s) \subseteq T
  PROVE  s \in Seq(T)
<1>1. Len(s) \in Nat /\ \A i \in 1..Len(s) : s[i] \in T
  BY DEF Elements
<1>2. s = [i \in 1..Len(s) |-> s[i]]
  OBVIOUS
<1> QED  BY <1>1, <1>2

\* The same selection, in the modules that make one.
LEMMA SameSelect ==
  ASSUME NEW s, NEW places
  PROVE  Replica!Select(s, places) = Lists!Select(s, places)
BY DEF Replica!Select, Lists!Select

\* Every element at one of the places is selected.
LEMMA SelectAll ==
  ASSUME NEW S, NEW s \in Seq(S), NEW places
  PROVE  \A i \in 1..Len(s) : i \in places => s[i] \in Elements(Lists!Select(s, places))
<1>1. Len(s) \in Nat /\ \A i \in 1..Len(s) : s[i] \in S
  OBVIOUS
<1>s. PICK f : Staged(f, S, s, places)
  BY SelectStages
<1>2. /\ Lists!Select(s, places) = f[Len(s)] /\ f[0] = <<>>
      /\ \A i \in 0..Len(s) : f[i] \in Seq(S)
      /\ \A i \in 1..Len(s) :
           f[i] = IF i \in places THEN Append(f[i - 1], s[i]) ELSE f[i - 1]
  BY <1>s DEF Staged
<1> DEFINE G == {k \in 0..Len(s) : \A i \in 1..k : i \in places => s[i] \in Elements(f[k])}
<1>3. 0 \in G
  BY <1>1
<1>4. ASSUME NEW k \in 0..(Len(s) - 1), k \in G PROVE k + 1 \in G
  <2>1. k + 1 \in 1..Len(s) /\ k + 1 \in 0..Len(s) /\ (k + 1) - 1 = k /\ k \in 0..Len(s)
    BY <1>1
  <2>2. f[k + 1] = IF k + 1 \in places THEN Append(f[k], s[k + 1]) ELSE f[k]
    BY <1>2, <2>1
  <2>3. f[k] \in Seq(S) /\ s[k + 1] \in S
    BY <1>1, <1>2, <2>1
  <2>4. CASE k + 1 \notin places
    <3>1. f[k + 1] = f[k] /\ \A i \in 1..(k + 1) : i \in places => i \in 1..k
      BY <2>1, <2>2, <2>4
    <3> QED  BY <1>4, <2>1, <3>1
  <2>5. CASE k + 1 \in places
    <3> DEFINE p == Append(f[k], s[k + 1])
    <3>1. /\ p \in Seq(S) /\ Len(p) = Len(f[k]) + 1 /\ p[Len(f[k]) + 1] = s[k + 1]
          /\ \A j \in 1..Len(f[k]) : p[j] = f[k][j]
      BY <2>3, OneMore
    <3>2. f[k + 1] = p
      BY <2>2, <2>5
    <3> HIDE DEF p
    <3>3. Elements(f[k]) \subseteq Elements(p) /\ s[k + 1] \in Elements(p)
      <4>1. Len(f[k]) \in Nat
        BY <2>3
      <4>2. \A j \in 1..Len(f[k]) : j \in 1..Len(p) /\ p[j] = f[k][j]
        BY <3>1, <4>1
      <4>3. Len(p) \in 1..Len(p) /\ p[Len(p)] = s[k + 1]
        BY <3>1, <4>1
      <4> QED  BY <4>2, <4>3 DEF Elements
    <3>4. ASSUME NEW i \in 1..(k + 1), i \in places PROVE s[i] \in Elements(p)
      <4>1. CASE i = k + 1
        BY <3>3, <4>1
      <4>2. CASE i # k + 1
        <5>1. i \in 1..k
          BY <2>1, <4>2
        <5> QED  BY <1>4, <3>3, <3>4, <5>1
      <4> QED  BY <4>1, <4>2
    <3> QED  BY <2>1, <3>2, <3>4
  <2> QED  BY <2>4, <2>5
<1>5. Len(s) \in G
  <2> HIDE DEF G
  <2>1. 0..Len(s) \subseteq G
    BY <1>1, <1>3, <1>4, Reaches
  <2> QED  BY <1>1, <2>1
<1> QED  BY <1>2, <1>5

\* What is selected of distinct records: those at the places, distinct.
LEMMA SelectDistinct ==
  ASSUME NEW S, NEW s \in Seq(S), NEW places, Distinct(s)
  PROVE  /\ Replica!Select(s, places) \in Seq(S)
         /\ Distinct(Replica!Select(s, places))
         /\ Elements(Replica!Select(s, places)) = {s[i] : i \in {k \in 1..Len(s) : k \in places}}
<1> DEFINE t == Lists!Select(s, places)
<1>1. t \in Seq(S) /\ \E h : /\ \A j \in 1..Len(t) : h[j] \in 1..Len(s) /\ h[j] \in places /\ t[j] = s[h[j]]
                             /\ \A j, k \in 1..Len(t) : j < k => h[j] < h[k]
  BY SelectPlaces
<1>2. \A i \in 1..Len(s) : i \in places => s[i] \in Elements(t)
  BY SelectAll
<1> HIDE DEF t
<1>3. PICK h : /\ \A j \in 1..Len(t) : h[j] \in 1..Len(s) /\ h[j] \in places /\ t[j] = s[h[j]]
               /\ \A j, k \in 1..Len(t) : j < k => h[j] < h[k]
  BY <1>1
<1>4. Len(t) \in Nat /\ Len(s) \in Nat
  BY <1>1
<1>5. Distinct(t)
  <2> SUFFICES ASSUME NEW i \in 1..Len(t), NEW j \in 1..Len(t), i # j PROVE Apart(t[i], t[j])
    BY DEF Distinct
  <2>1. h[i] \in 1..Len(s) /\ h[j] \in 1..Len(s) /\ t[i] = s[h[i]] /\ t[j] = s[h[j]]
    BY <1>3
  <2>2. h[i] # h[j]
    <3>1. i < j \/ j < i
      BY <1>4
    <3>2. h[i] < h[j] \/ h[j] < h[i]
      BY <1>3, <3>1
    <3> QED  BY <1>4, <2>1, <3>2
  <2> QED  BY <2>1, <2>2 DEF Distinct
<1>6. Elements(t) = {s[i] : i \in {k \in 1..Len(s) : k \in places}}
  BY <1>2, <1>3 DEF Elements
<1> QED  BY <1>1, <1>5, <1>6, SameSelect DEF t

\* A sequence with an element put in at a place, place by place.
Inserted(t, s, i, e, S) ==
  /\ t \in Seq(S) /\ Len(t) = Len(s) + 1
  /\ \A j \in 1..(Len(s) + 1) : t[j] = IF j < i THEN s[j] ELSE IF j = i THEN e ELSE s[j - 1]

\* That is what InsertAt makes of it.
LEMMA InsertPlaces ==
  ASSUME NEW S, NEW s \in Seq(S), NEW e \in S, NEW i \in 1..(Len(s) + 1)
  PROVE  Inserted(Lists!InsertAt(s, i, e), s, i, e, S)
<1> DEFINE n == Len(s)
<1> DEFINE a == SubSeq(s, 1, i - 1)
<1> DEFINE b == SubSeq(s, i, n)
<1> DEFINE t == (a \o <<e>>) \o b
<1>1. n \in Nat /\ i \in 1..(n + 1) /\ \A j \in 1..n : s[j] \in S
  OBVIOUS
<1>2. /\ a \in Seq(S) /\ Len(a) = i - 1 /\ \A j \in 1..(i - 1) : a[j] = s[j]
  <2>1. 1 \in 1..(n + 1) /\ i - 1 \in 0..n /\ 1 <= (i - 1) + 1 /\ (i - 1) - 1 + 1 = i - 1
    BY <1>1
  <2>2. /\ a \in Seq(S) /\ Len(a) = (i - 1) - 1 + 1
        /\ \A j \in 1..((i - 1) - 1 + 1) : a[j] = s[1 + j - 1]
    BY <2>1, PartOf
  <2>3. \A j \in 1..(i - 1) : 1 + j - 1 = j
    BY <1>1
  <2> QED  BY <2>1, <2>2, <2>3
<1>3. /\ b \in Seq(S) /\ Len(b) = n - i + 1 /\ \A j \in 1..(n - i + 1) : b[j] = s[i + j - 1]
  <2>1. n \in 0..n /\ i <= n + 1
    BY <1>1
  <2> QED  BY <2>1, PartOf
<1>4. Lists!InsertAt(s, i, e) = t
  BY DEF Lists!InsertAt
<1> DEFINE u == a \o <<e>>
<1>5. /\ u \in Seq(S) /\ Len(u) = i /\ u[i] = e /\ \A j \in 1..(i - 1) : u[j] = s[j]
  <2> HIDE DEF a
  <2>1. <<e>> \in Seq(S) /\ Len(<<e>>) = 1 /\ <<e>>[1] = e
    OBVIOUS
  <2>2. u \in Seq(S) /\ Len(u) = (i - 1) + 1
    BY <1>2, <2>1, Joined
  <2>3. \A j \in 1..((i - 1) + 1) : u[j] = IF j <= i - 1 THEN a[j] ELSE <<e>>[j - (i - 1)]
    BY <1>1, <1>2, <2>1
  <2>4. i \in 1..((i - 1) + 1) /\ ~(i <= i - 1) /\ i - (i - 1) = 1 /\ (i - 1) + 1 = i
    BY <1>1
  <2>5. u[i] = e
    BY <2>1, <2>3, <2>4
  <2>6. \A j \in 1..(i - 1) : j \in 1..((i - 1) + 1) /\ j <= i - 1
    BY <1>1
  <2> QED  BY <1>2, <2>2, <2>3, <2>4, <2>5, <2>6
<1> HIDE DEF a, b, u
<1>6. /\ t \in Seq(S) /\ Len(t) = n + 1
      /\ \A j \in 1..(n + 1) : t[j] = IF j <= i THEN u[j] ELSE b[j - i]
  <2>1. t = u \o b
    BY DEF u
  <2>2. t \in Seq(S) /\ Len(t) = i + (n - i + 1)
    <3>1. u \o b \in Seq(S) /\ Len(u \o b) = Len(u) + Len(b)
      BY <1>3, <1>5, Joined
    <3> QED  BY <1>3, <1>5, <2>1, <3>1
  <2>3. \A j \in 1..(i + (n - i + 1)) : t[j] = IF j <= i THEN u[j] ELSE b[j - i]
    BY <1>1, <1>3, <1>5, <2>1
  <2>4. i + (n - i + 1) = n + 1
    BY <1>1
  <2> QED  BY <2>2, <2>3, <2>4
<1> HIDE DEF t
<1>7. \A j \in 1..(n + 1) : t[j] = IF j < i THEN s[j] ELSE IF j = i THEN e ELSE s[j - 1]
  <2> TAKE j \in 1..(n + 1)
  <2>1. CASE j < i
    <3>1. j \in 1..(i - 1) /\ j <= i
      BY <1>1, <2>1
    <3> QED  BY <1>5, <1>6, <2>1, <3>1
  <2>2. CASE j = i
    <3>1. ~(j < i) /\ j <= i
      BY <1>1, <2>2
    <3> QED  BY <1>5, <1>6, <2>2, <3>1
  <2>3. CASE j > i
    <3>1. ~(j < i) /\ ~(j <= i) /\ j # i /\ j - i \in 1..(n - i + 1) /\ i + (j - i) - 1 = j - 1
      BY <1>1, <2>3
    <3> QED  BY <1>3, <1>6, <3>1
  <2>4. j < i \/ j = i \/ j > i
    BY <1>1
  <2> QED  BY <2>1, <2>2, <2>3, <2>4
<1>8. Inserted(t, s, i, e, S)
  BY <1>6, <1>7 DEF Inserted, n
<1> QED  BY <1>4, <1>8

\* The numbers of commands, with one more put in at any place.
LEMMA NumbersInserted ==
  ASSUME NEW s \in Seq(Nat), Replica!IsInjective(s), Replica!Range(s) = 1..Len(s),
         NEW i \in 1..(Len(s) + 1)
  PROVE  LET t == Replica!InsertAt(s, i, Len(s) + 1)
         IN /\ t \in Seq(Nat) /\ Len(t) = Len(s) + 1
            /\ Replica!IsInjective(t) /\ Replica!Range(t) = 1..Len(t)
<1> DEFINE n == Len(s)
<1> DEFINE t == Lists!InsertAt(s, i, n + 1)
<1>0. n \in Nat /\ n + 1 \in Nat
  OBVIOUS
<1>1. /\ t \in Seq(Nat) /\ Len(t) = n + 1
      /\ \A j \in 1..(n + 1) : t[j] = IF j < i THEN s[j] ELSE IF j = i THEN n + 1 ELSE s[j - 1]
  <2>0. PICK e, S : e = n + 1 /\ S = Nat
    OBVIOUS
  <2>1. e \in S /\ s \in Seq(S) /\ i \in 1..(Len(s) + 1)
    BY <1>0, <2>0
  <2>2. Inserted(Lists!InsertAt(s, i, e), s, i, e, S)
    BY <2>1, InsertPlaces
  <2>3. Inserted(t, s, i, n + 1, Nat)
    BY <2>0, <2>2
  <2> QED  BY <2>3 DEF Inserted
<1>2. Replica!InsertAt(s, i, Len(s) + 1) = t
  BY DEF Replica!InsertAt, Lists!InsertAt
<1>3. i \in 1..(n + 1) /\ DOMAIN s = 1..n /\ DOMAIN t = 1..(n + 1)
  <2> HIDE DEF t
  <2> QED  BY <1>1
<1>4. \A j \in 1..n : s[j] \in 1..n
  BY <1>3 DEF Replica!Range
<1>5. \A j, k \in 1..n : s[j] = s[k] => j = k
  BY <1>3 DEF Replica!IsInjective
<1>6. \A v \in 1..n : \E j \in 1..n : s[j] = v
  BY <1>3 DEF Replica!Range
<1> HIDE DEF t, n
<1> DEFINE from(j) == IF j < i THEN j ELSE j - 1
<1>7. \A j \in 1..(n + 1) : j # i => from(j) \in 1..n /\ t[j] = s[from(j)]
  <2> TAKE j \in 1..(n + 1)
  <2> HAVE j # i
  <2>1. from(j) \in 1..n
    BY <1>0, <1>3
  <2>2. t[j] = s[from(j)]
    BY <1>1
  <2> QED  BY <2>1, <2>2
<1>8. t[i] = n + 1
  BY <1>0, <1>1, <1>3
<1>9. \A j, k \in 1..(n + 1) : j # i /\ k # i /\ from(j) = from(k) => j = k
  BY <1>0, <1>3
<1>10. \A v \in 1..n : \E j \in 1..(n + 1) : j # i /\ from(j) = v
  <2> TAKE v \in 1..n
  <2>1. CASE v < i
    BY <1>0, <2>1
  <2>2. CASE ~(v < i)
    <3>1. v + 1 \in 1..(n + 1) /\ v + 1 # i /\ ~(v + 1 < i) /\ (v + 1) - 1 = v
      BY <1>0, <1>3, <2>2
    <3> QED  BY <3>1
  <2> QED  BY <2>1, <2>2
<1> HIDE DEF from
<1>11. \A j \in 1..(n + 1) : j # i => t[j] \in 1..n
  BY <1>4, <1>7
<1>12. n + 1 \notin 1..n
  BY <1>0
<1>13. Replica!IsInjective(t)
  <2> SUFFICES ASSUME NEW j \in 1..(n + 1), NEW k \in 1..(n + 1), t[j] = t[k] PROVE j = k
    BY <1>3 DEF Replica!IsInjective
  <2>1. CASE j = i
    BY <1>8, <1>11, <1>12, <2>1
  <2>2. CASE k = i
    BY <1>8, <1>11, <1>12, <2>2
  <2>3. CASE j # i /\ k # i
    <3>1. s[from(j)] = s[from(k)] /\ from(j) \in 1..n /\ from(k) \in 1..n
      BY <1>7, <2>3
    <3> QED  BY <1>5, <1>9, <2>3, <3>1
  <2> QED  BY <2>1, <2>2, <2>3
<1>14. Replica!Range(t) = 1..(n + 1)
  <2>1. ASSUME NEW j \in 1..(n + 1) PROVE t[j] \in 1..(n + 1)
    <3>1. j = i => t[j] \in 1..(n + 1)
      BY <1>3, <1>8, <1>0
    <3>2. j # i => t[j] \in 1..n
      BY <1>11
    <3> QED  BY <1>0, <3>1, <3>2
  <2>2. ASSUME NEW v \in 1..(n + 1) PROVE \E j \in 1..(n + 1) : t[j] = v
    <3>1. CASE v = n + 1
      BY <1>3, <1>8, <3>1
    <3>2. CASE v # n + 1
      <4>1. v \in 1..n
        BY <1>0, <3>2
      <4>2. PICK k \in 1..n : s[k] = v
        BY <1>6, <4>1
      <4>3. PICK j \in 1..(n + 1) : j # i /\ from(j) = k
        BY <1>10
      <4> QED  BY <1>7, <4>2, <4>3
    <3> QED  BY <3>1, <3>2
  <2> QED  BY <1>3, <2>1, <2>2 DEF Replica!Range
<1> QED  BY <1>1, <1>2, <1>13, <1>14 DEF t, n

\* What a text leaves: its record, and its pieces.
TextRecord(t) == Replica!Record("text", t, 1, texts[t])
ChunkRecord(t, i) == Replica!Record("chunk", <<t, i>>, 1, i)

\* How far the texts have come: f[t] has the records of the first t.
Texts(f, n) ==
  f = [t \in 0..n |-> IF t = 0 THEN <<>>
                      ELSE Append(f[t - 1], TextRecord(t)) \o Replica!ChunkRecords(t)]

\* There is such a function.
LEMMA TextsExist ==
  ASSUME NEW n \in Nat
  PROVE  \E f : Texts(f, n)
<1> SUFFICES ASSUME ~\E f : Texts(f, n) PROVE FALSE
  OBVIOUS
<1> DEFINE Bad == {k \in Nat : ~\E f : Texts(f, k)}
<1>1. PICK k \in Bad : \A j \in Bad : k <= j
  BY LeastNat
<1>2. k # 0
  <2> DEFINE f == [i \in 0..0 |-> <<>>]
  <2>1. Texts(f, 0)
    BY DEF Texts
  <2> HIDE DEF f
  <2> QED  BY <1>1, <2>1
<1>3. k - 1 \in Nat /\ k - 1 \notin Bad
  BY <1>1, <1>2
<1>4. PICK g : Texts(g, k - 1)
  BY <1>3
<1> DEFINE More(h, t) == Append(h[t - 1], TextRecord(t)) \o Replica!ChunkRecords(t)
<1> DEFINE f == [t \in 0..k |-> IF t < k THEN g[t] ELSE More(g, k)]
<1>5. \A t \in 0..(k - 1) : g[t] = IF t = 0 THEN <<>> ELSE More(g, t)
  BY <1>4 DEF Texts
<1>6. \A t \in 0..k : f[t] = IF t = 0 THEN <<>> ELSE More(f, t)
  <2> TAKE t \in 0..k
  <2>1. CASE t < k
    <3>1. t \in 0..(k - 1) /\ (t # 0 => t - 1 \in 0..k /\ t - 1 < k)
      BY <1>1, <2>1
    <3>2. f[t] = g[t] /\ (t # 0 => f[t - 1] = g[t - 1])
      BY <2>1, <3>1
    <3> HIDE DEF f
    <3> QED  BY <1>5, <3>1, <3>2
  <2>2. CASE t = k
    <3>1. k - 1 \in 0..k /\ k - 1 < k /\ k \in 0..k
      BY <1>1, <1>2
    <3>2. f[k - 1] = g[k - 1]
      BY <3>1
    <3>3. f[k] = More(g, k)
      BY <3>1
    <3> HIDE DEF f
    <3> QED  BY <1>2, <2>2, <3>2, <3>3
  <2>3. t < k \/ t = k
    BY <1>1
  <2> QED  BY <2>1, <2>2, <2>3
<1>7. Texts(f, k)
  <2>1. f = [t \in 0..k |-> f[t]]
    OBVIOUS
  <2> HIDE DEF f
  <2> QED  BY <1>6, <2>1 DEF Texts
<1> HIDE DEF f
<1> QED  BY <1>1, <1>7

\* TextRecords is the last value of such a function.
LEMMA TextRecordsAre ==
  ASSUME Len(texts) \in Nat
  PROVE  \E f : Texts(f, Len(texts)) /\ Replica!TextRecords = f[Len(texts)]
<1> DEFINE f == CHOOSE f : Texts(f, Len(texts))
<1>1. Texts(f, Len(texts))
  BY TextsExist
<1>2. Replica!TextRecords = f[Len(texts)]
  BY DEF Replica!TextRecords, Texts, TextRecord
<1> QED  BY <1>1, <1>2

-----------------------------------------------------------------------------
\* What may be sealed of a dialog: what it holds, and manifests of the assets it had.
EntryRecord(m) ==
  Replica!Record("entry", m, 1,
                 [role |-> entries[m].role, author |-> Replica!AuthorEvent(m),
                  generation |-> Replica!SourceGeneration(m)])
FactRecord(i) == Replica!Record("fact", i, 1, facts[i])
ReceiptRecord(n) == Replica!Record("receipt", n, 1, n)
Manifest(n, v) == Replica!Record("assets", n, v, n)

TextsSealed(k) ==
  {TextRecord(t) : t \in 1..k} \cup {ChunkRecord(t, i) : t \in 1..k, i \in Nat}

Genuine ==
  {EntryRecord(m) : m \in 1..Len(entries)} \cup {FactRecord(i) : i \in 1..Len(facts)}
    \cup {ReceiptRecord(n) : n \in 1..Len(commands)} \cup TextsSealed(Len(texts))
    \cup {Manifest(n, v) : n \in 0..assets, v \in Nat}

\* What a dialog holds: events are of messages that are there, and a message that waits
\* for its attempt has one.
HistoryInv ==
  /\ Len(entries) <= MaxMessages
  /\ \A i \in 1..Len(facts) : facts[i] <= Len(entries)
  /\ \A m \in 1..Len(entries) :
       entries[m] = [role |-> "user", attempt |-> 0] => \E i \in 1..Len(facts) : facts[i] = m
  /\ commands \in Seq(Nat) /\ texts \in Seq(Replica!TextsOrNone)

\* Its types.
DialogOK ==
  /\ entries \in Seq([role : {"user", "assistant"}, attempt : 0..1])
  /\ facts \in Seq(Nat) /\ commands \in Seq(Nat) /\ texts \in Seq(Replica!TextsOrNone)
  /\ assets \in Nat /\ Replica!Range(commands) = 1..Len(commands)
  /\ Replica!IsInjective(commands)

\* The manifests of the streams: a later one has more assets, in all of them.
AssetInv ==
  /\ \A r \in Replica!AssetRecords :
       /\ r.body \in 0..assets /\ r.revision \in 1..(r.body + 1) /\ r = Manifest(r.body, r.revision)
  /\ \A r, q \in Replica!AssetRecords : r.body <= q.body <=> r.revision <= q.revision

\* A sequence of records of some types, all apart.
Listed(s, T, S) ==
  s \in Seq(S) /\ Distinct(s) /\ \A r \in Elements(s) : r.type \in T

\* A function that numbers distinct records.
LEMMA NumberedListed ==
  ASSUME NEW S, NEW T, NEW s \in Seq(S),
         \A i \in 1..Len(s) : s[i].type \in T,
         \A i, j \in 1..Len(s) : i # j => Apart(s[i], s[j])
  PROVE  Listed(s, T, S)
BY DEF Listed, Distinct, Elements

\* Two sets of types that share none.
Separate(T, U) == \A type \in T : type \notin U

\* Two lists of different types.
LEMMA JoinedListed ==
  ASSUME NEW S, NEW s, NEW t, NEW T, NEW U, Listed(s, T, S), Listed(t, U, S), Separate(T, U)
  PROVE  Listed(s \o t, T \cup U, S)
<1>1. s \in Seq(S) /\ t \in Seq(S) /\ Distinct(s) /\ Distinct(t)
  BY DEF Listed
<1>2. Elements(s \o t) = Elements(s) \cup Elements(t)
  BY <1>1, JoinedElements
<1>3. Distinct(s \o t)
  <2>1. \A r \in Elements(s) : \A q \in Elements(t) : Apart(r, q)
    BY DEF Listed, Apart, Separate
  <2> QED  BY <1>1, <2>1, JoinedDistinct
<1>4. s \o t \in Seq(S)
  BY <1>1, Joined
<1> QED  BY <1>2, <1>3, <1>4 DEF Listed

\* A record alone.
LEMMA OneListed ==
  ASSUME NEW S, NEW x \in S, NEW T, x.type \in T
  PROVE  Listed(<<x>>, T, S) /\ Elements(<<x>>) = {x}
<1>1. <<x>> \in Seq(S) /\ Len(<<x>>) = 1 /\ <<x>>[1] = x
  OBVIOUS
<1>2. 1..1 = {1}
  OBVIOUS
<1> HIDE DEF Listed
<1> QED  BY <1>1, <1>2 DEF Listed, Distinct, Elements

\* The pieces of a text are counted by a natural number.
LEMMA ChunkCounts ==
  ASSUME Replica!ReplicaAssumption, DialogOK, NEW t \in 1..Len(texts), texts[t] # None
  PROVE  Replica!ChunkCount(texts[t]) \in Nat
<1>1. texts[t] \in Replica!TextsOrNone
  BY DEF DialogOK
<1>2. PICK n \in MessageSizes : texts[t] \in Replica!SourceChunks(n)
  BY <1>1 DEF Replica!TextsOrNone
<1>3. Replica!Sum(texts[t]) = n
  BY <1>2 DEF Replica!SourceChunks
<1>4. n \in Nat /\ ReplicaChunk \in Nat /\ ReplicaChunk > 0
  BY DEF Replica!ReplicaAssumption
<1>5. (n + ReplicaChunk - 1) \div ReplicaChunk \in Nat
  BY <1>4
<1> QED  BY <1>3, <1>5 DEF Replica!ChunkCount, Replica!CeilDiv

\* What the records of the first texts are: the texts, and the pieces of those that are kept.
HasTexts(s, k) ==
  \A t \in 1..k :
    /\ TextRecord(t) \in Elements(s)
    /\ texts[t] # None =>
         \A i \in 1..Replica!ChunkCount(texts[t]) : ChunkRecord(t, i) \in Elements(s)

TextTypes == {"text", "chunk"}

\* The records of one text.
LEMMA ChunksListed ==
  ASSUME Replica!ReplicaAssumption, DialogOK, Replica!TextsMatch, NEW t \in 1..Len(texts)
  PROVE  /\ Listed(Replica!ChunkRecords(t), {"chunk"}, {ChunkRecord(t, i) : i \in Nat})
         /\ texts[t] # None =>
              Elements(Replica!ChunkRecords(t))
                = {ChunkRecord(t, i) : i \in 1..Replica!ChunkCount(texts[t])}
<1> DEFINE S == {ChunkRecord(t, i) : i \in Nat}
<1>1. CASE texts[t] = None
  <2>1. Replica!ChunkRecords(t) = <<>>
    BY <1>1 DEF Replica!ChunkRecords
  <2>2. <<>> \in Seq(S) /\ Len(<<>>) = 0
    OBVIOUS
  <2> QED  BY <1>1, <2>1, <2>2 DEF Listed, Distinct, Elements
<1>2. CASE texts[t] # None
  <2> DEFINE n == Replica!ChunkCount(texts[t])
  <2> DEFINE s == [i \in 1..n |-> ChunkRecord(t, i)]
  <2>1. n \in Nat
    BY <1>2, ChunkCounts
  <2>2. Replica!Pieces(texts[t]) = n
    BY <1>2 DEF Replica!TextsMatch, Replica!TextMatches
  <2>3. Replica!ChunkRecords(t) = s
    BY <1>2, <2>2 DEF Replica!ChunkRecords, ChunkRecord
  <2> HIDE DEF n
  <2>4. \A i \in 1..n : s[i] = ChunkRecord(t, i)
    OBVIOUS
  <2>5. s \in Seq(S) /\ Len(s) = n
    <3>1. \A i \in 1..n : i \in Nat /\ ChunkRecord(t, i) \in S
      OBVIOUS
    <3> HIDE DEF S
    <3> QED  BY <2>1, <3>1
  <2>6. \A i \in 1..n : i \in Nat
    OBVIOUS
  <2>7. \A i : ChunkRecord(t, i).type = "chunk" /\ ChunkRecord(t, i).id = <<t, i>>
    BY DEF ChunkRecord, Replica!Record
  <2> HIDE DEF s
  <2>8. \A i \in 1..n : s[i] \in S /\ s[i].type \in {"chunk"}
    BY <2>4, <2>6, <2>7
  <2>9. \A i, j \in 1..n : i # j => Apart(s[i], s[j])
    BY <2>4, <2>7 DEF Apart
  <2> DEFINE T == {"chunk"}
  <2>a. \A i \in 1..n : s[i].type \in T
    BY <2>8
  <2> HIDE DEF S, T
  <2>10. Listed(s, T, S)
    BY <2>5, <2>9, <2>a, NumberedListed
  <2>11. Elements(s) = {ChunkRecord(t, i) : i \in 1..n}
    BY <2>4, <2>5 DEF Elements
  <2> QED  BY <2>3, <2>10, <2>11 DEF n, S, T
<1> QED  BY <1>1, <1>2

\* The texts, as far as they have come.
LEMMA TextStages ==
  ASSUME Replica!ReplicaAssumption, DialogOK, Replica!TextsMatch, NEW k \in 0..(Len(texts) - 1),
         NEW s, Listed(s, TextTypes, TextsSealed(k)), HasTexts(s, k)
  PROVE  LET p == Append(s, TextRecord(k + 1)) \o Replica!ChunkRecords(k + 1)
         IN Listed(p, TextTypes, TextsSealed(k + 1)) /\ HasTexts(p, k + 1)
<1> DEFINE S == TextsSealed(k + 1)
<1> DEFINE x == TextRecord(k + 1)
<1> DEFINE c == Replica!ChunkRecords(k + 1)
<1> DEFINE p == Append(s, x) \o c
<1>1. Len(texts) \in Nat /\ k \in Nat /\ k + 1 \in 1..Len(texts)
  BY DEF DialogOK
<1>2. TextsSealed(k) \subseteq S /\ x \in S /\ \A i \in Nat : ChunkRecord(k + 1, i) \in S
  <2>1. \A t \in 1..k : t \in 1..(k + 1)
    BY <1>1
  <2>2. k + 1 \in 1..(k + 1)
    BY <1>1
  <2> QED  BY <2>1, <2>2 DEF TextsSealed
<1>3. \A t, i : /\ TextRecord(t).type = "text" /\ TextRecord(t).id = t
                /\ ChunkRecord(t, i).type = "chunk" /\ ChunkRecord(t, i).id = <<t, i>>
  BY DEF TextRecord, ChunkRecord, Replica!Record
<1>4. s \in Seq(TextsSealed(k)) /\ Distinct(s)
  BY DEF Listed
<1>5. s \in Seq(S)
  BY <1>2, <1>4, SeqWidens
<1>6. Append(s, x) = s \o <<x>>
  <2> HIDE DEF x, S
  <2> QED  BY <1>2, <1>5
<1>7. /\ Listed(c, {"chunk"}, {ChunkRecord(k + 1, i) : i \in Nat})
      /\ texts[k + 1] # None =>
           Elements(c) = {ChunkRecord(k + 1, i) : i \in 1..Replica!ChunkCount(texts[k + 1])}
  BY <1>1, ChunksListed
<1>8. c \in Seq({ChunkRecord(k + 1, i) : i \in Nat}) /\ Distinct(c)
  BY <1>7 DEF Listed
<1>9. c \in Seq(S)
  <2>1. {ChunkRecord(k + 1, i) : i \in Nat} \subseteq S
    BY <1>2
  <2> HIDE DEF c, S
  <2> QED  BY <1>8, <2>1, SeqWidens
<1>10. \A r \in Elements(s) : \E t \in 1..k : r = TextRecord(t) \/ \E i \in Nat : r = ChunkRecord(t, i)
  <2>1. Elements(s) \subseteq TextsSealed(k)
    BY <1>4 DEF Elements
  <2> QED  BY <2>1 DEF TextsSealed
<1>11. \A r \in Elements(c) : \E i \in Nat : r = ChunkRecord(k + 1, i)
  <2>1. Elements(c) \subseteq {ChunkRecord(k + 1, i) : i \in Nat}
    <3> HIDE DEF c
    <3> QED  BY <1>8 DEF Elements
  <2> QED  BY <2>1
<1>12. /\ <<x>> \in Seq(S) /\ Distinct(<<x>>) /\ Elements(<<x>>) = {x}
  <2> DEFINE T == {"text"}
  <2>1. x.type \in T
    BY <1>3
  <2> HIDE DEF x, S, T
  <2>2. Listed(<<x>>, T, S) /\ Elements(<<x>>) = {x}
    BY <1>2, <2>1, OneListed
  <2> QED  BY <2>2 DEF Listed
<1>13. \A t \in 1..k : t # k + 1
  BY <1>1
<1>14. \A t, u, i, j : <<t, i>> = <<u, j>> => t = u
  OBVIOUS
<1> DEFINE o == <<x>>
<1> DEFINE q == s \o o
<1>15. /\ q \in Seq(S) /\ Distinct(q) /\ Elements(q) = Elements(s) \cup {x}
  <2>1. \A r \in Elements(s) : Apart(r, x)
    BY <1>3, <1>10, <1>13 DEF Apart
  <2>2. o \in Seq(S) /\ Distinct(o) /\ Elements(o) = {x}
    BY <1>12
  <2> HIDE DEF o, S, x
  <2>3. \A r \in Elements(s) : \A e \in Elements(o) : Apart(r, e)
    BY <2>1, <2>2
  <2>4. q \in Seq(S)
    BY <1>5, <2>2, Joined
  <2>5. Distinct(q)
    BY <1>4, <1>5, <2>2, <2>3, JoinedDistinct
  <2>6. Elements(q) = Elements(s) \cup Elements(o)
    BY <1>5, <2>2, JoinedElements
  <2> QED  BY <2>2, <2>4, <2>5, <2>6
<1>16. p = q \o c
  BY <1>6
<1>17. /\ p \in Seq(S) /\ Distinct(p) /\ Elements(p) = Elements(s) \cup {x} \cup Elements(c)
  <2>1. \A r \in Elements(s) \cup {x} : \A e \in Elements(c) : Apart(r, e)
    <3> SUFFICES ASSUME NEW r \in Elements(s) \cup {x}, NEW e \in Elements(c) PROVE Apart(r, e)
      OBVIOUS
    <3>1. PICK i \in Nat : e = ChunkRecord(k + 1, i)
      BY <1>11
    <3>2. CASE r = x
      BY <1>3, <3>1, <3>2 DEF Apart
    <3>3. CASE r \in Elements(s)
      <4>1. PICK t \in 1..k : r = TextRecord(t) \/ \E j \in Nat : r = ChunkRecord(t, j)
        BY <1>10, <3>3
      <4> QED  BY <1>3, <1>13, <1>14, <3>1, <4>1 DEF Apart
    <3> QED  BY <3>2, <3>3
  <2> HIDE DEF c, S, x, q, p
  <2>2. q \o c \in Seq(S)
    BY <1>9, <1>15, Joined
  <2>3. \A r \in Elements(q) : \A e \in Elements(c) : Apart(r, e)
    BY <1>15, <2>1
  <2>4. Distinct(q \o c)
    BY <1>8, <1>9, <1>15, <2>3, JoinedDistinct
  <2>5. Elements(q \o c) = Elements(q) \cup Elements(c)
    BY <1>9, <1>15, JoinedElements
  <2> QED  BY <1>15, <1>16, <2>2, <2>4, <2>5
<1>18. \A r \in Elements(p) : r.type \in TextTypes
  <2> HIDE DEF p, c
  <2>1. \A r \in Elements(s) : r.type \in TextTypes
    BY DEF Listed
  <2> QED  BY <1>3, <1>11, <1>17, <2>1 DEF TextTypes
<1>19. HasTexts(p, k + 1)
  <2> SUFFICES ASSUME NEW t \in 1..(k + 1)
               PROVE  /\ TextRecord(t) \in Elements(p)
                      /\ texts[t] # None =>
                           \A i \in 1..Replica!ChunkCount(texts[t]) : ChunkRecord(t, i) \in Elements(p)
    BY DEF HasTexts
  <2> HIDE DEF p, c
  <2>1. CASE t = k + 1
    BY <1>7, <1>17, <2>1
  <2>2. CASE t # k + 1
    <3>1. t \in 1..k
      BY <1>1, <2>2
    <3> QED  BY <1>17, <3>1 DEF HasTexts
  <2> QED  BY <2>1, <2>2
<1> HIDE DEF S, x, c
<1>20. Listed(p, TextTypes, S) /\ HasTexts(p, k + 1)
  <2> HIDE DEF p
  <2> QED  BY <1>17, <1>18, <1>19 DEF Listed
<1> QED  BY <1>20 DEF p, S, x, c

\* The records of the texts.
LEMMA TextsListed ==
  ASSUME Replica!ReplicaAssumption, DialogOK, Replica!TextsMatch
  PROVE  /\ Listed(Replica!TextRecords, TextTypes, TextsSealed(Len(texts)))
         /\ HasTexts(Replica!TextRecords, Len(texts))
<1>1. Len(texts) \in Nat
  BY DEF DialogOK
<1>2. PICK f : Texts(f, Len(texts)) /\ Replica!TextRecords = f[Len(texts)]
  BY <1>1, TextRecordsAre
<1>3. \A t \in 0..Len(texts) :
        f[t] = IF t = 0 THEN <<>>
               ELSE Append(f[t - 1], TextRecord(t)) \o Replica!ChunkRecords(t)
  BY <1>2 DEF Texts
<1> DEFINE G == {t \in 0..Len(texts) : Listed(f[t], TextTypes, TextsSealed(t)) /\ HasTexts(f[t], t)}
<1>4. 0 \in G
  <2>1. f[0] = <<>> /\ 0 \in 0..Len(texts)
    BY <1>1, <1>3
  <2>2. <<>> \in Seq(TextsSealed(0)) /\ Len(<<>>) = 0
    OBVIOUS
  <2>3. 1..0 = {}
    OBVIOUS
  <2>4. Elements(<<>>) = {} /\ Distinct(<<>>)
    BY <2>2, <2>3 DEF Elements, Distinct
  <2>5. Listed(<<>>, TextTypes, TextsSealed(0)) /\ HasTexts(<<>>, 0)
    BY <2>2, <2>3, <2>4 DEF Listed, HasTexts
  <2> QED  BY <2>1, <2>5
<1>5. ASSUME NEW k \in 0..(Len(texts) - 1), k \in G PROVE k + 1 \in G
  <2>1. k + 1 \in 0..Len(texts) /\ k + 1 # 0 /\ (k + 1) - 1 = k
    BY <1>1
  <2>2. f[k + 1] = Append(f[k], TextRecord(k + 1)) \o Replica!ChunkRecords(k + 1)
    BY <1>3, <2>1
  <2>3. Listed(f[k], TextTypes, TextsSealed(k)) /\ HasTexts(f[k], k)
    BY <1>5
  <2> DEFINE s == f[k]
  <2> HIDE DEF s
  <2>4. Listed(s, TextTypes, TextsSealed(k)) /\ HasTexts(s, k)
    BY <2>3 DEF s
  <2>5. LET p == Append(s, TextRecord(k + 1)) \o Replica!ChunkRecords(k + 1)
        IN Listed(p, TextTypes, TextsSealed(k + 1)) /\ HasTexts(p, k + 1)
    BY <2>4, TextStages
  <2>6. Listed(f[k + 1], TextTypes, TextsSealed(k + 1)) /\ HasTexts(f[k + 1], k + 1)
    BY <2>2, <2>5 DEF s
  <2> QED  BY <2>1, <2>6
<1>6. Len(texts) \in G
  <2> HIDE DEF G
  <2>1. 0..Len(texts) \subseteq G
    BY <1>1, <1>4, <1>5, Reaches
  <2> QED  BY <1>1, <2>1
<1> QED  BY <1>2, <1>6

\* A bounded set of numbers has a greatest one, and Max is that one.
LEMMA GreatestIs ==
  ASSUME NEW n \in Nat, NEW T, T \subseteq 0..n, T # {}
  PROVE  Replica!Max(T) \in T /\ \A y \in T : y <= Replica!Max(T)
<1> DEFINE D == {k \in Nat : \E y \in T : k = n - y}
<1>1. PICK d \in D : \A k \in D : d <= k
  <2>1. PICK y \in T : TRUE
    OBVIOUS
  <2>2. n - y \in D
    BY <2>1
  <2>3. D \subseteq Nat /\ D # {}
    BY <2>2
  <2> HIDE DEF D
  <2> QED  BY <2>3, LeastNat
<1>2. PICK x \in T : d = n - x
  BY <1>1
<1>3. \A y \in T : x >= y
  <2> TAKE y \in T
  <2>1. n - y \in D
    OBVIOUS
  <2>2. d <= n - y
    BY <1>1, <2>1
  <2> QED  BY <1>2, <2>2
<1>4. Replica!Max(T) \in T /\ \A y \in T : Replica!Max(T) >= y
  BY <1>2, <1>3 DEF Replica!Max
<1> QED  BY <1>4

\* A set of numbers has a least one, and Min is that one.
LEMMA LeastIs ==
  ASSUME NEW T, T \subseteq Nat, T # {}
  PROVE  Replica!Min(T) \in T /\ \A y \in T : Replica!Min(T) <= y
<1>1. \E x \in T : \A y \in T : x <= y
  BY LeastNat
<1> QED  BY <1>1 DEF Replica!Min

\* The manifest of the assets there are: that of the streams, or one that is later than all.
LEMMA AssetManifestIs ==
  ASSUME DialogOK, AssetInv
  PROVE  \E v \in 1..(assets + 1) :
           /\ Replica!AssetManifest = Manifest(assets, v)
           /\ \A r \in Replica!AssetRecords :
                IF r.body = assets THEN r = Manifest(assets, v) ELSE r.revision < v
<1> DEFINE A == Replica!AssetRecords
<1> DEFINE same == {r.revision : r \in {q \in A : q.body = assets}}
<1>1. /\ \A r \in A : /\ r.body \in 0..assets /\ r.revision \in 1..(r.body + 1)
                      /\ r = Manifest(r.body, r.revision)
      /\ \A r, q \in A : r.body <= q.body <=> r.revision <= q.revision
  BY DEF AssetInv
<1>2. assets \in Nat
  BY DEF DialogOK
<1>3. Replica!AssetManifest = Manifest(assets, Replica!AssetRevision)
  BY DEF Replica!AssetManifest, Manifest
<1>4. Replica!AssetRevision = IF same = {} THEN Replica!NextRevision ELSE Replica!Min(same)
  BY DEF Replica!AssetRevision
<1>5. CASE \E r \in A : r.body = assets
  <2>1. PICK r \in A : r.body = assets
    BY <1>5
  <2>2. \A q \in A : q.body = assets => q.revision = r.revision
    <3> SUFFICES ASSUME NEW q \in A, q.body = assets PROVE q.revision = r.revision
      OBVIOUS
    <3>1. r.body <= q.body /\ q.body <= r.body
      BY <1>2, <2>1
    <3>2. r.revision <= q.revision /\ q.revision <= r.revision
      BY <1>1, <2>1, <3>1
    <3>3. \A e \in A : e.revision \in Nat
      <4>1. \A e \in A : e.body \in Nat /\ e.revision \in 1..(e.body + 1)
        BY <1>1, <1>2
      <4> QED  BY <4>1
    <3>4. r.revision \in Nat /\ q.revision \in Nat
      BY <2>1, <3>3
    <3> QED  BY <3>2, <3>4
  <2>3. same = {r.revision}
    BY <2>1, <2>2
  <2>4. r.revision \in 1..(assets + 1) /\ r.revision \in Nat
    <3>1. r.revision \in 1..(r.body + 1)
      BY <1>1, <2>1
    <3> QED  BY <1>2, <2>1, <3>1
  <2> DEFINE v == r.revision
  <2>5. Replica!Min(same) = v
    <3>1. {v} \subseteq Nat /\ {v} # {}
      BY <2>4
    <3>2. Replica!Min({v}) \in {v}
      BY <3>1, LeastIs
    <3> QED  BY <2>3, <3>2
  <2>6. Replica!AssetRevision = v
    BY <1>4, <2>3, <2>5
  <2>7. ASSUME NEW q \in A PROVE IF q.body = assets THEN q = Manifest(assets, v) ELSE q.revision < v
    <3>1. CASE q.body = assets
      BY <1>1, <2>2, <3>1
    <3>2. CASE q.body # assets
      <4>1. q.body \in 0..assets /\ q.revision \in 1..(q.body + 1)
        BY <1>1
      <4>2. ~(r.body <= q.body) /\ q.revision \in Nat
        BY <1>2, <2>1, <3>2, <4>1
      <4>3. ~(r.revision <= q.revision)
        BY <1>1, <2>1, <4>2
      <4> QED  BY <2>4, <3>2, <4>2, <4>3
    <3> QED  BY <3>1, <3>2
  <2> QED  BY <1>3, <2>4, <2>6, <2>7
<1>6. CASE ~\E r \in A : r.body = assets
  <2> DEFINE R == {0} \cup {r.revision : r \in A}
  <2>1. \A r \in A : r.revision \in 0..assets
    <3> SUFFICES ASSUME NEW r \in A PROVE r.revision \in 0..assets
      OBVIOUS
    <3>1. r.body \in 0..assets /\ r.revision \in 1..(r.body + 1) /\ r.body # assets
      BY <1>1, <1>6
    <3> QED  BY <1>2, <3>1
  <2>2. R \subseteq 0..assets /\ R # {}
    BY <1>2, <2>1
  <2> DEFINE m == Replica!Max(R)
  <2>3. m \in R /\ \A y \in R : y <= m
    <3> HIDE DEF R
    <3> QED  BY <1>2, <2>2, GreatestIs
  <2>4. same = {}
    BY <1>6
  <2>5. Replica!AssetRevision = 1 + m
    BY <1>4, <2>4 DEF Replica!NextRevision
  <2> HIDE DEF m
  <2>6. m \in 0..assets /\ \A r \in A : r.revision <= m
    <3>1. m \in 0..assets
      BY <2>2, <2>3
    <3>2. \A r \in A : r.revision \in R
      OBVIOUS
    <3> QED  BY <2>3, <3>1, <3>2
  <2>7. ASSUME NEW q \in A
        PROVE  IF q.body = assets THEN q = Manifest(assets, 1 + m) ELSE q.revision < 1 + m
    <3>1. q.body # assets
      BY <1>6
    <3>2. q.revision \in 0..assets /\ q.revision <= m
      BY <2>1, <2>6
    <3> QED  BY <1>2, <2>6, <3>1, <3>2
  <2>8. 1 + m \in 1..(assets + 1)
    BY <1>2, <2>6
  <2> QED  BY <1>3, <2>5, <2>7, <2>8
<1> QED  BY <1>5, <1>6

\* What a record that may be sealed is, by its type and id.
LEMMA GenuineIs ==
  ASSUME NEW r \in Genuine
  PROVE  /\ r.type \in {"entry", "fact", "receipt", "text", "chunk", "assets"}
         /\ r.type = "entry" => r.id \in 1..Len(entries) /\ r = EntryRecord(r.id)
         /\ r.type = "fact" => r.id \in 1..Len(facts) /\ r = FactRecord(r.id)
         /\ r.type = "receipt" => r.id \in 1..Len(commands) /\ r = ReceiptRecord(r.id)
         /\ r.type = "text" => r.id \in 1..Len(texts) /\ r = TextRecord(r.id)
         /\ r.type = "chunk" => \E t \in 1..Len(texts), i \in Nat : r = ChunkRecord(t, i)
         /\ r.type = "assets" =>
              r.id \in 0..assets /\ r.revision \in Nat /\ r = Manifest(r.id, r.revision)
<1> DEFINE Is(type, q, id) == q.type = type /\ q.id = id
<1>1. /\ \A m : Is("entry", EntryRecord(m), m) /\ Is("fact", FactRecord(m), m)
               /\ Is("receipt", ReceiptRecord(m), m) /\ Is("text", TextRecord(m), m)
      /\ \A t, i : Is("chunk", ChunkRecord(t, i), <<t, i>>)
      /\ \A n, v : Is("assets", Manifest(n, v), n) /\ Manifest(n, v).revision = v
  BY DEF EntryRecord, FactRecord, ReceiptRecord, TextRecord, ChunkRecord, Manifest, Replica!Record
<1> HIDE DEF Is
<1>2. \/ \E m \in 1..Len(entries) : r = EntryRecord(m)
      \/ \E m \in 1..Len(facts) : r = FactRecord(m)
      \/ \E m \in 1..Len(commands) : r = ReceiptRecord(m)
      \/ \E m \in 1..Len(texts) : r = TextRecord(m)
      \/ \E t \in 1..Len(texts), i \in Nat : r = ChunkRecord(t, i)
      \/ \E n \in 0..assets, v \in Nat : r = Manifest(n, v)
  BY DEF Genuine, TextsSealed
<1>3. CASE \E m \in 1..Len(entries) : r = EntryRecord(m)
  BY <1>1, <1>3 DEF Is
<1>4. CASE \E m \in 1..Len(facts) : r = FactRecord(m)
  BY <1>1, <1>4 DEF Is
<1>5. CASE \E m \in 1..Len(commands) : r = ReceiptRecord(m)
  BY <1>1, <1>5 DEF Is
<1>6. CASE \E m \in 1..Len(texts) : r = TextRecord(m)
  BY <1>1, <1>6 DEF Is
<1>7. CASE \E t \in 1..Len(texts), i \in Nat : r = ChunkRecord(t, i)
  BY <1>1, <1>7 DEF Is
<1>8. CASE \E n \in 0..assets, v \in Nat : r = Manifest(n, v)
  BY <1>1, <1>8 DEF Is
<1> QED  BY <1>2, <1>3, <1>4, <1>5, <1>6, <1>7, <1>8

\* Two of them with one type and id are one, but for manifests.
LEMMA GenuineUnique ==
  ASSUME NEW r \in Genuine, NEW q \in Genuine, r.type = q.type, r.id = q.id, r.type # "assets"
  PROVE  r = q
<1>1. \A t, i : ChunkRecord(t, i).id = <<t, i>>
  BY DEF ChunkRecord, Replica!Record
<1>2. CASE r.type = "chunk"
  <2>0. q.type = "chunk"
    BY <1>2
  <2>1. PICK t \in 1..Len(texts), i \in Nat : r = ChunkRecord(t, i)
    BY <1>2, GenuineIs
  <2>2. PICK u \in 1..Len(texts), j \in Nat : q = ChunkRecord(u, j)
    BY <2>0, GenuineIs
  <2>3. <<t, i>> = <<u, j>>
    BY <1>1, <2>1, <2>2
  <2> QED  BY <2>1, <2>2, <2>3
<1>3. CASE r.type \in {"entry", "fact", "receipt", "text"}
  <2>1. CASE r.type = "entry"
    BY <2>1, GenuineIs
  <2>2. CASE r.type = "fact"
    BY <2>2, GenuineIs
  <2>3. CASE r.type = "receipt"
    BY <2>3, GenuineIs
  <2>4. CASE r.type = "text"
    BY <2>4, GenuineIs
  <2> QED  BY <1>3, <2>1, <2>2, <2>3, <2>4
<1>4. r.type \in {"entry", "fact", "receipt", "text", "chunk", "assets"}
  BY GenuineIs
<1> QED  BY <1>2, <1>3, <1>4

\* What is to be sealed when everything of the dialog is.
Covers(E) ==
  /\ \A m \in 1..Len(entries) : EntryRecord(m) \in E
  /\ \A i \in 1..Len(facts) : FactRecord(i) \in E
  /\ \A n \in 1..Len(commands) : ReceiptRecord(n) \in E
  /\ \A t \in 1..Len(texts) :
       /\ TextRecord(t) \in E
       /\ texts[t] # None =>
            \A i \in 1..Replica!ChunkCount(texts[t]) : ChunkRecord(t, i) \in E
  /\ Replica!AssetManifest \in E

\* The records of the messages.
LEMMA EntriesListed ==
  ASSUME DialogOK
  PROVE  /\ Listed(Replica!Entries, {"entry"}, Genuine)
         /\ \A m \in 1..Len(entries) : EntryRecord(m) \in Elements(Replica!Entries)
<1> DEFINE s == Replica!Entries
<1> DEFINE n == Len(entries)
<1> DEFINE T == {"entry"}
<1>1. n \in Nat
  BY DEF DialogOK
<1>2. s = [m \in 1..n |-> EntryRecord(m)]
  BY DEF Replica!Entries, EntryRecord
<1>3. \A m : EntryRecord(m).type \in T /\ EntryRecord(m).id = m
  BY DEF EntryRecord, Replica!Record
<1>4. \A m \in 1..n : EntryRecord(m) \in Genuine
  BY DEF Genuine
<1> HIDE DEF s, n, T
<1>5. s \in Seq(Genuine) /\ Len(s) = n /\ \A m \in 1..n : s[m] = EntryRecord(m)
  BY <1>1, <1>2, <1>4
<1>6. Listed(s, T, Genuine)
  <2>1. \A i \in 1..Len(s) : s[i].type \in T
    BY <1>3, <1>5
  <2>2. \A i, j \in 1..Len(s) : i # j => Apart(s[i], s[j])
    BY <1>3, <1>5 DEF Apart
  <2> QED  BY <1>5, <2>1, <2>2, NumberedListed
<1>7. \A m \in 1..n : EntryRecord(m) \in Elements(s)
  BY <1>5 DEF Elements
<1> QED  BY <1>6, <1>7 DEF s, n, T

\* The records of the events.
LEMMA FactsListed ==
  ASSUME DialogOK
  PROVE  /\ Listed(Replica!Facts, {"fact"}, Genuine)
         /\ \A i \in 1..Len(facts) : FactRecord(i) \in Elements(Replica!Facts)
<1> DEFINE s == Replica!Facts
<1> DEFINE n == Len(facts)
<1> DEFINE T == {"fact"}
<1>1. n \in Nat
  BY DEF DialogOK
<1>2. s = [m \in 1..n |-> FactRecord(m)]
  BY DEF Replica!Facts, FactRecord
<1>3. \A m : FactRecord(m).type \in T /\ FactRecord(m).id = m
  BY DEF FactRecord, Replica!Record
<1>4. \A m \in 1..n : FactRecord(m) \in Genuine
  BY DEF Genuine
<1> HIDE DEF s, n, T
<1>5. s \in Seq(Genuine) /\ Len(s) = n /\ \A m \in 1..n : s[m] = FactRecord(m)
  BY <1>1, <1>2, <1>4
<1>6. Listed(s, T, Genuine)
  <2>1. \A i \in 1..Len(s) : s[i].type \in T
    BY <1>3, <1>5
  <2>2. \A i, j \in 1..Len(s) : i # j => Apart(s[i], s[j])
    BY <1>3, <1>5 DEF Apart
  <2> QED  BY <1>5, <2>1, <2>2, NumberedListed
<1>7. \A m \in 1..n : FactRecord(m) \in Elements(s)
  BY <1>5 DEF Elements
<1> QED  BY <1>6, <1>7 DEF s, n, T

\* The records of the receipts.
LEMMA ReceiptsListed ==
  ASSUME DialogOK
  PROVE  /\ Listed(Replica!Receipts, {"receipt"}, Genuine)
         /\ \A n \in 1..Len(commands) : ReceiptRecord(n) \in Elements(Replica!Receipts)
<1> DEFINE s == Replica!Receipts
<1> DEFINE n == Len(commands)
<1> DEFINE T == {"receipt"}
<1>1. n \in Nat /\ DOMAIN commands = 1..n
  BY DEF DialogOK
<1>2. s = [m \in 1..n |-> ReceiptRecord(commands[m])]
  BY DEF Replica!Receipts, ReceiptRecord
<1>3. \A m : ReceiptRecord(m).type \in T /\ ReceiptRecord(m).id = m
  BY DEF ReceiptRecord, Replica!Record
<1>4. \A m \in 1..n : ReceiptRecord(m) \in Genuine
  BY DEF Genuine
<1>a. /\ \A m \in 1..n : commands[m] \in 1..n
      /\ \A v \in 1..n : \E m \in 1..n : commands[m] = v
  BY <1>1 DEF DialogOK, Replica!Range
<1>b. \A m, k \in 1..n : commands[m] = commands[k] => m = k
  BY <1>1 DEF DialogOK, Replica!IsInjective
<1> HIDE DEF s, n, T
<1>5. s \in Seq(Genuine) /\ Len(s) = n /\ \A m \in 1..n : s[m] = ReceiptRecord(commands[m])
  BY <1>1, <1>2, <1>4, <1>a
<1>6. Listed(s, T, Genuine)
  <2>1. \A i \in 1..Len(s) : s[i].type \in T
    BY <1>3, <1>5
  <2>2. \A i, j \in 1..Len(s) : i # j => Apart(s[i], s[j])
    BY <1>3, <1>5, <1>b DEF Apart
  <2> QED  BY <1>5, <2>1, <2>2, NumberedListed
<1>7. \A v \in 1..n : ReceiptRecord(v) \in Elements(s)
  <2> TAKE v \in 1..n
  <2>1. PICK m \in 1..n : commands[m] = v
    BY <1>a
  <2> QED  BY <1>5, <2>1 DEF Elements
<1> QED  BY <1>6, <1>7 DEF s, n, T

\* Everything of the dialog as it would be sealed now: it is what the dialog holds, each
\* record once, and all of it.
LEMMA CandidatesListed ==
  ASSUME Replica!ReplicaAssumption, DialogOK, AssetInv, Replica!TextsMatch
  PROVE  /\ Replica!Candidates \in Seq(Genuine) /\ Distinct(Replica!Candidates)
         /\ Covers(Elements(Replica!Candidates))
         /\ \A r \in Elements(Replica!Candidates) :
              r.type = "assets" => r = Replica!AssetManifest
<1> DEFINE S == Genuine
<1> DEFINE e == Replica!Entries
<1> DEFINE f == Replica!Facts
<1> DEFINE c == Replica!Receipts
<1> DEFINE x == Replica!TextRecords
<1> DEFINE a == Replica!AssetManifest
<1> DEFINE o == <<a>>
<1> DEFINE E == {"entry"}
<1> DEFINE F == {"fact"}
<1> DEFINE C == {"receipt"}
<1> DEFINE X == TextTypes
<1> DEFINE A == {"assets"}
<1>1. Listed(e, E, S) /\ \A m \in 1..Len(entries) : EntryRecord(m) \in Elements(e)
  BY EntriesListed
<1>2. Listed(f, F, S) /\ \A i \in 1..Len(facts) : FactRecord(i) \in Elements(f)
  BY FactsListed
<1>3. Listed(c, C, S) /\ \A n \in 1..Len(commands) : ReceiptRecord(n) \in Elements(c)
  BY ReceiptsListed
<1>4. Listed(x, X, S) /\ HasTexts(x, Len(texts))
  <2>1. TextsSealed(Len(texts)) \subseteq S
    BY DEF Genuine
  <2>2. Listed(x, X, TextsSealed(Len(texts))) /\ HasTexts(x, Len(texts))
    BY TextsListed
  <2> HIDE DEF S, x
  <2>3. x \in Seq(S)
    BY <2>1, <2>2, SeqWidens DEF Listed
  <2> QED  BY <2>2, <2>3 DEF Listed
<1>5. Listed(o, A, S) /\ Elements(o) = {a}
  <2>1. PICK v \in 1..(assets + 1) : a = Manifest(assets, v)
    BY AssetManifestIs
  <2>2. assets \in 0..assets /\ v \in Nat
    BY DEF DialogOK
  <2>3. a \in S
    BY <2>1, <2>2 DEF Genuine
  <2>4. a.type \in A
    BY <2>1 DEF Manifest, Replica!Record
  <2> HIDE DEF S, a, A
  <2> QED  BY <2>3, <2>4, OneListed
<1>6. /\ \A type \in E : type \notin F
      /\ \A type \in E \cup F : type \notin C
      /\ \A type \in E \cup F \cup C : type \notin X
      /\ \A type \in E \cup F \cup C \cup X : type \notin A
      /\ "assets" \notin E \cup F \cup C \cup X
  BY DEF TextTypes
<1>7. Replica!Candidates = e \o f \o c \o x \o o
  BY DEF Replica!Candidates
<1> HIDE DEF S, e, f, c, x, a, o, E, F, C, X, A
<1>8. PICK ef : /\ ef = e \o f /\ Listed(ef, E \cup F, S)
                /\ Elements(ef) = Elements(e) \cup Elements(f)
  <2>1. PICK T : T = E
    OBVIOUS
  <2>2. Listed(e, T, S)
    BY <1>1, <2>1
  <2>3. Listed(f, F, S)
    BY <1>2
  <2>4. Separate(T, F)
    BY <1>6, <2>1 DEF Separate
  <2>5. Listed(e \o f, T \cup F, S)
    BY <2>2, <2>3, <2>4, JoinedListed
  <2>6. e \in Seq(S) /\ f \in Seq(S)
    BY <2>2, <2>3 DEF Listed
  <2>7. Elements(e \o f) = Elements(e) \cup Elements(f)
    BY <2>6, JoinedElements
  <2> QED  BY <2>1, <2>5, <2>7
<1>9. PICK efc : /\ efc = ef \o c /\ Listed(efc, E \cup F \cup C, S)
                /\ Elements(efc) = Elements(ef) \cup Elements(c)
  <2>1. PICK T : T = E \cup F
    OBVIOUS
  <2>2. Listed(ef, T, S)
    BY <1>8, <2>1
  <2>3. Listed(c, C, S)
    BY <1>3
  <2>4. Separate(T, C)
    BY <1>6, <2>1 DEF Separate
  <2>5. Listed(ef \o c, T \cup C, S)
    BY <2>2, <2>3, <2>4, JoinedListed
  <2>6. ef \in Seq(S) /\ c \in Seq(S)
    BY <2>2, <2>3 DEF Listed
  <2>7. Elements(ef \o c) = Elements(ef) \cup Elements(c)
    BY <2>6, JoinedElements
  <2> QED  BY <2>1, <2>5, <2>7
<1>10. PICK efcx : /\ efcx = efc \o x /\ Listed(efcx, E \cup F \cup C \cup X, S)
                /\ Elements(efcx) = Elements(efc) \cup Elements(x)
  <2>1. PICK T : T = E \cup F \cup C
    OBVIOUS
  <2>2. Listed(efc, T, S)
    BY <1>9, <2>1
  <2>3. Listed(x, X, S)
    BY <1>4
  <2>4. Separate(T, X)
    BY <1>6, <2>1 DEF Separate
  <2>5. Listed(efc \o x, T \cup X, S)
    BY <2>2, <2>3, <2>4, JoinedListed
  <2>6. efc \in Seq(S) /\ x \in Seq(S)
    BY <2>2, <2>3 DEF Listed
  <2>7. Elements(efc \o x) = Elements(efc) \cup Elements(x)
    BY <2>6, JoinedElements
  <2> QED  BY <2>1, <2>5, <2>7
<1>11. PICK all : /\ all = efcx \o o /\ Listed(all, E \cup F \cup C \cup X \cup A, S)
                /\ Elements(all) = Elements(efcx) \cup Elements(o)
  <2>1. PICK T : T = E \cup F \cup C \cup X
    OBVIOUS
  <2>2. Listed(efcx, T, S)
    BY <1>10, <2>1
  <2>3. Listed(o, A, S)
    BY <1>5
  <2>4. Separate(T, A)
    BY <1>6, <2>1 DEF Separate
  <2>5. Listed(efcx \o o, T \cup A, S)
    BY <2>2, <2>3, <2>4, JoinedListed
  <2>6. efcx \in Seq(S) /\ o \in Seq(S)
    BY <2>2, <2>3 DEF Listed
  <2>7. Elements(efcx \o o) = Elements(efcx) \cup Elements(o)
    BY <2>6, JoinedElements
  <2> QED  BY <2>1, <2>5, <2>7
<1>12. Covers(Elements(all))
  <2>1. Elements(all) = Elements(e) \cup Elements(f) \cup Elements(c) \cup Elements(x) \cup {a}
    BY <1>5, <1>8, <1>9, <1>10, <1>11
  <2>2. /\ \A m \in 1..Len(entries) : EntryRecord(m) \in Elements(all)
        /\ \A i \in 1..Len(facts) : FactRecord(i) \in Elements(all)
        /\ \A n \in 1..Len(commands) : ReceiptRecord(n) \in Elements(all)
    BY <1>1, <1>2, <1>3, <2>1
  <2>3. \A t \in 1..Len(texts) :
          /\ TextRecord(t) \in Elements(all)
          /\ texts[t] # None =>
               \A i \in 1..Replica!ChunkCount(texts[t]) : ChunkRecord(t, i) \in Elements(all)
    BY <1>4, <2>1 DEF HasTexts
  <2>4. a \in Elements(all)
    BY <2>1
  <2> QED  BY <2>2, <2>3, <2>4 DEF Covers, a
<1>13. \A r \in Elements(all) : r.type = "assets" => r = a
  <2>1. \A r \in Elements(efcx) : r.type \in E \cup F \cup C \cup X
    BY <1>10 DEF Listed
  <2> QED  BY <1>5, <1>6, <1>11, <2>1
<1>14. all \in Seq(S) /\ Distinct(all)
  BY <1>11 DEF Listed
<1>15. Replica!Candidates = all
  BY <1>7, <1>8, <1>9, <1>10, <1>11
<1> QED  BY <1>12, <1>13, <1>14, <1>15 DEF S, a

\* The types of a dialog, as TypeOK has them.
Message == [role : {"user", "assistant"}, attempt : 0..1]
DialogTypes ==
  /\ entries \in Seq(Message)
  /\ facts \in Seq(0..MaxMessages) /\ Len(facts) <= MaxFacts
  /\ Replica!IsInjective(commands) /\ Replica!Range(commands) = 1..Len(commands)
  /\ assets \in 0..MaxAssets /\ removed \in BOOLEAN

\* A dialog only grows: what could be sealed of it is what it was.
Growth ==
  /\ \A m \in 1..Len(entries) : m \in 1..Len(entries') /\ EntryRecord(m)' = EntryRecord(m)
  /\ \A i \in 1..Len(facts) : i \in 1..Len(facts') /\ facts'[i] = facts[i]
  /\ \A n \in 1..Len(commands) : n \in 1..Len(commands')
  /\ \A t \in 1..Len(texts) : t \in 1..Len(texts') /\ texts'[t] = texts[t]
  /\ assets' \in Nat /\ assets <= assets'

\* The streams as TypeOK has them, and what they hold.
StreamInv ==
  /\ streams \in [Bindings -> Seq(Genuine)] /\ copy \in [Bindings -> Seq(Genuine)]
  /\ \A b \in Bindings : Starts(copy[b], streams[b]) /\ Distinct(streams[b])
  /\ synced = [b \in Bindings |-> synced[b]] /\ lost \in 0..MaxLost

\* In a stream a later manifest has a later revision.
OrderInv ==
  \A b \in Bindings : \A i, j \in 1..Len(streams[b]) :
    i < j /\ streams[b][i].type = "assets" /\ streams[b][j].type = "assets"
      => streams[b][i].revision < streams[b][j].revision

\* A sequence has a record of this type with this id.
HasId(s, type, id) == \E i \in 1..Len(s) : s[i].type = type /\ s[i].id = id

\* What the coordinator has when it was told that it has everything.
SyncedInv ==
  \A b \in Bindings : synced[b] # None =>
    /\ \A n \in 1..synced[b].messages : HasId(copy[b], "entry", n)
    /\ \A n \in 1..synced[b].facts : HasId(copy[b], "fact", n)
    /\ \A n \in 1..synced[b].commands : HasId(copy[b], "receipt", n)
    /\ \A n \in 1..synced[b].texts : HasId(copy[b], "text", n)
    /\ HasId(copy[b], "assets", synced[b].assets)
    /\ synced[b].ready => \A t \in 1..synced[b].texts :
         /\ texts[t] # None
         /\ \A i \in 1..Replica!ChunkCount(texts[t]) : HasId(copy[b], "chunk", <<t, i>>)

\* The inductive invariant of the export.
ReplicaInv ==
  /\ DialogTypes /\ HistoryInv /\ StreamInv /\ AssetInv /\ OrderInv /\ SyncedInv

\* What the types and the history say of the dialog.
LEMMA DialogIsOK ==
  ASSUME Replica!ReplicaAssumption, DialogTypes, HistoryInv
  PROVE  DialogOK
<1>1. MaxMessages \in Nat /\ MaxAssets \in Nat
  BY DEF Replica!ReplicaAssumption
<1>2. 0..MaxMessages \subseteq Nat
  BY <1>1
<1>3. facts \in Seq(Nat)
  <2>1. facts \in Seq(0..MaxMessages)
    BY DEF DialogTypes
  <2> DEFINE S == 0..MaxMessages
  <2> DEFINE T == Nat
  <2>2. S \subseteq T /\ facts \in Seq(S)
    BY <1>2, <2>1
  <2> HIDE DEF S, T
  <2>3. facts \in Seq(T)
    BY <2>2, SeqWidens
  <2> QED  BY <2>3 DEF T
<1>4. assets \in Nat
  BY <1>1 DEF DialogTypes
<1> QED  BY <1>3, <1>4 DEF DialogTypes, HistoryInv, DialogOK, Message

\* The event that made a message stays its first.
LEMMA AuthorStays ==
  ASSUME DialogOK, NEW x \in Nat, facts' = Append(facts, x), NEW m,
         x # m \/ \E i \in 1..Len(facts) : facts[i] = m
  PROVE  Replica!AuthorEvent(m)' = Replica!AuthorEvent(m)
<1> DEFINE n == Len(facts)
<1> DEFINE A == {i \in 1..n : facts[i] = m}
<1> DEFINE B == {i \in 1..(n + 1) : Append(facts, x)[i] = m}
<1>1. /\ n \in Nat /\ facts \in Seq(Nat) /\ Len(Append(facts, x)) = n + 1
      /\ \A i \in 1..n : Append(facts, x)[i] = facts[i]
      /\ Append(facts, x)[n + 1] = x
  BY DEF DialogOK
<1>2. Replica!AuthorEvent(m) = IF A = {} THEN 0 ELSE Replica!Min(A)
  BY DEF Replica!AuthorEvent
<1>3. Replica!AuthorEvent(m)' = IF B = {} THEN 0 ELSE Replica!Min(B)
  <2>1. Len(facts') = n + 1
    BY <1>1
  <2> QED  BY <2>1 DEF Replica!AuthorEvent, Replica!Min
<1>4. \A i \in 1..n : i \in A <=> i \in B
  BY <1>1
<1>5. \A i \in B : i \in A \/ (i = n + 1 /\ x = m)
  BY <1>1
<1>6. A \subseteq B
  BY <1>1
<1>7. A \subseteq 1..n /\ B \subseteq 1..(n + 1)
  OBVIOUS
<1>8. x = m => A # {}
  OBVIOUS
<1> HIDE DEF A, B, n
<1>9. CASE A = {}
  <2>1. B = {}
    BY <1>5, <1>8, <1>9
  <2> QED  BY <1>2, <1>3, <1>9, <2>1
<1>10. CASE A # {}
  <2>1. A \subseteq Nat /\ B \subseteq Nat /\ B # {}
    <3>1. 1..n \subseteq Nat /\ 1..(n + 1) \subseteq Nat
      BY <1>1
    <3> QED  BY <1>6, <1>7, <1>10, <3>1
  <2>2. Replica!Min(A) \in A /\ \A y \in A : Replica!Min(A) <= y
    BY <1>10, <2>1, LeastIs
  <2>3. Replica!Min(B) \in B /\ \A y \in B : Replica!Min(B) <= y
    BY <2>1, LeastIs
  <2>4. Replica!Min(B) <= Replica!Min(A) /\ Replica!Min(A) \in 1..n
    BY <1>6, <1>7, <2>2, <2>3
  <2>5. Replica!Min(B) \in A
    <3>1. Replica!Min(B) # n + 1
      BY <1>1, <2>4
    <3> QED  BY <1>5, <2>3, <3>1
  <2>6. Replica!Min(A) <= Replica!Min(B) /\ Replica!Min(B) \in Nat /\ Replica!Min(A) \in Nat
    BY <2>1, <2>2, <2>5
  <2>7. Replica!Min(A) = Replica!Min(B)
    BY <2>4, <2>6
  <2> QED  BY <1>2, <1>3, <1>6, <1>10, <2>1, <2>7
<1> QED  BY <1>9, <1>10

\* An entry is what it was.
LEMMA EntryStays ==
  ASSUME NEW m, entries'[m].role = entries[m].role,
         entries[m].role = "assistant" => entries'[m].attempt = entries[m].attempt,
         Replica!AuthorEvent(m)' = Replica!AuthorEvent(m)
  PROVE  EntryRecord(m)' = EntryRecord(m)
BY DEF EntryRecord, Replica!SourceGeneration, Replica!Record

\* A message more.
LEMMA MessageGrowth ==
  ASSUME Replica!ReplicaAssumption, DialogTypes, HistoryInv, NEW e \in Message,
         Len(entries) < MaxMessages, entries' = Append(entries, e),
         \/ facts' = facts /\ e.attempt # 0
         \/ facts' = Append(facts, Len(entries) + 1) /\ Len(facts) < MaxFacts
  PROVE  /\ entries' \in Seq(Message) /\ Len(entries') <= MaxMessages
         /\ facts' \in Seq(0..MaxMessages) /\ Len(facts') <= MaxFacts
         /\ \A i \in 1..Len(facts') : facts'[i] <= Len(entries')
         /\ \A m \in 1..Len(entries') :
              entries'[m] = [role |-> "user", attempt |-> 0]
                => \E i \in 1..Len(facts') : facts'[i] = m
         /\ \A m \in 1..Len(entries) :
              m \in 1..Len(entries') /\ EntryRecord(m)' = EntryRecord(m)
         /\ \A i \in 1..Len(facts) : i \in 1..Len(facts') /\ facts'[i] = facts[i]
<1> DEFINE n == Len(entries)
<1> DEFINE k == Len(facts)
<1>1. /\ n \in Nat /\ k \in Nat /\ MaxMessages \in Nat /\ MaxFacts \in Nat
      /\ entries \in Seq(Message) /\ facts \in Seq(0..MaxMessages) /\ k <= MaxFacts
  BY DEF DialogTypes, Replica!ReplicaAssumption
<1>2. /\ entries' \in Seq(Message) /\ Len(entries') = n + 1 /\ entries'[n + 1] = e
      /\ \A m \in 1..n : entries'[m] = entries[m]
  BY <1>1
<1>3. /\ \A i \in 1..k : facts[i] \in 0..MaxMessages /\ facts[i] <= n
      /\ \A m \in 1..n : entries[m] = [role |-> "user", attempt |-> 0]
                           => \E i \in 1..k : facts[i] = m
  <2>1. \A i \in 1..k : facts[i] \in 0..MaxMessages
    BY <1>1
  <2> QED  BY <2>1 DEF HistoryInv
<1>4. \/ facts' = facts /\ e.attempt # 0
      \/ /\ facts' \in Seq(0..MaxMessages) /\ Len(facts') = k + 1 /\ facts'[k + 1] = n + 1
         /\ \A i \in 1..k : facts'[i] = facts[i]
         /\ k < MaxFacts /\ facts' = Append(facts, n + 1)
  <2>1. CASE facts' = facts /\ e.attempt # 0
    BY <2>1
  <2>2. CASE facts' = Append(facts, n + 1) /\ k < MaxFacts
    <3>1. n + 1 \in 0..MaxMessages
      BY <1>1
    <3> QED  BY <1>1, <2>2, <3>1
  <2> QED  BY <2>1, <2>2
<1>5. DialogOK
  BY DialogIsOK
<1>6. ASSUME NEW m \in 1..n PROVE m \in 1..Len(entries') /\ EntryRecord(m)' = EntryRecord(m)
  <2>1. Replica!AuthorEvent(m)' = Replica!AuthorEvent(m)
    <3>1. CASE facts' = facts
      BY <3>1 DEF Replica!AuthorEvent, Replica!Min
    <3>2. CASE facts' = Append(facts, n + 1)
      <4>1. n + 1 \in Nat /\ n + 1 # m
        BY <1>1
      <4> QED  BY <1>5, <3>2, <4>1, AuthorStays
    <3> QED  BY <1>4, <3>1, <3>2
  <2>2. entries'[m] = entries[m]
    BY <1>2
  <2>3. EntryRecord(m)' = EntryRecord(m)
    BY <2>1, <2>2, EntryStays
  <2> QED  BY <1>1, <1>2, <2>3
<1>7. \A m \in 1..(n + 1) :
        entries'[m] = [role |-> "user", attempt |-> 0] => \E i \in 1..Len(facts') : facts'[i] = m
  <2> SUFFICES ASSUME NEW m \in 1..(n + 1), entries'[m] = [role |-> "user", attempt |-> 0]
               PROVE  \E i \in 1..Len(facts') : facts'[i] = m
    OBVIOUS
  <2>1. CASE m = n + 1
    <3>1. e.attempt = 0
      BY <1>2, <2>1
    <3>2. Len(facts') = k + 1 /\ facts'[k + 1] = n + 1
      BY <1>4, <3>1
    <3> QED  BY <1>1, <2>1, <3>2
  <2>2. CASE m # n + 1
    <3>1. m \in 1..n
      BY <1>1, <2>2
    <3>2. PICK i \in 1..k : facts[i] = m
      BY <1>2, <1>3, <3>1
    <3>3. i \in 1..Len(facts') /\ facts'[i] = m
      BY <1>1, <1>4, <3>2
    <3> QED  BY <3>3
  <2> QED  BY <2>1, <2>2
<1>8. \A i \in 1..Len(facts') : facts'[i] <= n + 1
  <2> SUFFICES ASSUME NEW i \in 1..Len(facts') PROVE facts'[i] <= n + 1
    OBVIOUS
  <2>1. CASE facts' = facts
    <3>1. facts[i] \in 0..MaxMessages /\ facts[i] <= n
      BY <1>3, <2>1
    <3> QED  BY <1>1, <2>1, <3>1
  <2>2. CASE Len(facts') = k + 1 /\ facts'[k + 1] = n + 1 /\ \A j \in 1..k : facts'[j] = facts[j]
    <3>1. CASE i = k + 1
      BY <1>1, <2>2, <3>1
    <3>2. CASE i # k + 1
      <4>1. i \in 1..k
        BY <1>1, <2>2, <3>2
      <4>2. facts'[i] = facts[i] /\ facts[i] \in 0..MaxMessages /\ facts[i] <= n
        BY <1>3, <2>2, <4>1
      <4> QED  BY <1>1, <4>2
    <3> QED  BY <3>1, <3>2
  <2> QED  BY <1>4, <2>1, <2>2
<1>9. /\ facts' \in Seq(0..MaxMessages) /\ Len(facts') <= MaxFacts
      /\ \A i \in 1..k : i \in 1..Len(facts') /\ facts'[i] = facts[i]
  BY <1>1, <1>4
<1>10. n + 1 <= MaxMessages
  BY <1>1
<1> QED  BY <1>2, <1>6, <1>7, <1>8, <1>9, <1>10

\* What the commits of a dialog leave alone.
Untouched == UNCHANGED <<streams, copy, synced, lost>>

\* One command more.
LEMMA AcceptGrows ==
  ASSUME DialogTypes, HistoryInv, NEW place \in 1..(Len(commands) + 1), Replica!Accept(place)
  PROVE  /\ Replica!IsInjective(commands') /\ Replica!Range(commands') = 1..Len(commands')
         /\ commands' \in Seq(Nat) /\ \A n \in 1..Len(commands) : n \in 1..Len(commands')
<1>1. commands \in Seq(Nat) /\ Len(commands) \in Nat
  BY DEF HistoryInv
<1>2. commands' = Replica!InsertAt(commands, place, Len(commands) + 1)
  BY DEF Replica!Accept
<1>3. /\ commands' \in Seq(Nat) /\ Len(commands') = Len(commands) + 1
      /\ Replica!IsInjective(commands') /\ Replica!Range(commands') = 1..Len(commands')
  <2>1. PICK c : c = commands
    OBVIOUS
  <2>2. c \in Seq(Nat) /\ Replica!IsInjective(c) /\ Replica!Range(c) = 1..Len(c)
    BY <1>1, <2>1 DEF DialogTypes
  <2>3. place \in 1..(Len(c) + 1)
    BY <2>1
  <2>4. PICK d : d = Replica!InsertAt(c, place, Len(c) + 1)
    OBVIOUS
  <2>5. d \in Seq(Nat) /\ Len(d) = Len(c) + 1 /\ Replica!IsInjective(d) /\ Replica!Range(d) = 1..Len(d)
    BY <2>2, <2>3, <2>4, NumbersInserted
  <2>6. commands' = d
    BY <1>2, <2>1, <2>4
  <2> QED  BY <2>1, <2>5, <2>6
<1>4. \A n \in 1..Len(commands) : n \in 1..Len(commands')
  BY <1>1, <1>3
<1> QED  BY <1>3, <1>4

\* message.enqueue.
LEMMA EnqueueGrowth ==
  ASSUME Replica!ReplicaAssumption, DialogTypes, HistoryInv,
         NEW place \in 1..(Len(commands) + 1), Replica!Enqueue(place)
  PROVE  DialogTypes' /\ HistoryInv' /\ Growth /\ Untouched
<1> DEFINE e == [role |-> "user", attempt |-> 0]
<1>1. /\ Len(entries) < MaxMessages /\ Len(facts) < MaxFacts /\ entries' = Append(entries, e)
      /\ facts' = Append(facts, Len(entries) + 1) /\ Replica!Accept(place)
      /\ UNCHANGED <<texts, assets, removed>> /\ Untouched
  BY DEF Replica!Enqueue, Untouched
<1>2. e \in Message
  BY DEF Message
<1> HIDE DEF e
<1>3. /\ entries' \in Seq(Message) /\ Len(entries') <= MaxMessages
      /\ facts' \in Seq(0..MaxMessages) /\ Len(facts') <= MaxFacts
      /\ \A i \in 1..Len(facts') : facts'[i] <= Len(entries')
      /\ \A m \in 1..Len(entries') :
           entries'[m] = [role |-> "user", attempt |-> 0] => \E i \in 1..Len(facts') : facts'[i] = m
      /\ \A m \in 1..Len(entries) : m \in 1..Len(entries') /\ EntryRecord(m)' = EntryRecord(m)
      /\ \A i \in 1..Len(facts) : i \in 1..Len(facts') /\ facts'[i] = facts[i]
  BY <1>1, <1>2, MessageGrowth
<1>4. /\ Replica!IsInjective(commands') /\ Replica!Range(commands') = 1..Len(commands')
      /\ commands' \in Seq(Nat) /\ \A n \in 1..Len(commands) : n \in 1..Len(commands')
  BY <1>1, AcceptGrows
<1>5. assets \in 0..MaxAssets /\ assets \in Nat /\ removed \in BOOLEAN
  BY DEF DialogTypes, Replica!ReplicaAssumption
<1>6. texts' \in Seq(Replica!TextsOrNone)'
  BY <1>1 DEF HistoryInv, Replica!TextsOrNone
<1>7. DialogTypes'
  BY <1>1, <1>3, <1>4, <1>5 DEF DialogTypes, Replica!IsInjective, Replica!Range
<1>8. HistoryInv'
  BY <1>3, <1>4, <1>6 DEF HistoryInv
<1>9. Growth
  BY <1>1, <1>3, <1>4, <1>5 DEF Growth
<1> QED  BY <1>1, <1>7, <1>8, <1>9

\* input.respond.
LEMMA AnswerGrowth ==
  ASSUME Replica!ReplicaAssumption, DialogTypes, HistoryInv,
         NEW place \in 1..(Len(commands) + 1), Replica!AnswerInput(place)
  PROVE  DialogTypes' /\ HistoryInv' /\ Growth /\ Untouched
<1> DEFINE e == [role |-> "user", attempt |-> 1]
<1>1. /\ Len(entries) < MaxMessages /\ entries' = Append(entries, e)
      /\ facts' = facts /\ Replica!Accept(place)
      /\ UNCHANGED <<texts, assets, removed>> /\ Untouched
  BY DEF Replica!AnswerInput, Untouched
<1>2. e \in Message /\ e.attempt # 0
  BY DEF Message
<1> HIDE DEF e
<1>3. /\ entries' \in Seq(Message) /\ Len(entries') <= MaxMessages
      /\ facts' \in Seq(0..MaxMessages) /\ Len(facts') <= MaxFacts
      /\ \A i \in 1..Len(facts') : facts'[i] <= Len(entries')
      /\ \A m \in 1..Len(entries') :
           entries'[m] = [role |-> "user", attempt |-> 0] => \E i \in 1..Len(facts') : facts'[i] = m
      /\ \A m \in 1..Len(entries) : m \in 1..Len(entries') /\ EntryRecord(m)' = EntryRecord(m)
      /\ \A i \in 1..Len(facts) : i \in 1..Len(facts') /\ facts'[i] = facts[i]
  BY <1>1, <1>2, MessageGrowth
<1>4. /\ Replica!IsInjective(commands') /\ Replica!Range(commands') = 1..Len(commands')
      /\ commands' \in Seq(Nat) /\ \A n \in 1..Len(commands) : n \in 1..Len(commands')
  BY <1>1, AcceptGrows
<1>5. assets \in 0..MaxAssets /\ assets \in Nat /\ removed \in BOOLEAN
  BY DEF DialogTypes, Replica!ReplicaAssumption
<1>6. texts' \in Seq(Replica!TextsOrNone)'
  BY <1>1 DEF HistoryInv, Replica!TextsOrNone
<1>7. DialogTypes'
  BY <1>1, <1>3, <1>4, <1>5 DEF DialogTypes, Replica!IsInjective, Replica!Range
<1>8. HistoryInv'
  BY <1>3, <1>4, <1>6 DEF HistoryInv
<1>9. Growth
  BY <1>1, <1>3, <1>4, <1>5 DEF Growth
<1> QED  BY <1>1, <1>7, <1>8, <1>9

\* An assistant message, with its text or the marker that it is not kept.
LEMMA AssistantGrowth ==
  ASSUME Replica!ReplicaAssumption, DialogTypes, HistoryInv,
         NEW chunks \in Replica!TextsOrNone, Replica!AssistantMessage(chunks)
  PROVE  DialogTypes' /\ HistoryInv' /\ Growth /\ Untouched
<1> DEFINE e == [role |-> "assistant", attempt |-> 1]
<1>1. /\ Len(entries) < MaxMessages /\ Len(facts) < MaxFacts /\ entries' = Append(entries, e)
      /\ facts' = Append(facts, Len(entries) + 1) /\ texts' = Append(texts, chunks)
      /\ UNCHANGED <<commands, assets, removed>> /\ Untouched
  BY DEF Replica!AssistantMessage, Untouched
<1>2. e \in Message
  BY DEF Message
<1> HIDE DEF e
<1>3. /\ entries' \in Seq(Message) /\ Len(entries') <= MaxMessages
      /\ facts' \in Seq(0..MaxMessages) /\ Len(facts') <= MaxFacts
      /\ \A i \in 1..Len(facts') : facts'[i] <= Len(entries')
      /\ \A m \in 1..Len(entries') :
           entries'[m] = [role |-> "user", attempt |-> 0] => \E i \in 1..Len(facts') : facts'[i] = m
      /\ \A m \in 1..Len(entries) : m \in 1..Len(entries') /\ EntryRecord(m)' = EntryRecord(m)
      /\ \A i \in 1..Len(facts) : i \in 1..Len(facts') /\ facts'[i] = facts[i]
  BY <1>1, <1>2, MessageGrowth
<1>4. commands \in Seq(Nat) /\ texts \in Seq(Replica!TextsOrNone) /\ Len(texts) \in Nat
  BY DEF HistoryInv
<1>5. assets \in 0..MaxAssets /\ assets \in Nat /\ removed \in BOOLEAN
  BY DEF DialogTypes, Replica!ReplicaAssumption
<1>6. /\ texts' \in Seq(Replica!TextsOrNone)
      /\ \A t \in 1..Len(texts) : t \in 1..Len(texts') /\ texts'[t] = texts[t]
  <2> DEFINE S == Replica!TextsOrNone
  <2>1. texts \in Seq(S) /\ chunks \in S
    BY <1>4
  <2> HIDE DEF S
  <2>2. Append(texts, chunks) \in Seq(S) /\ Len(Append(texts, chunks)) = Len(texts) + 1
    BY <2>1
  <2>3. \A t \in 1..Len(texts) : Append(texts, chunks)[t] = texts[t]
    BY <2>1
  <2>4. \A t \in 1..Len(texts) : t \in 1..(Len(texts) + 1)
    BY <1>4
  <2> QED  BY <1>1, <2>2, <2>3, <2>4 DEF S
<1>7. DialogTypes'
  <2>1. Replica!IsInjective(commands') /\ Replica!Range(commands') = 1..Len(commands')
    BY <1>1 DEF DialogTypes
  <2> QED  BY <1>1, <1>3, <1>5, <2>1 DEF DialogTypes, Replica!IsInjective, Replica!Range
<1>8. HistoryInv'
  <2>1. texts' \in Seq(Replica!TextsOrNone)'
    BY <1>6 DEF Replica!TextsOrNone
  <2> QED  BY <1>1, <1>3, <1>4, <2>1 DEF HistoryInv
<1>9. Growth
  BY <1>1, <1>3, <1>5, <1>6 DEF Growth
<1> QED  BY <1>1, <1>7, <1>8, <1>9

\* Events more, and messages that stay what they are or are given their attempt.
LEMMA EventGrowth ==
  ASSUME Replica!ReplicaAssumption, DialogTypes, HistoryInv, NEW x \in 0..Len(entries),
         Len(facts) < MaxFacts, facts' = Append(facts, x),
         entries' \in Seq(Message), Len(entries') = Len(entries),
         \A m \in 1..Len(entries) :
           \/ entries'[m] = entries[m]
           \/ m = x /\ entries[m] = [role |-> "user", attempt |-> 0]
                    /\ entries'[m] = [role |-> "user", attempt |-> 1]
  PROVE  /\ Len(entries') <= MaxMessages
         /\ facts' \in Seq(0..MaxMessages) /\ Len(facts') <= MaxFacts
         /\ \A i \in 1..Len(facts') : facts'[i] <= Len(entries')
         /\ \A m \in 1..Len(entries') :
              entries'[m] = [role |-> "user", attempt |-> 0]
                => \E i \in 1..Len(facts') : facts'[i] = m
         /\ (x = 0 \/ entries[x] = [role |-> "user", attempt |-> 0]) =>
              \A m \in 1..Len(entries) :
                m \in 1..Len(entries') /\ EntryRecord(m)' = EntryRecord(m)
         /\ \A i \in 1..Len(facts) : i \in 1..Len(facts') /\ facts'[i] = facts[i]
<1> DEFINE n == Len(entries)
<1> DEFINE k == Len(facts)
<1> DEFINE waits == [role |-> "user", attempt |-> 0]
<1>1. /\ n \in Nat /\ k \in Nat /\ MaxMessages \in Nat /\ MaxFacts \in Nat /\ n <= MaxMessages
      /\ facts \in Seq(0..MaxMessages) /\ k <= MaxFacts
  BY DEF DialogTypes, HistoryInv, Replica!ReplicaAssumption
<1>2. \A i \in 1..k : facts[i] \in 0..MaxMessages /\ facts[i] <= n
  <2>1. \A i \in 1..k : facts[i] \in 0..MaxMessages
    BY <1>1
  <2> QED  BY <2>1 DEF HistoryInv
<1>3. \A m \in 1..n : entries[m] = waits => \E i \in 1..k : facts[i] = m
  BY DEF HistoryInv
<1>4. /\ facts' \in Seq(0..MaxMessages) /\ Len(facts') = k + 1 /\ facts'[k + 1] = x
      /\ \A i \in 1..k : facts'[i] = facts[i]
  <2>1. x \in 0..MaxMessages
    BY <1>1
  <2> QED  BY <1>1, <2>1
<1>5. \A i \in 1..(k + 1) : i = k + 1 \/ i \in 1..k
  BY <1>1
<1>6. \A i \in 1..k : i \in 1..(k + 1)
  BY <1>1
<1>7. waits # [role |-> "user", attempt |-> 1]
  OBVIOUS
<1>8. \A i \in 1..Len(facts') : facts'[i] <= n
  BY <1>1, <1>2, <1>4, <1>5
<1>9. \A m \in 1..n : entries'[m] = waits => \E i \in 1..Len(facts') : facts'[i] = m
  <2> SUFFICES ASSUME NEW m \in 1..n, entries'[m] = waits
               PROVE  \E i \in 1..Len(facts') : facts'[i] = m
    OBVIOUS
  <2>1. entries[m] = waits
    BY <1>7
  <2>2. PICK i \in 1..k : facts[i] = m
    BY <1>3, <2>1
  <2> QED  BY <1>4, <1>6, <2>2
<1>10. ASSUME x = 0 \/ entries[x] = waits, NEW m \in 1..n
       PROVE  EntryRecord(m)' = EntryRecord(m)
  <2>1. DialogOK
    BY DialogIsOK
  <2>2. x # m \/ \E i \in 1..Len(facts) : facts[i] = m
    <3>1. CASE x = m
      <4>1. entries[m] = waits
        BY <1>1, <1>10, <3>1
      <4> QED  BY <1>3, <4>1
    <3> QED  BY <3>1
  <2>3. Replica!AuthorEvent(m)' = Replica!AuthorEvent(m)
    <3>1. x \in Nat
      BY <1>1
    <3> QED  BY <2>1, <2>2, <3>1, AuthorStays
  <2>4. CASE entries'[m] = entries[m]
    BY <2>3, <2>4, EntryStays
  <2>5. CASE entries[m] = waits /\ entries'[m] = [role |-> "user", attempt |-> 1]
    <3>1. entries[m].role = "user" /\ entries'[m].role = "user" /\ "user" # "assistant"
      BY <2>5
    <3> QED  BY <2>3, <3>1, EntryStays
  <2> QED  BY <2>4, <2>5
<1>11. k + 1 <= MaxFacts
  BY <1>1
<1> QED  BY <1>1, <1>4, <1>6, <1>8, <1>9, <1>10, <1>11

\* What of the types and of the history a step that adds no command and no text keeps.
LEMMA EventKeeps ==
  ASSUME Replica!ReplicaAssumption, DialogTypes, HistoryInv,
         UNCHANGED <<commands, texts, removed>>, assets' \in 0..MaxAssets, assets <= assets',
         entries' \in Seq(Message), Len(entries') <= MaxMessages,
         facts' \in Seq(0..MaxMessages), Len(facts') <= MaxFacts,
         \A i \in 1..Len(facts') : facts'[i] <= Len(entries'),
         \A m \in 1..Len(entries') :
           entries'[m] = [role |-> "user", attempt |-> 0]
             => \E i \in 1..Len(facts') : facts'[i] = m,
         \A m \in 1..Len(entries) : m \in 1..Len(entries') /\ EntryRecord(m)' = EntryRecord(m),
         \A i \in 1..Len(facts) : i \in 1..Len(facts') /\ facts'[i] = facts[i]
  PROVE  DialogTypes' /\ HistoryInv' /\ Growth
<1>1. /\ Replica!IsInjective(commands') /\ Replica!Range(commands') = 1..Len(commands')
      /\ removed' \in BOOLEAN
  BY DEF DialogTypes
<1>2. commands' \in Seq(Nat) /\ texts' \in Seq(Replica!TextsOrNone)'
  BY DEF HistoryInv, Replica!TextsOrNone
<1>3. assets' \in Nat
  BY DEF Replica!ReplicaAssumption
<1>4. DialogTypes'
  BY <1>1 DEF DialogTypes, Replica!IsInjective, Replica!Range
<1>5. HistoryInv'
  BY <1>2 DEF HistoryInv
<1> QED  BY <1>3, <1>4, <1>5 DEF Growth

\* A message is given its attempt (DispatchNext).
LEMMA DispatchGrowth ==
  ASSUME Replica!ReplicaAssumption, DialogTypes, HistoryInv,
         NEW d \in 1..Len(entries), Replica!Dispatch(d)
  PROVE  DialogTypes' /\ HistoryInv' /\ Growth /\ Untouched
<1> DEFINE waits == [role |-> "user", attempt |-> 0]
<1>1. /\ Len(facts) < MaxFacts /\ entries[d] = waits
      /\ entries' = [entries EXCEPT ![d].attempt = 1] /\ facts' = Append(facts, d)
      /\ UNCHANGED <<commands, texts, assets, removed>> /\ Untouched
  BY DEF Replica!Dispatch, Untouched
<1>2. /\ Len(entries) \in Nat /\ entries \in Seq(Message) /\ assets \in 0..MaxAssets
      /\ assets \in Nat
  BY DEF DialogTypes, Replica!ReplicaAssumption
<1>3. /\ entries' \in Seq(Message) /\ Len(entries') = Len(entries)
      /\ \A m \in 1..Len(entries) : m # d => entries'[m] = entries[m]
      /\ entries'[d] = [entries[d] EXCEPT !.attempt = 1]
  <2>1. [entries[d] EXCEPT !.attempt = 1] \in Message
    <3>1. [waits EXCEPT !.attempt = 1] \in Message
      BY DEF Message
    <3> QED  BY <1>1, <3>1
  <2>2. PICK e : e = [entries[d] EXCEPT !.attempt = 1]
    OBVIOUS
  <2>3. entries' = [entries EXCEPT ![d] = e]
    BY <1>1, <2>2
  <2> QED  BY <1>2, <2>1, <2>2, <2>3
<1>4. entries'[d] = [role |-> "user", attempt |-> 1]
  BY <1>1, <1>3
<1>5. \A m \in 1..Len(entries) :
        \/ entries'[m] = entries[m]
        \/ m = d /\ entries[m] = waits /\ entries'[m] = [role |-> "user", attempt |-> 1]
  BY <1>1, <1>3, <1>4
<1>6. d \in 0..Len(entries)
  BY <1>2
<1>7. /\ Len(entries') <= MaxMessages
      /\ facts' \in Seq(0..MaxMessages) /\ Len(facts') <= MaxFacts
      /\ \A i \in 1..Len(facts') : facts'[i] <= Len(entries')
      /\ \A m \in 1..Len(entries') :
           entries'[m] = waits => \E i \in 1..Len(facts') : facts'[i] = m
      /\ \A m \in 1..Len(entries) :
           m \in 1..Len(entries') /\ EntryRecord(m)' = EntryRecord(m)
      /\ \A i \in 1..Len(facts) : i \in 1..Len(facts') /\ facts'[i] = facts[i]
  BY <1>1, <1>3, <1>5, <1>6, EventGrowth
<1>8. assets' \in 0..MaxAssets /\ assets <= assets'
  BY <1>1, <1>2
<1> QED  BY <1>1, <1>3, <1>7, <1>8, EventKeeps

\* StoreArtifact.
LEMMA ArtifactGrowth ==
  ASSUME Replica!ReplicaAssumption, DialogTypes, HistoryInv, Replica!StoreArtifact
  PROVE  DialogTypes' /\ HistoryInv' /\ Growth /\ Untouched
<1>1. /\ Len(facts) < MaxFacts /\ assets < MaxAssets /\ assets' = assets + 1
      /\ facts' = Append(facts, 0)
      /\ UNCHANGED <<entries, commands, texts, removed>> /\ Untouched
  BY DEF Replica!StoreArtifact, Untouched
<1>2. /\ Len(entries) \in Nat /\ entries' \in Seq(Message) /\ assets \in 0..MaxAssets
      /\ assets \in Nat /\ MaxAssets \in Nat
  BY <1>1 DEF DialogTypes, Replica!ReplicaAssumption
<1>3. 0 \in 0..Len(entries) /\ Len(entries') = Len(entries)
  BY <1>1, <1>2
<1>4. /\ Len(entries') <= MaxMessages
      /\ facts' \in Seq(0..MaxMessages) /\ Len(facts') <= MaxFacts
      /\ \A i \in 1..Len(facts') : facts'[i] <= Len(entries')
      /\ \A m \in 1..Len(entries') :
           entries'[m] = [role |-> "user", attempt |-> 0]
             => \E i \in 1..Len(facts') : facts'[i] = m
      /\ \A m \in 1..Len(entries) :
           m \in 1..Len(entries') /\ EntryRecord(m)' = EntryRecord(m)
      /\ \A i \in 1..Len(facts) : i \in 1..Len(facts') /\ facts'[i] = facts[i]
  BY <1>1, <1>2, <1>3, EventGrowth
<1>5. assets' \in 0..MaxAssets /\ assets <= assets'
  BY <1>1, <1>2
<1> QED  BY <1>1, <1>2, <1>4, <1>5, EventKeeps

\* The dialog is deleted.
LEMMA DeleteGrowth ==
  ASSUME Replica!ReplicaAssumption, DialogTypes, HistoryInv, Replica!Delete
  PROVE  DialogTypes' /\ HistoryInv' /\ Growth /\ Untouched
<1>1. /\ removed' = TRUE /\ UNCHANGED <<entries, facts, commands, texts, assets>> /\ Untouched
  BY DEF Replica!Delete, Untouched
<1>2. DialogTypes'
  BY <1>1 DEF DialogTypes, Replica!IsInjective, Replica!Range
<1>3. HistoryInv'
  BY <1>1 DEF HistoryInv, Replica!TextsOrNone
<1>4. assets' \in Nat /\ assets <= assets'
  BY <1>1 DEF DialogTypes, Replica!ReplicaAssumption
<1>5. \A m \in 1..Len(entries) : EntryRecord(m)' = EntryRecord(m)
  BY <1>1 DEF EntryRecord, Replica!SourceGeneration, Replica!Record, Replica!AuthorEvent, Replica!Min
<1> QED  BY <1>1, <1>2, <1>3, <1>4, <1>5 DEF Growth

\* Everything the node commits.
LEMMA WorkGrowth ==
  ASSUME Replica!ReplicaAssumption, DialogTypes, HistoryInv, Replica!Work
  PROVE  DialogTypes' /\ HistoryInv' /\ Growth /\ Untouched
<1>1. CASE \E place \in 1..(Len(commands) + 1) : Replica!Enqueue(place)
  BY <1>1, EnqueueGrowth
<1>2. CASE \E place \in 1..(Len(commands) + 1) : Replica!AnswerInput(place)
  BY <1>2, AnswerGrowth
<1>3. CASE \E m \in 1..Len(entries) : Replica!Dispatch(m)
  BY <1>3, DispatchGrowth
<1>4. CASE \E chunks \in Replica!TextsOrNone : Replica!AssistantMessage(chunks)
  BY <1>4, AssistantGrowth
<1>5. CASE Replica!StoreArtifact
  BY <1>5, ArtifactGrowth
<1>6. CASE Replica!Delete
  BY <1>6, DeleteGrowth
<1> QED  BY <1>1, <1>2, <1>3, <1>4, <1>5, <1>6 DEF Replica!Work

\* What could be sealed still can.
LEMMA GenuineGrows ==
  ASSUME DialogOK, Growth
  PROVE  Genuine \subseteq Genuine'
<1> SUFFICES ASSUME NEW r \in Genuine PROVE r \in Genuine'
  OBVIOUS
<1>1. CASE \E m \in 1..Len(entries) : r = EntryRecord(m)
  <2>1. PICK m \in 1..Len(entries) : r = EntryRecord(m)
    BY <1>1
  <2>2. m \in 1..Len(entries') /\ r = EntryRecord(m)'
    BY <2>1 DEF Growth
  <2> QED  BY <2>2 DEF Genuine
<1>2. CASE \E i \in 1..Len(facts) : r = FactRecord(i)
  <2>1. PICK i \in 1..Len(facts) : r = FactRecord(i)
    BY <1>2
  <2>2. i \in 1..Len(facts') /\ r = FactRecord(i)'
    BY <2>1 DEF Growth, FactRecord, Replica!Record
  <2> QED  BY <2>2 DEF Genuine
<1>3. CASE \E n \in 1..Len(commands) : r = ReceiptRecord(n)
  <2>1. PICK n \in 1..Len(commands) : r = ReceiptRecord(n)
    BY <1>3
  <2>2. n \in 1..Len(commands') /\ r = ReceiptRecord(n)'
    BY <2>1 DEF Growth, ReceiptRecord, Replica!Record
  <2> QED  BY <2>2 DEF Genuine
<1>4. CASE \E t \in 1..Len(texts) : r = TextRecord(t)
  <2>1. PICK t \in 1..Len(texts) : r = TextRecord(t)
    BY <1>4
  <2>2. t \in 1..Len(texts') /\ r = TextRecord(t)'
    BY <2>1 DEF Growth, TextRecord, Replica!Record
  <2>3. r \in TextsSealed(Len(texts))'
    BY <2>2 DEF TextsSealed
  <2> QED  BY <2>3 DEF Genuine
<1>5. CASE \E t \in 1..Len(texts), i \in Nat : r = ChunkRecord(t, i)
  <2>1. PICK t \in 1..Len(texts), i \in Nat : r = ChunkRecord(t, i)
    BY <1>5
  <2>2. t \in 1..Len(texts') /\ r = ChunkRecord(t, i)'
    BY <2>1 DEF Growth, ChunkRecord, Replica!Record
  <2>3. r \in TextsSealed(Len(texts))'
    BY <2>1, <2>2 DEF TextsSealed
  <2> QED  BY <2>3 DEF Genuine
<1>6. CASE \E n \in 0..assets, v \in Nat : r = Manifest(n, v)
  <2>1. PICK n \in 0..assets, v \in Nat : r = Manifest(n, v)
    BY <1>6
  <2>2. n \in 0..assets' /\ r = Manifest(n, v)'
    BY <2>1 DEF Growth, DialogOK, Manifest, Replica!Record
  <2> QED  BY <2>1, <2>2 DEF Genuine
<1> QED  BY <1>1, <1>2, <1>3, <1>4, <1>5, <1>6 DEF Genuine, TextsSealed

\* SyncedInv after a step that leaves the copies: only the texts are others.
LEMMA SyncAfter ==
  ASSUME \A b \in Bindings : copy'[b] = copy[b] /\ synced'[b] = synced[b],
         \A b \in Bindings : synced[b] # None =>
           /\ \A n \in 1..synced[b].messages : HasId(copy[b], "entry", n)
           /\ \A n \in 1..synced[b].facts : HasId(copy[b], "fact", n)
           /\ \A n \in 1..synced[b].commands : HasId(copy[b], "receipt", n)
           /\ \A n \in 1..synced[b].texts : HasId(copy[b], "text", n)
           /\ HasId(copy[b], "assets", synced[b].assets)
           /\ synced[b].ready => \A t \in 1..synced[b].texts :
                /\ texts'[t] # None
                /\ \A i \in 1..Replica!ChunkCount(texts'[t]) :
                     HasId(copy[b], "chunk", <<t, i>>)
  PROVE  SyncedInv'
<1>1. \A b \in Bindings : \A type, id : HasId(copy[b], type, id)' = HasId(copy[b], type, id)
  BY DEF HasId
<1>2. \A t : Replica!ChunkCount(texts[t])' = Replica!ChunkCount(texts'[t])
  OBVIOUS
<1> SUFFICES ASSUME NEW b \in Bindings, synced[b]' # None
             PROVE  /\ \A n \in 1..synced[b]'.messages : HasId(copy[b], "entry", n)'
                    /\ \A n \in 1..synced[b]'.facts : HasId(copy[b], "fact", n)'
                    /\ \A n \in 1..synced[b]'.commands : HasId(copy[b], "receipt", n)'
                    /\ \A n \in 1..synced[b]'.texts : HasId(copy[b], "text", n)'
                    /\ HasId(copy[b], "assets", synced[b].assets)'
                    /\ synced[b]'.ready => \A t \in 1..synced[b]'.texts :
                         /\ texts'[t] # None
                         /\ \A i \in 1..Replica!ChunkCount(texts'[t]) :
                              HasId(copy[b], "chunk", <<t, i>>)'
  BY <1>2 DEF SyncedInv
<1>3. synced[b]' = synced[b]
  OBVIOUS
<1>4. HasId(copy[b], "assets", synced[b].assets)' = HasId(copy[b], "assets", synced[b].assets)
  BY DEF HasId
<1>5. \A n : HasId(copy[b], "entry", n)' = HasId(copy[b], "entry", n)
  BY <1>1
<1> QED  BY <1>1, <1>3, <1>4

\* A commit leaves what was sealed and what the coordinator has.
LEMMA WorkKeeps ==
  ASSUME Replica!ReplicaAssumption, ReplicaInv, Replica!Work
  PROVE  ReplicaInv'
<1>1. DialogTypes /\ HistoryInv /\ StreamInv /\ AssetInv /\ OrderInv /\ SyncedInv
  BY DEF ReplicaInv
<1>2. DialogTypes' /\ HistoryInv' /\ Growth /\ Untouched
  BY <1>1, WorkGrowth
<1>3. DialogOK
  BY <1>1, DialogIsOK
<1>4. Genuine \subseteq Genuine'
  BY <1>2, <1>3, GenuineGrows
<1>5. UNCHANGED <<streams, copy, synced, lost>>
  BY <1>2 DEF Untouched
<1>6. StreamInv'
  <2> DEFINE S == Genuine
  <2> DEFINE T == Genuine'
  <2>1. /\ streams \in [Bindings -> Seq(S)] /\ copy \in [Bindings -> Seq(S)] /\ S \subseteq T
        /\ synced = [b \in Bindings |-> synced[b]] /\ lost \in 0..MaxLost
    BY <1>1, <1>4 DEF StreamInv
  <2>2. \A b \in Bindings : Starts(copy[b], streams[b]) /\ Distinct(streams[b])
    BY <1>1 DEF StreamInv
  <2>3. streams \in [Bindings -> Seq(T)] /\ copy \in [Bindings -> Seq(T)]
    <3> HIDE DEF S, T
    <3>1. Seq(S) \subseteq Seq(T)
      BY <2>1, SeqWidens
    <3> QED  BY <2>1, <3>1
  <2>4. streams' \in [Bindings -> Seq(T)] /\ copy' \in [Bindings -> Seq(T)]
    BY <1>5, <2>3
  <2>5. synced' = [b \in Bindings |-> synced'[b]] /\ lost' \in 0..MaxLost
    BY <1>5, <2>1
  <2>6. \A b \in Bindings : Starts(copy'[b], streams'[b]) /\ Distinct(streams'[b])
    BY <1>5, <2>2
  <2> QED  BY <2>4, <2>5, <2>6 DEF StreamInv, Starts, Distinct, Apart
<1>7. Replica!AssetRecords' = Replica!AssetRecords
  BY <1>5 DEF Replica!AssetRecords, Replica!OfType
<1>8. AssetInv'
  <2>1. assets' \in Nat /\ assets <= assets' /\ assets \in Nat
    BY <1>2, <1>3 DEF Growth, DialogOK
  <2>2. \A n \in 0..assets : n \in 0..assets'
    BY <2>1
  <2> QED  BY <1>1, <1>7, <2>2 DEF AssetInv, Manifest, Replica!Record
<1>9. OrderInv'
  BY <1>1, <1>5 DEF OrderInv
<1>10. SyncedInv'
  <2>1. \A b \in Bindings : copy'[b] = copy[b] /\ synced'[b] = synced[b]
    BY <1>5
  <2>2. ASSUME NEW b \in Bindings, synced[b] # None
        PROVE  /\ \A n \in 1..synced[b].messages : HasId(copy[b], "entry", n)
               /\ \A n \in 1..synced[b].facts : HasId(copy[b], "fact", n)
               /\ \A n \in 1..synced[b].commands : HasId(copy[b], "receipt", n)
               /\ \A n \in 1..synced[b].texts : HasId(copy[b], "text", n)
               /\ HasId(copy[b], "assets", synced[b].assets)
               /\ synced[b].ready => \A t \in 1..synced[b].texts :
                    /\ texts'[t] # None
                    /\ \A i \in 1..Replica!ChunkCount(texts'[t]) :
                         HasId(copy[b], "chunk", <<t, i>>)
    <3>1. /\ \A n \in 1..synced[b].messages : HasId(copy[b], "entry", n)
          /\ \A n \in 1..synced[b].facts : HasId(copy[b], "fact", n)
          /\ \A n \in 1..synced[b].commands : HasId(copy[b], "receipt", n)
          /\ \A n \in 1..synced[b].texts : HasId(copy[b], "text", n)
          /\ HasId(copy[b], "assets", synced[b].assets)
          /\ synced[b].ready => \A t \in 1..synced[b].texts :
               /\ texts[t] # None
               /\ \A i \in 1..Replica!ChunkCount(texts[t]) : HasId(copy[b], "chunk", <<t, i>>)
      BY <1>1, <2>2 DEF SyncedInv
    <3>2. ASSUME NEW t \in 1..synced[b].texts PROVE texts'[t] = texts[t]
      <4>1. PICK i \in 1..Len(copy[b]) : copy[b][i].type = "text" /\ copy[b][i].id = t
        BY <3>1 DEF HasId
      <4>2. copy[b][i] \in Genuine
        <5> DEFINE S == Genuine
        <5>1. copy[b] \in Seq(S)
          BY <1>1 DEF StreamInv
        <5> HIDE DEF S
        <5>2. copy[b][i] \in S
          BY <5>1
        <5> QED  BY <5>2 DEF S
      <4>3. t \in 1..Len(texts)
        BY <4>1, <4>2, GenuineIs
      <4> QED  BY <1>2, <4>3 DEF Growth
    <3> QED  BY <3>1, <3>2
  <2> QED  BY <2>1, <2>2, SyncAfter
<1> QED  BY <1>2, <1>6, <1>8, <1>9, <1>10 DEF ReplicaInv

\* What the streams have agrees with what would be sealed now.
LEMMA NothingConflicts ==
  ASSUME Replica!ReplicaAssumption, DialogOK, StreamInv, AssetInv, Replica!TextsMatch, NEW b \in Bindings
  PROVE  ~Replica!Conflicts(b)
<1> SUFFICES ASSUME NEW i \in 1..Len(Replica!Candidates),
                    NEW q \in Replica!OfType(streams[b], Replica!Candidates[i].type),
                    q.id = Replica!Candidates[i].id
             PROVE  q = Replica!Candidates[i]
  BY DEF Replica!Conflicts
<1> DEFINE S == Genuine
<1> DEFINE c == Replica!Candidates
<1> DEFINE r == c[i]
<1>1. /\ c \in Seq(S) /\ \A e \in Elements(c) : e.type = "assets" => e = Replica!AssetManifest
  BY CandidatesListed
<1>2. r \in S /\ r \in Elements(c)
  <2> HIDE DEF S, c
  <2>1. i \in 1..Len(c)
    BY DEF c
  <2> QED  BY <1>1, <2>1 DEF Elements
<1>3. PICK j \in 1..Len(streams[b]) : q = streams[b][j] /\ q.type = r.type
  BY DEF Replica!OfType
<1>4. q \in S
  <2>1. streams[b] \in Seq(S)
    BY DEF StreamInv
  <2> HIDE DEF S
  <2> QED  BY <1>3, <2>1
<1>5. CASE r.type # "assets"
  <2> HIDE DEF r
  <2>1. r.id = q.id
    BY DEF r
  <2> QED  BY <1>2, <1>3, <1>4, <1>5, <2>1, GenuineUnique DEF r
<1>6. CASE r.type = "assets"
  <2>1. PICK v \in 1..(assets + 1) :
          /\ Replica!AssetManifest = Manifest(assets, v)
          /\ \A e \in Replica!AssetRecords :
               IF e.body = assets THEN e = Manifest(assets, v) ELSE e.revision < v
    BY AssetManifestIs
  <2>2. r = Manifest(assets, v)
    BY <1>1, <1>2, <1>6, <2>1
  <2>3. q \in Replica!AssetRecords
    BY <1>3, <1>6 DEF Replica!AssetRecords
  <2>4. q.body = q.id /\ r.id = assets
    <3>1. q = Manifest(q.body, q.revision)
      BY <2>3 DEF AssetInv
    <3>2. \A n, w : Manifest(n, w).id = n
      BY DEF Manifest, Replica!Record
    <3> QED  BY <2>2, <3>1, <3>2
  <2> QED  BY <2>1, <2>2, <2>3, <2>4
<1> QED  BY <1>5, <1>6

\* A page: records of the stream after those the coordinator has, none left out.
LEMMA StreamPage ==
  ASSUME Replica!ReplicaAssumption, NEW S, NEW stream \in Seq(S), NEW after \in 0..Len(stream)
  PROVE  /\ Replica!Page(stream, after) \in Seq(S)
         /\ Len(Replica!Page(stream, after)) <= Len(stream) - after
         /\ \A j \in 1..Len(Replica!Page(stream, after)) :
              Replica!Page(stream, after)[j] = stream[after + j]
<1> DEFINE m == IF after + ExportLimit < Len(stream) THEN after + ExportLimit ELSE Len(stream)
<1> DEFINE cut == Replica!Rows(stream, after)
<1> DEFINE T == {0} \cup {n \in 1..Len(cut) :
                            Replica!Fits(Replica!Sum([i \in 1..n |-> Replica!Bytes(cut[i])]))}
<1> DEFINE k == Replica!Max(T)
<1>1. ExportLimit \in Nat \ {0} /\ Len(stream) \in Nat /\ after \in 0..Len(stream)
  BY DEF Replica!ReplicaAssumption
<1>2. after + 1 \in 1..(Len(stream) + 1) /\ m \in 0..Len(stream) /\ after + 1 <= m + 1
  BY <1>1
<1>3. cut = SubSeq(stream, after + 1, m)
  BY DEF Replica!Rows
<1>4. Replica!Page(stream, after) = SubSeq(cut, 1, k)
  BY DEF Replica!Page
<1> HIDE DEF m, cut, k
<1>5. /\ cut \in Seq(S) /\ Len(cut) = m - (after + 1) + 1
      /\ \A j \in 1..(m - (after + 1) + 1) : cut[j] = stream[after + 1 + j - 1]
  <2>1. PICK a : a = after + 1
    OBVIOUS
  <2>2. a \in 1..(Len(stream) + 1) /\ m \in 0..Len(stream) /\ a <= m + 1
    BY <1>2, <2>1
  <2>3. /\ SubSeq(stream, a, m) \in Seq(S) /\ Len(SubSeq(stream, a, m)) = m - a + 1
        /\ \A j \in 1..(m - a + 1) : SubSeq(stream, a, m)[j] = stream[a + j - 1]
    BY <2>2, PartOf
  <2> QED  BY <1>3, <2>1, <2>3
<1>6. Len(cut) \in Nat /\ Len(cut) = m - after /\ Len(cut) <= Len(stream) - after
  BY <1>1, <1>2, <1>5
<1>7. \A j \in 1..Len(cut) : cut[j] = stream[after + j]
  <2>1. \A j \in 1..Len(cut) : j \in 1..(m - (after + 1) + 1) /\ after + 1 + j - 1 = after + j
    BY <1>1, <1>2, <1>6
  <2> QED  BY <1>5, <2>1
<1>8. T \subseteq 0..Len(cut) /\ T # {}
  BY <1>6
<1>9. k \in 0..Len(cut)
  <2> HIDE DEF T
  <2>1. Replica!Max(T) \in T
    BY <1>6, <1>8, GreatestIs
  <2> QED  BY <1>8, <2>1 DEF k
<1>10. /\ SubSeq(cut, 1, k) \in Seq(S) /\ Len(SubSeq(cut, 1, k)) = k
       /\ \A j \in 1..k : SubSeq(cut, 1, k)[j] = cut[j]
  <2>1. 1 \in 1..(Len(cut) + 1) /\ 1 <= k + 1 /\ k - 1 + 1 = k
    BY <1>6, <1>9
  <2>2. /\ SubSeq(cut, 1, k) \in Seq(S) /\ Len(SubSeq(cut, 1, k)) = k - 1 + 1
        /\ \A j \in 1..(k - 1 + 1) : SubSeq(cut, 1, k)[j] = cut[1 + j - 1]
    BY <1>5, <1>9, <2>1, PartOf
  <2>3. \A j \in 1..k : 1 + j - 1 = j
    BY <1>6, <1>9
  <2> QED  BY <2>1, <2>2, <2>3
<1>11. \A j \in 1..k : j \in 1..Len(cut)
  BY <1>6, <1>9
<1>12. k <= Len(stream) - after
  BY <1>1, <1>6, <1>9
<1> QED  BY <1>4, <1>7, <1>10, <1>11, <1>12

\* With a page the copy is a longer start of the stream, or all of it.
LEMMA CopyGrows ==
  ASSUME Replica!ReplicaAssumption, NEW S, NEW c \in Seq(S), NEW s \in Seq(S), Starts(c, s)
  PROVE  LET p == Replica!Page(s, Len(c))
         IN /\ c \o p \in Seq(S) /\ Starts(c \o p, s) /\ Starts(c, c \o p)
            /\ Len(c) + Len(p) = Len(s) => c \o p = s
<1> DEFINE p == Replica!Page(s, Len(c))
<1>1. Len(c) \in 0..Len(s) /\ Len(c) \in Nat /\ Len(s) \in Nat /\ \A i \in 1..Len(c) : c[i] = s[i]
  BY DEF Starts
<1>2. p \in Seq(S) /\ Len(p) <= Len(s) - Len(c) /\ \A j \in 1..Len(p) : p[j] = s[Len(c) + j]
  <2>1. PICK n : n = Len(c)
    OBVIOUS
  <2>2. n \in 0..Len(s)
    BY <1>1, <2>1
  <2>3. /\ Replica!Page(s, n) \in Seq(S) /\ Len(Replica!Page(s, n)) <= Len(s) - n
        /\ \A j \in 1..Len(Replica!Page(s, n)) : Replica!Page(s, n)[j] = s[n + j]
    BY <2>2, StreamPage
  <2> QED  BY <2>1, <2>3
<1> HIDE DEF p
<1> DEFINE q == c \o p
<1>3. q \in Seq(S) /\ Len(q) = Len(c) + Len(p) /\ \A i \in 1..Len(c) : q[i] = c[i]
  BY <1>2, JoinedIs
<1>4. ASSUME NEW i \in 1..Len(q) PROVE q[i] = s[i]
  <2>1. \/ i \in 1..Len(c) /\ q[i] = c[i]
        \/ i - Len(c) \in 1..Len(p) /\ q[i] = p[i - Len(c)]
    BY <1>2, <1>4, JoinedPlaces
  <2>2. CASE i \in 1..Len(c) /\ q[i] = c[i]
    BY <1>1, <2>2
  <2>3. CASE i - Len(c) \in 1..Len(p) /\ q[i] = p[i - Len(c)]
    <3>1. i \in Int /\ Len(c) + (i - Len(c)) = i
      BY <1>1, <1>3, <2>3
    <3> HIDE DEF q
    <3> QED  BY <1>2, <2>3, <3>1
  <2> QED  BY <2>1, <2>2, <2>3
<1> HIDE DEF q
<1>5. Len(p) \in Nat
  BY <1>2
<1>6. Len(q) <= Len(s) /\ Len(c) <= Len(q)
  BY <1>1, <1>2, <1>3, <1>5
<1>7. Starts(q, s) /\ Starts(c, q)
  BY <1>3, <1>4, <1>6 DEF Starts
<1>8. Len(c) + Len(p) = Len(s) => q = s
  BY <1>3, <1>4, SameSequence
<1> QED  BY <1>3, <1>7, <1>8 DEF q, p

\* What is sealed when a stream is brought up to date.
LEMMA MaterializedIs ==
  ASSUME Replica!ReplicaAssumption, DialogOK, StreamInv, AssetInv, Replica!TextsMatch, NEW b \in Bindings
  PROVE  /\ Replica!Unsealed(b) \in Seq(Genuine)
         /\ Replica!Materialized(b) \in Seq(Genuine) /\ Distinct(Replica!Materialized(b))
         /\ \A r \in Elements(Replica!Unsealed(b)) : r \in Elements(Replica!Candidates)
         /\ \A r \in Elements(Replica!Candidates) : HasId(Replica!Materialized(b), r.type, r.id)
<1> DEFINE S == Genuine
<1> DEFINE c == Replica!Candidates
<1> DEFINE places == {i \in 1..Len(c) : ~Replica!Sealed(b, c[i])}
<1> DEFINE u == Replica!Unsealed(b)
<1> DEFINE s == streams[b]
<1>1. c \in Seq(S) /\ Distinct(c)
  BY CandidatesListed
<1>2. s \in Seq(S) /\ Distinct(s)
  BY DEF StreamInv
<1>3. \A r : Replica!Sealed(b, r) <=> HasId(s, r.type, r.id)
  BY DEF Replica!Sealed, Replica!OfType, HasId
<1>4. u = Replica!Select(c, places)
  BY DEF Replica!Unsealed
<1>5. /\ u \in Seq(S) /\ Distinct(u)
      /\ Elements(u) = {c[i] : i \in {k \in 1..Len(c) : k \in places}}
  <2> HIDE DEF S, c, places, u
  <2> QED  BY <1>1, <1>4, SelectDistinct
<1>6. Replica!Materialized(b) = s \o u
  BY DEF Replica!Materialized
<1>7. \A r \in Elements(c) : r \in Elements(u) <=> ~HasId(s, r.type, r.id)
  <2> HIDE DEF S, c, u, s
  <2>1. TAKE r \in Elements(c)
  <2>2. ASSUME r \in Elements(u) PROVE ~HasId(s, r.type, r.id)
    BY <1>3, <1>5, <2>2
  <2>3. ASSUME ~HasId(s, r.type, r.id) PROVE r \in Elements(u)
    <3>1. PICK i \in 1..Len(c) : r = c[i]
      BY DEF Elements
    <3>2. i \in places
      BY <1>3, <2>3, <3>1
    <3> QED  BY <1>5, <3>1, <3>2
  <2> QED  BY <2>2, <2>3
<1>8. \A r \in Elements(u) : r \in Elements(c)
  <2> HIDE DEF S, c, u, s
  <2> QED  BY <1>5 DEF Elements
<1> HIDE DEF S, c, u, s, places
<1>9. \A r \in Elements(s) : \A q \in Elements(u) : Apart(r, q)
  <2> SUFFICES ASSUME NEW i \in 1..Len(s), NEW q \in Elements(u) PROVE Apart(s[i], q)
    BY DEF Elements
  <2>1. ~HasId(s, q.type, q.id)
    BY <1>7, <1>8
  <2> QED  BY <2>1 DEF HasId, Apart
<1>10. s \o u \in Seq(S) /\ Distinct(s \o u)
  BY <1>2, <1>5, <1>9, Joined, JoinedDistinct
<1>11. Elements(s \o u) = Elements(s) \cup Elements(u)
  BY <1>2, <1>5, JoinedElements
<1>12. ASSUME NEW t, NEW r \in Elements(t) PROVE HasId(t, r.type, r.id)
  BY DEF Elements, HasId
<1>13. ASSUME NEW r \in Elements(c) PROVE HasId(s \o u, r.type, r.id)
  <2>1. CASE r \in Elements(u)
    <3>1. PICK t : t = s \o u
      OBVIOUS
    <3>2. r \in Elements(t)
      BY <1>11, <2>1, <3>1
    <3>3. HasId(t, r.type, r.id)
      BY <1>12, <3>2
    <3> QED  BY <3>1, <3>3
  <2>2. CASE HasId(s, r.type, r.id)
    <3>1. PICK i \in 1..Len(s) : s[i].type = r.type /\ s[i].id = r.id
      BY <2>2 DEF HasId
    <3>2. i \in 1..Len(s \o u) /\ (s \o u)[i] = s[i]
      <4>1. (s \o u)[i] = s[i] /\ Len(s \o u) = Len(s) + Len(u) /\ Len(s) \in Nat /\ Len(u) \in Nat
        BY <1>2, <1>5, JoinedIs
      <4> QED  BY <4>1
    <3> QED  BY <3>1, <3>2 DEF HasId
  <2> QED  BY <1>7, <2>1, <2>2
<1>14. \A r \in Elements(c) : HasId(s \o u, r.type, r.id)
  BY <1>13
<1> QED  BY <1>5, <1>6, <1>8, <1>10, <1>14 DEF S, c, u

\* A longer copy has what a shorter one had.
LEMMA HasIdGrows ==
  ASSUME NEW S, NEW p \in Seq(S), NEW q \in Seq(S), Starts(p, q), NEW type, NEW id, HasId(p, type, id)
  PROVE  HasId(q, type, id)
<1>1. PICK i \in 1..Len(p) : p[i].type = type /\ p[i].id = id
  BY DEF HasId
<1>2. i \in 1..Len(q) /\ q[i] = p[i]
  BY DEF Starts
<1> QED  BY <1>1, <1>2 DEF HasId

\* What a coordinator has of an answer that brings it to the end of the stream.
Whole(s) ==
  /\ \A n \in 1..Len(entries) : HasId(s, "entry", n)
  /\ \A n \in 1..Len(facts) : HasId(s, "fact", n)
  /\ \A n \in 1..Len(commands) : HasId(s, "receipt", n)
  /\ \A n \in 1..Len(texts) : HasId(s, "text", n)
  /\ HasId(s, "assets", assets)
  /\ \A t \in 1..Len(texts) : texts[t] # None =>
       \A i \in 1..Replica!ChunkCount(texts[t]) : HasId(s, "chunk", <<t, i>>)

\* A stream that is up to date has it all.
LEMMA StreamIsWhole ==
  ASSUME Replica!ReplicaAssumption, DialogOK, StreamInv, AssetInv, Replica!TextsMatch, NEW b \in Bindings
  PROVE  Whole(Replica!Materialized(b))
<1> DEFINE E == Elements(Replica!Candidates)
<1> DEFINE s == Replica!Materialized(b)
<1>1. Covers(E)
  BY CandidatesListed
<1>2. \A r \in E : HasId(s, r.type, r.id)
  BY MaterializedIs
<1>3. PICK v : Replica!AssetManifest = Manifest(assets, v)
  BY AssetManifestIs
<1>4. /\ \A n : EntryRecord(n).type = "entry" /\ EntryRecord(n).id = n
      /\ \A n : FactRecord(n).type = "fact" /\ FactRecord(n).id = n
      /\ \A n : ReceiptRecord(n).type = "receipt" /\ ReceiptRecord(n).id = n
      /\ \A n : TextRecord(n).type = "text" /\ TextRecord(n).id = n
      /\ \A t, i : ChunkRecord(t, i).type = "chunk" /\ ChunkRecord(t, i).id = <<t, i>>
      /\ Manifest(assets, v).type = "assets" /\ Manifest(assets, v).id = assets
  BY DEF EntryRecord, FactRecord, ReceiptRecord, TextRecord, ChunkRecord, Manifest, Replica!Record
<1> HIDE DEF E, s
<1>5. \A n \in 1..Len(entries) : HasId(s, "entry", n)
  <2>1. TAKE n \in 1..Len(entries)
  <2>2. EntryRecord(n) \in E
    BY <1>1 DEF Covers
  <2>3. HasId(s, EntryRecord(n).type, EntryRecord(n).id)
    BY <1>2, <2>2
  <2> QED  BY <1>4, <2>3
<1>6. \A n \in 1..Len(facts) : HasId(s, "fact", n)
  <2>1. TAKE n \in 1..Len(facts)
  <2>2. FactRecord(n) \in E
    BY <1>1 DEF Covers
  <2>3. HasId(s, FactRecord(n).type, FactRecord(n).id)
    BY <1>2, <2>2
  <2> QED  BY <1>4, <2>3
<1>7. \A n \in 1..Len(commands) : HasId(s, "receipt", n)
  <2>1. TAKE n \in 1..Len(commands)
  <2>2. ReceiptRecord(n) \in E
    BY <1>1 DEF Covers
  <2>3. HasId(s, ReceiptRecord(n).type, ReceiptRecord(n).id)
    BY <1>2, <2>2
  <2> QED  BY <1>4, <2>3
<1>8. \A n \in 1..Len(texts) : HasId(s, "text", n)
  <2>1. TAKE n \in 1..Len(texts)
  <2>2. TextRecord(n) \in E
    BY <1>1 DEF Covers
  <2>3. HasId(s, TextRecord(n).type, TextRecord(n).id)
    BY <1>2, <2>2
  <2> QED  BY <1>4, <2>3
<1>9. HasId(s, "assets", assets)
  <2>1. Manifest(assets, v) \in E
    BY <1>1, <1>3 DEF Covers
  <2>2. HasId(s, Manifest(assets, v).type, Manifest(assets, v).id)
    BY <1>2, <2>1
  <2> QED  BY <1>4, <2>2
<1>10. ASSUME NEW t \in 1..Len(texts), texts[t] # None,
              NEW i \in 1..Replica!ChunkCount(texts[t])
       PROVE  HasId(s, "chunk", <<t, i>>)
  <2>1. ChunkRecord(t, i) \in E
    BY <1>1, <1>10 DEF Covers
  <2>2. HasId(s, ChunkRecord(t, i).type, ChunkRecord(t, i).id)
    BY <1>2, <2>1
  <2> QED  BY <1>4, <2>2
<1> QED  BY <1>5, <1>6, <1>7, <1>8, <1>9, <1>10 DEF Whole, s

\* The manifests of a stream that is up to date are those there were and, perhaps, that of the
\* assets there are, which is then the last and the only one of its revision.
LEMMA ManifestsFollow ==
  ASSUME Replica!ReplicaAssumption, DialogOK, StreamInv, AssetInv, OrderInv, Replica!TextsMatch,
         NEW b \in Bindings
  PROVE  LET s == Replica!Materialized(b)
         IN /\ \A r \in Elements(s) : r.type = "assets" =>
                 r \in Replica!AssetRecords \/ r = Replica!AssetManifest
            /\ \A i, j \in 1..Len(s) :
                 i < j /\ s[i].type = "assets" /\ s[j].type = "assets"
                   => s[i].revision < s[j].revision
<1> DEFINE S == Genuine
<1> DEFINE old == streams[b]
<1> DEFINE u == Replica!Unsealed(b)
<1> DEFINE s == Replica!Materialized(b)
<1>1. /\ old \in Seq(S) /\ u \in Seq(S) /\ Distinct(s) /\ s = old \o u
      /\ \A r \in Elements(u) : r \in Elements(Replica!Candidates)
  BY MaterializedIs DEF StreamInv, Replica!Materialized
<1>2. \A r \in Elements(u) : r.type = "assets" => r = Replica!AssetManifest
  BY <1>1, CandidatesListed
<1>3. PICK v \in 1..(assets + 1) :
        /\ Replica!AssetManifest = Manifest(assets, v)
        /\ \A r \in Replica!AssetRecords :
             IF r.body = assets THEN r = Manifest(assets, v) ELSE r.revision < v
  BY AssetManifestIs
<1>4. \A i \in 1..Len(old) : old[i].type = "assets" => old[i] \in Replica!AssetRecords
  BY DEF Replica!AssetRecords, Replica!OfType
<1>5. \A i, j \in 1..Len(old) :
        i < j /\ old[i].type = "assets" /\ old[j].type = "assets" => old[i].revision < old[j].revision
  BY DEF OrderInv
<1>6. Manifest(assets, v).revision = v
  BY DEF Manifest, Replica!Record
<1> HIDE DEF S, old, u, s
<1>7. /\ Elements(s) = Elements(old) \cup Elements(u)
  BY <1>1, JoinedElements
<1>8. \A r \in Elements(s) : r.type = "assets" =>
        r \in Replica!AssetRecords \/ r = Replica!AssetManifest
  BY <1>2, <1>4, <1>7 DEF Elements
<1>9. Len(old) \in Nat /\ Len(u) \in Nat /\ Len(s) \in Nat
  BY <1>1, Joined
<1>10. ASSUME NEW i \in 1..Len(s)
       PROVE  \/ i \in 1..Len(old) /\ s[i] = old[i]
              \/ i - Len(old) \in 1..Len(u) /\ s[i] \in Elements(u)
  <2>1. i \in 1..Len(old \o u)
    BY <1>1
  <2>2. \/ i \in 1..Len(old) /\ (old \o u)[i] = old[i]
        \/ i - Len(old) \in 1..Len(u) /\ (old \o u)[i] = u[i - Len(old)]
    BY <1>1, <2>1, JoinedPlaces
  <2> QED  BY <1>1, <2>2 DEF Elements
<1>11. ASSUME NEW i \in 1..Len(s), NEW j \in 1..Len(s), i < j,
              s[i].type = "assets", s[j].type = "assets"
       PROVE  s[i].revision < s[j].revision
  <2>1. Apart(s[i], s[j])
    <3>1. i # j
      BY <1>9, <1>11
    <3>2. \A k, l \in 1..Len(s) : k # l => Apart(s[k], s[l])
      BY <1>1 DEF Distinct
    <3> QED  BY <3>1, <3>2
  <2>2. s[i] # s[j]
    BY <1>11, <2>1 DEF Apart
  <2>3. CASE i \in 1..Len(old) /\ s[i] = old[i] /\ j \in 1..Len(old) /\ s[j] = old[j]
    BY <1>5, <1>11, <2>3
  <2>4. CASE i \in 1..Len(old) /\ s[i] = old[i] /\ s[j] \in Elements(u)
    <3>1. s[j] = Manifest(assets, v) /\ s[i] \in Replica!AssetRecords
      BY <1>2, <1>3, <1>4, <1>11, <2>4
    <3>2. s[i].revision < v
      BY <1>3, <2>2, <3>1
    <3> QED  BY <1>6, <3>1, <3>2
  <2>5. CASE s[i] \in Elements(u) /\ s[j] \in Elements(u)
    BY <1>2, <1>11, <2>2, <2>5
  <2>6. CASE i - Len(old) \in 1..Len(u) /\ j \in 1..Len(old)
    BY <1>9, <1>11, <2>6
  <2> QED  BY <1>10, <2>3, <2>4, <2>5, <2>6
<1> QED  BY <1>8, <1>11 DEF s

\* What an answer does to a stream, the copy of it and what the coordinator was told.
LEMMA ExportStep ==
  ASSUME Replica!ReplicaAssumption, ReplicaInv,
         NEW b \in Bindings, NEW delivered \in BOOLEAN, Replica!Export(b, delivered)
  PROVE  /\ DialogOK /\ Replica!TextsMatch /\ UNCHANGED <<entries, facts, commands, texts, assets, removed>>
         /\ streams' = [streams EXCEPT ![b] = Replica!Materialized(b)]
         /\ copy' \in [Bindings -> Seq(Genuine)] /\ lost' \in 0..MaxLost
         /\ \A o \in Bindings :
              /\ Starts(copy'[o], streams'[o]) /\ Starts(copy[o], copy'[o])
              /\ synced'[o] # synced[o] =>
                   /\ copy'[o] = Replica!Materialized(o)
                   /\ synced'[o] = Replica!Held
         /\ synced' = [o \in Bindings |-> synced'[o]]
<1> DEFINE S == Genuine
<1> DEFINE s == Replica!Materialized(b)
<1> DEFINE c == copy[b]
<1> DEFINE p == Replica!Page(s, Len(c))
<1> DEFINE end == Len(c) + Len(p) = Len(s)
<1>1. DialogTypes /\ HistoryInv /\ StreamInv /\ AssetInv
  BY DEF ReplicaInv
<1>2. DialogOK
  BY <1>1, DialogIsOK
<1>3. Replica!TextsMatch /\ (delivered \/ lost < MaxLost)
  BY DEF Replica!Export, Replica!Exports, Replica!TextsMatch
<1>4. UNCHANGED <<entries, facts, commands, texts, assets, removed>>
  BY DEF Replica!Export, Replica!dialog
<1>5. /\ streams' = [streams EXCEPT ![b] = s]
      /\ copy' = IF delivered THEN [copy EXCEPT ![b] = c \o p] ELSE copy
      /\ synced' = IF delivered /\ end THEN [synced EXCEPT ![b] = Replica!Held] ELSE synced
      /\ lost' = IF delivered THEN lost ELSE lost + 1
  BY DEF Replica!Export
<1>6. /\ streams \in [Bindings -> Seq(S)] /\ copy \in [Bindings -> Seq(S)]
      /\ \A o \in Bindings : Starts(copy[o], streams[o])
      /\ synced = [o \in Bindings |-> synced[o]] /\ lost \in 0..MaxLost
  BY <1>1 DEF StreamInv
<1>7. s \in Seq(S) /\ s = streams[b] \o Replica!Unsealed(b) /\ Replica!Unsealed(b) \in Seq(S)
  BY <1>1, <1>2, <1>3, MaterializedIs DEF Replica!Materialized
<1>8. lost' \in 0..MaxLost
  <2>1. MaxLost \in Nat
    BY DEF Replica!ReplicaAssumption
  <2> QED  BY <1>3, <1>5, <1>6, <2>1
<1> HIDE DEF S, s, c, p, end
<1>9. Starts(c, s) /\ c \in Seq(S)
  <2>1. PICK u : u = Replica!Unsealed(b)
    OBVIOUS
  <2>2. streams[b] \in Seq(S) /\ u \in Seq(S) /\ s = streams[b] \o u
    BY <1>6, <1>7, <2>1
  <2>3. Len(s) = Len(streams[b]) + Len(u) /\ \A i \in 1..Len(streams[b]) : s[i] = streams[b][i]
    BY <2>2, JoinedIs
  <2>4. Len(streams[b]) \in Nat /\ Len(u) \in Nat /\ c \in Seq(S) /\ Len(c) \in Nat
    BY <1>6, <2>2 DEF c
  <2>5. Len(c) <= Len(streams[b]) /\ \A i \in 1..Len(c) : c[i] = streams[b][i]
    BY <1>6 DEF Starts, c
  <2>6. \A i \in 1..Len(c) : i \in 1..Len(streams[b])
    BY <2>4, <2>5
  <2>7. Len(c) <= Len(s)
    BY <2>3, <2>4, <2>5
  <2> QED  BY <2>3, <2>4, <2>5, <2>6, <2>7 DEF Starts
<1>10. /\ c \o p \in Seq(S) /\ Starts(c \o p, s) /\ Starts(c, c \o p)
       /\ end => c \o p = s
  <2>1. LET q == Replica!Page(s, Len(c))
        IN /\ c \o q \in Seq(S) /\ Starts(c \o q, s) /\ Starts(c, c \o q)
           /\ Len(c) + Len(q) = Len(s) => c \o q = s
    BY <1>7, <1>9, CopyGrows
  <2> QED  BY <2>1 DEF p, end
<1> DEFINE q == c \o p
<1> HIDE DEF q
<1>11. copy' = IF delivered THEN [copy EXCEPT ![b] = q] ELSE copy
  BY <1>5 DEF q
<1>12. q \in Seq(S) /\ Starts(q, s) /\ Starts(c, q) /\ (end => q = s)
  BY <1>10 DEF q
<1>13. copy' \in [Bindings -> Seq(S)]
  BY <1>6, <1>11, <1>12
<1>14. \A o \in Bindings : streams'[o] = IF o = b THEN s ELSE streams[o]
  BY <1>5, <1>6
<1>15. \A o \in Bindings : copy'[o] = IF delivered /\ o = b THEN q ELSE copy[o]
  BY <1>6, <1>11
<1>16. \A o \in Bindings :
         synced'[o] = IF delivered /\ end /\ o = b THEN Replica!Held ELSE synced[o]
  <2>1. PICK f : f = synced
    OBVIOUS
  <2>2. PICK h : h = Replica!Held
    OBVIOUS
  <2>3. f = [o \in Bindings |-> f[o]] /\ synced' = IF delivered /\ end THEN [f EXCEPT ![b] = h] ELSE f
    BY <1>5, <1>6, <2>1, <2>2
  <2>4. \A o \in Bindings : synced'[o] = IF delivered /\ end /\ o = b THEN h ELSE f[o]
    BY <2>3
  <2> QED  BY <2>1, <2>2, <2>4
<1>17. synced' = [o \in Bindings |-> synced'[o]]
  <2>1. PICK f : f = synced
    OBVIOUS
  <2>2. PICK h : h = Replica!Held
    OBVIOUS
  <2>3. f = [o \in Bindings |-> f[o]] /\ synced' = IF delivered /\ end THEN [f EXCEPT ![b] = h] ELSE f
    BY <1>5, <1>6, <2>1, <2>2
  <2> QED  BY <2>3
<1>18. \A t \in Seq(S) : Starts(t, t)
  BY DEF Starts
<1>19. ASSUME NEW o \in Bindings
       PROVE  /\ Starts(copy'[o], streams'[o]) /\ Starts(copy[o], copy'[o])
              /\ synced'[o] # synced[o] => copy'[o] = s /\ o = b /\ synced'[o] = Replica!Held
  <2>1. CASE o # b
    <3>1. copy'[o] = copy[o] /\ streams'[o] = streams[o] /\ synced'[o] = synced[o]
      BY <1>14, <1>15, <1>16, <2>1
    <3>2. copy[o] \in Seq(S)
      BY <1>6
    <3>3. Starts(copy[o], copy[o])
      BY <1>18, <3>2
    <3> QED  BY <1>6, <3>1, <3>3
  <2>2. CASE o = b /\ delivered
    BY <1>12, <1>14, <1>15, <1>16, <2>2 DEF c
  <2>3. CASE o = b /\ ~delivered
    BY <1>9, <1>14, <1>15, <1>16, <1>18, <2>3 DEF c
  <2> QED  BY <2>1, <2>2, <2>3
<1>20. \A o \in Bindings :
         /\ Starts(copy'[o], streams'[o]) /\ Starts(copy[o], copy'[o])
         /\ synced'[o] # synced[o] =>
              copy'[o] = Replica!Materialized(o) /\ synced'[o] = Replica!Held
  BY <1>19 DEF s
<1>21. streams' = [streams EXCEPT ![b] = Replica!Materialized(b)] /\ copy' \in [Bindings -> Seq(Genuine)]
  BY <1>5, <1>13 DEF s, S
<1> QED  BY <1>2, <1>3, <1>4, <1>8, <1>17, <1>20, <1>21

\* The dialog of a step that leaves it: what may be sealed of it stays.
LEMMA SameDialog ==
  ASSUME UNCHANGED <<entries, facts, commands, texts, assets, removed>>
  PROVE  /\ Genuine' = Genuine /\ DialogTypes' = DialogTypes /\ HistoryInv' = HistoryInv
<1>1. \A m : EntryRecord(m)' = EntryRecord(m)
  BY DEF EntryRecord, Replica!SourceGeneration, Replica!Record, Replica!AuthorEvent, Replica!Min
<1>2. /\ \A m : FactRecord(m)' = FactRecord(m) /\ ReceiptRecord(m)' = ReceiptRecord(m)
                /\ TextRecord(m)' = TextRecord(m)
      /\ \A t, i : ChunkRecord(t, i)' = ChunkRecord(t, i) /\ Manifest(t, i)' = Manifest(t, i)
  BY DEF FactRecord, ReceiptRecord, TextRecord, ChunkRecord, Manifest, Replica!Record
<1>3. Genuine' = Genuine
  BY <1>1, <1>2 DEF Genuine, TextsSealed
<1>4. DialogTypes' = DialogTypes
  BY DEF DialogTypes, Replica!IsInjective, Replica!Range
<1>5. HistoryInv' = HistoryInv
  BY DEF HistoryInv, Replica!TextsOrNone
<1> QED  BY <1>3, <1>4, <1>5

\* An answer keeps the streams and the copies what they are.
LEMMA ExportKeepsStreams ==
  ASSUME Replica!ReplicaAssumption, ReplicaInv,
         NEW b \in Bindings, NEW delivered \in BOOLEAN, Replica!Export(b, delivered)
  PROVE  StreamInv'
<1> DEFINE S == Genuine
<1> DEFINE s == Replica!Materialized(b)
<1>1. DialogOK /\ Replica!TextsMatch /\ StreamInv /\ AssetInv
  BY ExportStep DEF ReplicaInv
<1>2. /\ streams' = [streams EXCEPT ![b] = s] /\ copy' \in [Bindings -> Seq(S)]
      /\ lost' \in 0..MaxLost /\ synced' = [o \in Bindings |-> synced'[o]]
      /\ \A o \in Bindings : Starts(copy'[o], streams'[o])
  BY ExportStep
<1>3. s \in Seq(S) /\ Distinct(s)
  BY <1>1, MaterializedIs
<1>4. streams \in [Bindings -> Seq(S)] /\ \A o \in Bindings : Distinct(streams[o])
  BY <1>1 DEF StreamInv
<1>5. Genuine' = S
  BY ExportStep, SameDialog
<1> HIDE DEF S, s
<1>6. streams' \in [Bindings -> Seq(S)]
  BY <1>2, <1>3, <1>4
<1>7. ASSUME NEW o \in Bindings PROVE Distinct(streams'[o])
  BY <1>2, <1>3, <1>4
<1>8. \A o \in Bindings : Distinct(streams'[o]) /\ Starts(copy'[o], streams'[o])
  BY <1>2, <1>7
<1> QED  BY <1>2, <1>5, <1>6, <1>8 DEF StreamInv, Distinct, Starts, Apart

\* An answer keeps the manifests of all streams in one order.
LEMMA ExportKeepsAssets ==
  ASSUME Replica!ReplicaAssumption, ReplicaInv,
         NEW b \in Bindings, NEW delivered \in BOOLEAN, Replica!Export(b, delivered)
  PROVE  AssetInv' /\ OrderInv'
<1> DEFINE s == Replica!Materialized(b)
<1> DEFINE A == Replica!AssetRecords
<1>1. DialogOK /\ Replica!TextsMatch /\ StreamInv /\ AssetInv /\ OrderInv /\ assets' = assets
  BY ExportStep DEF ReplicaInv
<1>2. streams' = [streams EXCEPT ![b] = s]
  BY ExportStep
<1>3. streams' = [o \in Bindings |-> IF o = b THEN s ELSE streams[o]]
  <2> HIDE DEF s
  <2> QED  BY <1>1, <1>2 DEF StreamInv
<1>4. /\ \A r \in Elements(s) : r.type = "assets" => r \in A \/ r = Replica!AssetManifest
      /\ \A i, j \in 1..Len(s) :
           i < j /\ s[i].type = "assets" /\ s[j].type = "assets" => s[i].revision < s[j].revision
  BY <1>1, ManifestsFollow
<1>5. PICK v \in 1..(assets + 1) :
        /\ Replica!AssetManifest = Manifest(assets, v)
        /\ \A r \in A : IF r.body = assets THEN r = Manifest(assets, v) ELSE r.revision < v
  BY <1>1, AssetManifestIs
<1>6. /\ \A r \in A : r.body \in 0..assets /\ r.revision \in 1..(r.body + 1)
                      /\ r = Manifest(r.body, r.revision)
      /\ \A r, q \in A : r.body <= q.body <=> r.revision <= q.revision
  BY <1>1 DEF AssetInv
<1> DEFINE B == Replica!AssetRecords'
<1> HIDE DEF s
<1>7. \A r \in B : r \in A \/ r = Manifest(assets, v)
  <2> SUFFICES ASSUME NEW r \in B PROVE r \in A \/ r = Manifest(assets, v)
    OBVIOUS
  <2>1. PICK o \in Bindings : \E i \in 1..Len(streams'[o]) : r = streams'[o][i] /\ r.type = "assets"
    BY DEF Replica!AssetRecords, Replica!OfType
  <2>2. CASE o = b
    <3>1. r \in Elements(s) /\ r.type = "assets"
      BY <1>3, <2>1, <2>2 DEF Elements
    <3> QED  BY <1>4, <1>5, <3>1
  <2>3. CASE o # b
    <3>1. \E i \in 1..Len(streams[o]) : r = streams[o][i] /\ r.type = "assets"
      BY <1>3, <2>1, <2>3
    <3> QED  BY <3>1 DEF Replica!AssetRecords, Replica!OfType
  <2> QED  BY <2>2, <2>3
<1> HIDE DEF A, B
<1> DEFINE m == Manifest(assets, v)
<1>8. m.body = assets /\ m.revision = v /\ m = Manifest(m.body, m.revision) /\ assets \in Nat
  BY <1>1 DEF Manifest, Replica!Record, DialogOK
<1> HIDE DEF m
<1>9. /\ \A r \in B : r.body \in 0..assets /\ r.revision \in 1..(r.body + 1)
                      /\ r = Manifest(r.body, r.revision)
  <2> SUFFICES ASSUME NEW r \in B
               PROVE  /\ r.body \in 0..assets /\ r.revision \in 1..(r.body + 1)
                      /\ r = Manifest(r.body, r.revision)
    OBVIOUS
  <2>1. r \in A \/ r = m
    BY <1>7 DEF m
  <2>2. CASE r \in A
    BY <1>6, <2>2
  <2>3. CASE r = m
    BY <1>5, <1>8, <2>3
  <2> QED  BY <2>1, <2>2, <2>3
<1>10. \A r, q \in B : r.body <= q.body <=> r.revision <= q.revision
  <2> SUFFICES ASSUME NEW r \in B, NEW q \in B
               PROVE  r.body <= q.body <=> r.revision <= q.revision
    OBVIOUS
  <2>1. (r \in A \/ r = m) /\ (q \in A \/ q = m)
    BY <1>7 DEF m
  <2>2. \A x \in A : x = m \/ (x.body < assets /\ x.revision < v)
    <3> SUFFICES ASSUME NEW x \in A, x # m PROVE x.body < assets /\ x.revision < v
      OBVIOUS
    <3>1. x.body # assets /\ x.revision < v
      BY <1>5 DEF m
    <3>2. x.body \in 0..assets
      BY <1>6
    <3> QED  BY <1>8, <3>1, <3>2
  <2>3. /\ r.body \in 0..assets /\ q.body \in 0..assets
        /\ r.revision \in 1..(r.body + 1) /\ q.revision \in 1..(q.body + 1)
    BY <1>9
  <2>4. CASE r = m /\ q = m
    BY <1>8, <2>3, <2>4
  <2>5. CASE r # m /\ q = m
    <3>1. r.body < assets /\ r.revision < v
      BY <2>1, <2>2, <2>5
    <3> QED  BY <1>8, <2>3, <2>5, <3>1
  <2>6. CASE r = m /\ q # m
    <3>1. q.body < assets /\ q.revision < v
      BY <2>1, <2>2, <2>6
    <3> QED  BY <1>8, <2>3, <2>6, <3>1
  <2>7. CASE r # m /\ q # m
    <3>1. r \in A /\ q \in A
      BY <2>1, <2>7
    <3> QED  BY <1>6, <3>1
  <2> QED  BY <2>4, <2>5, <2>6, <2>7
<1>11. AssetInv'
  <2>1. \A n, w : Manifest(n, w)' = Manifest(n, w)
    BY DEF Manifest, Replica!Record
  <2> QED  BY <1>1, <1>9, <1>10, <2>1 DEF AssetInv, B
<1>12. OrderInv'
  <2> SUFFICES ASSUME NEW o \in Bindings, NEW i \in 1..Len(streams'[o]), NEW j \in 1..Len(streams'[o]),
                      i < j, streams'[o][i].type = "assets", streams'[o][j].type = "assets"
               PROVE  streams'[o][i].revision < streams'[o][j].revision
    BY DEF OrderInv
  <2>1. CASE o = b
    BY <1>3, <1>4, <2>1
  <2>2. CASE o # b
    <3>1. streams'[o] = streams[o]
      BY <1>3, <2>2
    <3> QED  BY <1>1, <3>1 DEF OrderInv
  <2> QED  BY <2>1, <2>2
<1> QED  BY <1>11, <1>12

\* What the coordinator was told stays true, and is true when it is told.
LEMMA ExportKeepsSynced ==
  ASSUME Replica!ReplicaAssumption, ReplicaInv,
         NEW b \in Bindings, NEW delivered \in BOOLEAN, Replica!Export(b, delivered)
  PROVE  SyncedInv'
<1> DEFINE S == Genuine
<1>1. DialogOK /\ Replica!TextsMatch /\ StreamInv /\ AssetInv /\ SyncedInv
  BY ExportStep DEF ReplicaInv
<1>2. copy \in [Bindings -> Seq(S)]
  BY <1>1 DEF StreamInv
<1>3. /\ texts' = texts /\ copy' \in [Bindings -> Seq(S)]
      /\ \A o \in Bindings :
           /\ Starts(copy[o], copy'[o])
           /\ synced'[o] # synced[o] =>
                copy'[o] = Replica!Materialized(o) /\ synced'[o] = Replica!Held
  BY ExportStep
<1>4. \A o \in Bindings : Whole(Replica!Materialized(o))
  BY <1>1, StreamIsWhole
<1> HIDE DEF S
<1>5. ASSUME NEW o \in Bindings, NEW type, NEW id, HasId(copy[o], type, id)
      PROVE  HasId(copy'[o], type, id)
  <2>1. PICK p : p = copy[o]
    OBVIOUS
  <2>2. PICK q : q = copy'[o]
    OBVIOUS
  <2>3. p \in Seq(S) /\ q \in Seq(S) /\ Starts(p, q)
    BY <1>2, <1>3, <2>1, <2>2
  <2>4. HasId(p, type, id)
    BY <1>5, <2>1
  <2>5. HasId(q, type, id)
    BY <2>3, <2>4, HasIdGrows
  <2> QED  BY <2>2, <2>5
<1>6. \A o \in Bindings : \A type, id : HasId(copy[o], type, id) => HasId(copy'[o], type, id)
  BY <1>5
<1>7. ASSUME NEW o \in Bindings, synced'[o] # None
      PROVE  /\ \A n \in 1..synced'[o].messages : HasId(copy'[o], "entry", n)
             /\ \A n \in 1..synced'[o].facts : HasId(copy'[o], "fact", n)
             /\ \A n \in 1..synced'[o].commands : HasId(copy'[o], "receipt", n)
             /\ \A n \in 1..synced'[o].texts : HasId(copy'[o], "text", n)
             /\ HasId(copy'[o], "assets", synced'[o].assets)
             /\ synced'[o].ready => \A t \in 1..synced'[o].texts :
                  /\ texts[t] # None
                  /\ \A i \in 1..Replica!ChunkCount(texts[t]) : HasId(copy'[o], "chunk", <<t, i>>)
  <2>1. CASE synced'[o] = synced[o]
    <3>1. /\ \A n \in 1..synced[o].messages : HasId(copy[o], "entry", n)
          /\ \A n \in 1..synced[o].facts : HasId(copy[o], "fact", n)
          /\ \A n \in 1..synced[o].commands : HasId(copy[o], "receipt", n)
          /\ \A n \in 1..synced[o].texts : HasId(copy[o], "text", n)
          /\ HasId(copy[o], "assets", synced[o].assets)
          /\ synced[o].ready => \A t \in 1..synced[o].texts :
               /\ texts[t] # None
               /\ \A i \in 1..Replica!ChunkCount(texts[t]) : HasId(copy[o], "chunk", <<t, i>>)
      BY <1>1, <1>7, <2>1 DEF SyncedInv
    <3> QED  BY <1>6, <2>1, <3>1
  <2>2. CASE synced'[o] # synced[o]
    <3>1. Whole(copy'[o]) /\ synced'[o] = Replica!Held
      BY <1>3, <1>4, <2>2
    <3>2. /\ synced'[o].messages = Len(entries) /\ synced'[o].facts = Len(facts)
          /\ synced'[o].commands = Len(commands) /\ synced'[o].texts = Len(texts)
          /\ synced'[o].assets = assets
          /\ synced'[o].ready => \A t \in 1..Len(texts) : texts[t] # None
      BY <3>1 DEF Replica!Held, Replica!Ready
    <3> QED  BY <3>1, <3>2 DEF Whole
  <2> QED  BY <2>1, <2>2
<1>8. \A o \in Bindings : \A type, id : HasId(copy[o], type, id)' = HasId(copy'[o], type, id)
  BY DEF HasId
<1>9. \A t : Replica!ChunkCount(texts[t])' = Replica!ChunkCount(texts'[t])
  OBVIOUS
<1> SUFFICES ASSUME NEW o \in Bindings, synced[o]' # None
             PROVE  /\ \A n \in 1..synced[o]'.messages : HasId(copy[o], "entry", n)'
                    /\ \A n \in 1..synced[o]'.facts : HasId(copy[o], "fact", n)'
                    /\ \A n \in 1..synced[o]'.commands : HasId(copy[o], "receipt", n)'
                    /\ \A n \in 1..synced[o]'.texts : HasId(copy[o], "text", n)'
                    /\ HasId(copy[o], "assets", synced[o].assets)'
                    /\ synced[o]'.ready => \A t \in 1..synced[o]'.texts :
                         /\ texts'[t] # None
                         /\ \A i \in 1..Replica!ChunkCount(texts'[t]) :
                              HasId(copy[o], "chunk", <<t, i>>)'
  BY <1>9 DEF SyncedInv
<1>10. HasId(copy[o], "assets", synced[o].assets)' = HasId(copy'[o], "assets", synced'[o].assets)
  BY DEF HasId
<1> QED  BY <1>3, <1>7, <1>8, <1>10

\* An answer keeps the whole.
LEMMA ExportKeeps ==
  ASSUME Replica!ReplicaAssumption, ReplicaInv,
         NEW b \in Bindings, NEW delivered \in BOOLEAN, Replica!Export(b, delivered)
  PROVE  ReplicaInv'
<1>1. DialogTypes' /\ HistoryInv'
  BY ExportStep, SameDialog DEF ReplicaInv
<1>2. StreamInv'
  BY ExportKeepsStreams
<1>3. AssetInv' /\ OrderInv'
  BY ExportKeepsAssets
<1>4. SyncedInv'
  BY ExportKeepsSynced
<1> QED  BY <1>1, <1>2, <1>3, <1>4 DEF ReplicaInv

\* A new dialog.
LEMMA ReplicaInit ==
  ASSUME Replica!ReplicaAssumption, Replica!Init PROVE ReplicaInv
<1>1. /\ entries = <<>> /\ facts = <<>> /\ commands = <<>> /\ texts = <<>> /\ assets = 0
      /\ removed = FALSE /\ streams = [b \in Bindings |-> <<>>] /\ copy = [b \in Bindings |-> <<>>]
      /\ synced = [b \in Bindings |-> None] /\ lost = 0
  BY DEF Replica!Init
<1>2. MaxLost \in Nat /\ MaxAssets \in Nat /\ MaxFacts \in Nat /\ MaxMessages \in Nat
  BY DEF Replica!ReplicaAssumption
<1>3. \A S : <<>> \in Seq(S)
  OBVIOUS
<1>4. Len(<<>>) = 0 /\ 1..0 = {} /\ DOMAIN <<>> = {}
  OBVIOUS
<1>5. DialogTypes
  <2>1. Replica!IsInjective(commands) /\ Replica!Range(commands) = 1..Len(commands)
    BY <1>1, <1>4 DEF Replica!IsInjective, Replica!Range
  <2>2. entries \in Seq(Message) /\ facts \in Seq(0..MaxMessages)
    BY <1>1, <1>3
  <2>3. Len(facts) = 0
    BY <1>1, <1>4
  <2>4. Len(facts) <= MaxFacts
    BY <1>2, <2>3
  <2>5. assets \in 0..MaxAssets
    BY <1>1, <1>2
  <2>6. removed \in BOOLEAN
    BY <1>1
  <2> QED  BY <2>1, <2>2, <2>4, <2>5, <2>6 DEF DialogTypes
<1>6. HistoryInv
  BY <1>1, <1>2, <1>3, <1>4 DEF HistoryInv
<1>7. StreamInv
  <2>1. \A b \in Bindings : streams[b] = <<>> /\ copy[b] = <<>>
    BY <1>1
  <2>2. \A b \in Bindings : Starts(copy[b], streams[b]) /\ Distinct(streams[b])
    BY <1>4, <2>1 DEF Starts, Distinct
  <2>3. streams \in [Bindings -> Seq(Genuine)] /\ copy \in [Bindings -> Seq(Genuine)]
    BY <1>1, <1>3
  <2>4. synced = [b \in Bindings |-> synced[b]] /\ lost \in 0..MaxLost
    BY <1>1, <1>2
  <2> QED  BY <2>2, <2>3, <2>4 DEF StreamInv
<1>8. AssetInv
  <2>1. Replica!AssetRecords = {}
    BY <1>1, <1>4 DEF Replica!AssetRecords, Replica!OfType
  <2> QED  BY <2>1 DEF AssetInv
<1>9. OrderInv
  BY <1>1, <1>4 DEF OrderInv
<1>10. SyncedInv
  BY <1>1 DEF SyncedInv
<1> QED  BY <1>5, <1>6, <1>7, <1>8, <1>9, <1>10 DEF ReplicaInv

\* A step of the other parts.
LEMMA ReplicaStutter ==
  ASSUME ReplicaInv, UNCHANGED replicaVars PROVE ReplicaInv'
<1>1. /\ UNCHANGED <<entries, facts, commands, texts, assets, removed>>
      /\ UNCHANGED <<streams, copy, synced, lost>>
  BY DEF replicaVars
<1>2. DialogTypes' /\ HistoryInv' /\ Genuine' = Genuine
  BY <1>1, SameDialog DEF ReplicaInv
<1>3. StreamInv'
  <2>1. StreamInv
    BY DEF ReplicaInv
  <2> QED  BY <1>1, <1>2, <2>1 DEF StreamInv, Starts, Distinct, Apart
<1>4. AssetInv' /\ OrderInv'
  <2>1. AssetInv /\ OrderInv
    BY DEF ReplicaInv
  <2>2. Replica!AssetRecords' = Replica!AssetRecords
    BY <1>1 DEF Replica!AssetRecords, Replica!OfType
  <2>3. \A n, v : Manifest(n, v)' = Manifest(n, v)
    BY DEF Manifest, Replica!Record
  <2> QED  BY <1>1, <2>1, <2>2, <2>3 DEF AssetInv, OrderInv
<1>5. SyncedInv'
  <2>1. \A b \in Bindings : copy'[b] = copy[b] /\ synced'[b] = synced[b]
    BY <1>1
  <2>2. \A b \in Bindings : synced[b] # None =>
          /\ \A n \in 1..synced[b].messages : HasId(copy[b], "entry", n)
          /\ \A n \in 1..synced[b].facts : HasId(copy[b], "fact", n)
          /\ \A n \in 1..synced[b].commands : HasId(copy[b], "receipt", n)
          /\ \A n \in 1..synced[b].texts : HasId(copy[b], "text", n)
          /\ HasId(copy[b], "assets", synced[b].assets)
          /\ synced[b].ready => \A t \in 1..synced[b].texts :
               /\ texts'[t] # None
               /\ \A i \in 1..Replica!ChunkCount(texts'[t]) : HasId(copy[b], "chunk", <<t, i>>)
    BY <1>1 DEF ReplicaInv, SyncedInv
  <2> QED  BY <2>1, <2>2, SyncAfter
<1> QED  BY <1>2, <1>3, <1>4, <1>5 DEF ReplicaInv

\* The export is a part of the storage.
LEMMA ReplicaPart == Spec => Replica!Init /\ [][Replica!Next]_replicaVars
<1>1. Init => Replica!Init
  BY DEF Init
<1>2. [Next]_vars => [Replica!Next]_replicaVars
  BY DEF Next, vars, CommandStep, FileStep, ListStep, ReplicaStep
<1> QED  BY <1>1, <1>2, PTL DEF Spec

\* The inductive invariant of the export: the streams hold nothing but records of what the
\* dialog holds, which only grows, each once; the manifests of all streams are in one order;
\* and what the coordinator was told is in its copy.
THEOREM ReplicaInvariance == Spec => []ReplicaInv
<1>1. Replica!ReplicaAssumption
  BY StorageAssumption
<1>2. Replica!Init => ReplicaInv
  BY <1>1, ReplicaInit
<1>3. ReplicaInv /\ Replica!Next => ReplicaInv'
  BY <1>1, WorkKeeps, ExportKeeps DEF Replica!Next
<1>4. ReplicaInv /\ UNCHANGED replicaVars => ReplicaInv'
  BY ReplicaStutter
<1>5. ReplicaInv /\ [Replica!Next]_replicaVars => ReplicaInv'
  BY <1>3, <1>4
<1> QED  BY <1>2, <1>5, ReplicaPart, PTL

\* What the invariant says of a state: the types, what the coordinator was told, and the
\* manifests.
LEMMA ReplicaInvSound ==
  ASSUME Replica!ReplicaAssumption, ReplicaInv
  PROVE  Replica!TypeOK /\ Replica!SyncedIsComplete /\ Replica!RevisionsAgree
<1>1. DialogTypes /\ HistoryInv /\ StreamInv /\ AssetInv /\ OrderInv /\ SyncedInv
  BY DEF ReplicaInv
<1>2. Replica!TypeOK
  <2> DEFINE S == Genuine
  <2>1. \A b \in Bindings : /\ copy[b] \in Seq(S) /\ streams[b] \in Seq(S)
                            /\ Starts(copy[b], streams[b]) /\ Distinct(streams[b])
    BY <1>1 DEF StreamInv
  <2> HIDE DEF S
  <2>2. ASSUME NEW b \in Bindings PROVE Replica!IsPrefix(copy[b], streams[b])
    <3>1. PICK p : p = copy[b]
      OBVIOUS
    <3>2. PICK q : q = streams[b]
      OBVIOUS
    <3>3. p \in Seq(S) /\ q \in Seq(S) /\ Starts(p, q)
      BY <2>1, <3>1, <3>2
    <3>4. Lists!IsPrefix(p, q)
      BY <3>3, StartsIsPrefix
    <3> QED  BY <3>1, <3>2, <3>4 DEF Lists!IsPrefix, Replica!IsPrefix
  <2>3. \A b \in Bindings : \A i, j \in 1..Len(streams[b]) :
          streams[b][i].type = streams[b][j].type /\ streams[b][i].id = streams[b][j].id => i = j
    BY <2>1 DEF Distinct, Apart
  <2>4. lost \in 0..MaxLost
    BY <1>1 DEF StreamInv
  <2> QED  BY <1>1, <2>2, <2>3, <2>4 DEF Replica!TypeOK, DialogTypes, Message
<1>3. Replica!SyncedIsComplete
  <2> DEFINE ids(b, type) == {r.id : r \in Replica!OfType(copy[b], type)}
  <2>1. \A b \in Bindings : \A type, id : HasId(copy[b], type, id) => id \in ids(b, type)
    <3> SUFFICES ASSUME NEW b \in Bindings, NEW type, NEW id, HasId(copy[b], type, id)
                 PROVE  id \in ids(b, type)
      OBVIOUS
    <3>1. PICK i \in 1..Len(copy[b]) : copy[b][i].type = type /\ copy[b][i].id = id
      BY DEF HasId
    <3>2. copy[b][i] \in Replica!OfType(copy[b], type)
      BY <3>1 DEF Replica!OfType
    <3> QED  BY <3>1, <3>2
  <2> SUFFICES ASSUME NEW b \in Bindings, synced[b] # None
               PROVE  /\ 1..synced[b].messages \subseteq ids(b, "entry")
                      /\ 1..synced[b].facts \subseteq ids(b, "fact")
                      /\ 1..synced[b].commands \subseteq ids(b, "receipt")
                      /\ 1..synced[b].texts \subseteq ids(b, "text")
                      /\ synced[b].assets \in ids(b, "assets")
                      /\ synced[b].ready => \A t \in 1..synced[b].texts :
                           /\ texts[t] # None
                           /\ {<<t, i>> : i \in 1..Replica!ChunkCount(texts[t])}
                                \subseteq ids(b, "chunk")
    BY DEF Replica!SyncedIsComplete
  <2>2. /\ \A n \in 1..synced[b].messages : HasId(copy[b], "entry", n)
        /\ \A n \in 1..synced[b].facts : HasId(copy[b], "fact", n)
        /\ \A n \in 1..synced[b].commands : HasId(copy[b], "receipt", n)
        /\ \A n \in 1..synced[b].texts : HasId(copy[b], "text", n)
        /\ HasId(copy[b], "assets", synced[b].assets)
        /\ synced[b].ready => \A t \in 1..synced[b].texts :
             /\ texts[t] # None
             /\ \A i \in 1..Replica!ChunkCount(texts[t]) : HasId(copy[b], "chunk", <<t, i>>)
    BY <1>1 DEF SyncedInv
  <2> HIDE DEF ids
  <2> QED  BY <2>1, <2>2
<1>4. Replica!RevisionsAgree
  <2> DEFINE A == Replica!AssetRecords
  <2>1. /\ \A r \in A : r.body \in 0..assets /\ r.revision \in 1..(r.body + 1)
        /\ \A r, q \in A : r.body <= q.body <=> r.revision <= q.revision
    BY <1>1 DEF AssetInv
  <2> HIDE DEF A
  <2>2. ASSUME NEW r \in A, NEW q \in A PROVE r.revision = q.revision <=> r.body = q.body
    <3>1. /\ r.body <= q.body <=> r.revision <= q.revision
          /\ q.body <= r.body <=> q.revision <= r.revision
      BY <2>1
    <3>2. r.body \in Int /\ q.body \in Int /\ r.revision \in Int /\ q.revision \in Int
      BY <2>1
    <3> QED  BY <3>1, <3>2
  <2>3. \A r, q \in Replica!AssetRecords : r.revision = q.revision <=> r.body = q.body
    BY <2>2 DEF A
  <2> QED  BY <1>1, <2>3 DEF OrderInv, Replica!RevisionsAgree
<1> QED  BY <1>2, <1>3, <1>4

\* Nothing stands in the way of an export but a text whose pieces are not what its size says.
LEMMA ReplicaInvExports ==
  ASSUME Replica!ReplicaAssumption, ReplicaInv, Replica!TextsMatch PROVE Replica!Exportable
<1>1. DialogOK /\ StreamInv /\ AssetInv
  BY DialogIsOK DEF ReplicaInv
<1>2. \A b \in Bindings : ~Replica!Conflicts(b)
  BY <1>1, NothingConflicts
<1> QED  BY <1>2 DEF Replica!Exportable, Replica!Exports, Replica!TextsMatch

\* Of a dialog of which the coordinator was told that it has everything, its copy holds every
\* message, event, receipt and text of that moment, in whatever order they were accepted, however
\* many pages it took and whichever were lost; its copy is a start of the stream and has no
\* record twice; a revision of the asset manifest means the same assets in every stream; and a
\* dialog that is there can be exported while every text of it is cut into as many pieces as its
\* manifest says (ExportHistory, materializeHistoryReplica). Nothing is assumed of the texts.
THEOREM ReplicaSound == Spec => []ReplicaIsSound
<1>1. Replica!ReplicaAssumption
  BY StorageAssumption
<1>2. ReplicaInv =>
        /\ Replica!TypeOK /\ Replica!SyncedIsComplete /\ Replica!RevisionsAgree
        /\ Replica!TextsMatch => Replica!Exportable
  BY <1>1, ReplicaInvSound, ReplicaInvExports
<1>3. ReplicaInv => ReplicaIsSound
  BY <1>2 DEF ReplicaIsSound, Replica!ReplicaIsSound
<1> QED  BY <1>3, ReplicaInvariance, PTL
==============================================================================
