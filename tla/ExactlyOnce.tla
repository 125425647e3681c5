----------------------------- MODULE ExactlyOnce -----------------------------
(***************************************************************************)
(* What command admission promises its clients, whatever is lost on the    *)
(* way: a command id is decided once, an accepted command takes effect     *)
(* once, and every receipt a client is given for an id is the same one.    *)
(***************************************************************************)
EXTENDS Sequences

CONSTANTS Ids, Payloads, Receipts, Undecided

VARIABLES
  decided,   \* the decision on each id: its payload, whether accepted, its receipt
  applied,   \* the ids whose commands took effect, in order
  given      \* the receipts clients were given: <<id, payload, receipt>>

vars == <<decided, applied, given>>

Init ==
  /\ decided = [id \in Ids |-> Undecided]
  /\ applied = <<>>
  /\ given = {}

(* An undecided id is decided, and takes effect in the same step if it is accepted. *)
Decide(id, p) ==
  /\ decided[id] = Undecided
  /\ \E accepted \in BOOLEAN, receipt \in Receipts :
       /\ decided' = [decided EXCEPT ![id] =
                        [payload |-> p, accepted |-> accepted, receipt |-> receipt]]
       /\ applied' = IF accepted THEN Append(applied, id) ELSE applied
  /\ UNCHANGED given

(* A receipt is given only to the payload it was issued for. *)
Give(id) ==
  /\ decided[id] # Undecided
  /\ given' = given \cup {<<id, decided[id].payload, decided[id].receipt>>}
  /\ UNCHANGED <<decided, applied>>

Next == \E id \in Ids : Give(id) \/ \E p \in Payloads : Decide(id, p)

Spec == Init /\ [][Next]_vars
=============================================================================
