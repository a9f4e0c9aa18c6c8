----------------------------- MODULE MCDialogs ------------------------------
(***************************************************************************)
(* The dialogs of the shipments page: those that change a status, and      *)
(* those that hold a form.  They share no state, and a behaviour is one of *)
(* the part it begins with: the states of the parts add up and do not      *)
(* multiply.                                                               *)
(***************************************************************************)
EXTENDS StatusDialogs, Integers, TLC

CONSTANTS   \* of ShipmentForms
  Precision, Texts, NotANumber, Empty, Error, MAX_MONEY_FEN, MAX_STORED_MEASUREMENT

VARIABLES
  part,                                     \* "status" or "forms"
  row, form, sent, untouched, refusals, source

forms == <<row, form, sent, untouched, refusals, source>>

Forms == INSTANCE ShipmentForms

ASSUME FormsAssumption == Forms!FormsAssumption

(* --------------------- the instance that is checked -------------------- *)

(* Numbers around every limit: nothing, a part of the smallest unit, the   *)
(* largest amount, one beyond every limit, and one with more digits than   *)
(* the decimal context keeps.  Money has up to three digits, the context   *)
(* four, a text five.                                                      *)
SomeTexts ==
  {[c |-> n[1], e |-> n[2]] :
     n \in {<<0, 0>>, <<5, -3>>, <<999, -2>>, <<1000, -1>>, <<10005, -4>>}}

(* --------------------------- the composition --------------------------- *)

DialogsInit == Init /\ Forms!Init /\ part \in {"status", "forms"}

DialogsNext ==
  \/ part = "status" /\ Next /\ UNCHANGED <<forms, part>>
  \/ part = "forms" /\ Forms!Next /\ UNCHANGED <<vars, part>>

DialogsSpec == DialogsInit /\ [][DialogsNext]_<<vars, forms, part>>

(* No form ends in an IntegrityError: what the service accepts, the CHECKs *)
(* of the table accept; no amount is kept for a COD that is switched off;  *)
(* an insured shipment has a declared value through every later edit; and  *)
(* an amount within the decimal context is stored exactly.                 *)
DialogsConsistent ==
  /\ TypeOK /\ Forms!TypeOK /\ Forms!TableNeverRefuses
  /\ Forms!CodFieldFollows /\ Forms!InsuredHasValue /\ Forms!ExactMoney

(* An editor that is saved without a change leaves the row as it was: fen, *)
(* text and fen again are one amount.                                      *)
UntouchedIsUnchanged == Forms!UntouchedIsUnchanged
=============================================================================
