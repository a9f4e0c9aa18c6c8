---------------------------- MODULE ShipmentForms ---------------------------
(***************************************************************************)
(* The amounts, services, weight and size of a shipment on their way from  *)
(* the text fields of the dialogs through the validation of form, service  *)
(* and table into the row, and back into the next editor.                  *)
(*                                                                         *)
(* One width stands for the three dimensions, one service without a rule   *)
(* of its own for all but the insurance.  Payer and payment method are     *)
(* chosen from their enumerations and only copied; they and the texts of   *)
(* names and notes are left out.                                           *)
(***************************************************************************)
EXTENDS Decimals, FiniteSets

CONSTANTS
  Texts,         \* numbers a user types: decimals
  NotANumber,    \* a text that is no number
  Empty,         \* a blank field, and None
  Error,         \* what a conversion raises
  MAX_MONEY_FEN,
  MAX_STORED_MEASUREMENT

Services == {"INSURANCE", "OTHER"}
Fields == Texts \cup {NotANumber, Empty}
Money == 0..MAX_MONEY_FEN

(* What a field of a dialog holds: an editor fills in the stored amounts.  *)
Entered == Fields \cup [c : Money, e : {-2}]

(* What a valid form emits.                                                *)
Payments == [declared_fen : Money \cup {Empty}, cod_enabled : BOOLEAN,
             cod_fen : Money \cup {Empty}, services : SUBSET Services]
Sent == [kind : {"new", "edit"}, payment : Payments, grams : Int \cup {Empty},
         width : Fields, declared : Entered]

(* What the parameters must be: an amount that can be stored fits into the *)
(* decimal context, and the three marks are no values.                     *)
FormsAssumption ==
  /\ Precision \in Nat \ {0} /\ Texts \subseteq [c : Int, e : Int]
  /\ {MAX_MONEY_FEN, MAX_STORED_MEASUREMENT} \subseteq Nat
  /\ MAX_MONEY_FEN < Pow10[Precision]
  /\ Empty # NotANumber /\ Error \notin {Empty, NotANumber}
  /\ \A mark \in {Empty, NotANumber, Error} :
       mark \notin Int /\ mark \notin [c : Int, e : Int] /\ mark \notin Sent

VARIABLES
  row,           \* the shipment; Empty before it is created
  form,          \* the open dialog
  sent,          \* what the form has emitted, until the service answers
  untouched,     \* history: nothing in the editor was changed
  refusals,      \* history: who refused a form so far
  source         \* history: the amount texts the row came from

vars == <<row, form, sent, untouched, refusals, source>>

(* A blank dialog.                                                         *)
Blank == [kind |-> "new", declared |-> Empty, cod |-> FALSE, cod_amount |-> Empty,
          services |-> {}, weight |-> Empty, width |-> Empty, busy |-> FALSE]
NoForm == [Blank EXCEPT !.kind = "none"]

Forms == [kind : {"none", "new", "edit"}, declared : Entered, cod : BOOLEAN,
          cod_amount : Entered, services : SUBSET Services, weight : Fields,
          width : Fields, busy : BOOLEAN]

Refusers == {"form", "service", "table"}

Rows == [declared_fen : Money \cup {Empty}, cod_enabled : BOOLEAN,
         cod_fen : Money \cup {Empty}, services : SUBSET Services,
         weight_g : 1..MAX_STORED_MEASUREMENT \cup {Empty},
         width_mm : 1..MAX_STORED_MEASUREMENT \cup {Empty}]

TypeOK ==
  /\ row = Empty \/ row \in Rows
  /\ form \in Forms /\ sent \in Sent \cup {Empty} /\ untouched \in BOOLEAN
  /\ form.busy => sent # Empty
  /\ refusals \subseteq Refusers

Init ==
  /\ row = Empty /\ form = NoForm /\ sent = Empty /\ untouched = FALSE
  /\ refusals = {} /\ source = Empty

(* ---------------------- conversion and validation ---------------------- *)

(* Variant: a part of a fen is cut off.                                    *)
bam_to_fen_cut(text, allow_zero) ==
  IF text = Empty THEN Empty
  ELSE IF text = NotANumber THEN Error
  ELSE LET fen == ToInt(TimesPow10(text, 2)) IN
       IF fen >= (IF allow_zero THEN 0 ELSE 1) /\ fen <= MAX_MONEY_FEN THEN fen ELSE Error

bam_to_fen(text, allow_zero) ==
  IF text = Empty THEN Empty
  ELSE IF text = NotANumber THEN Error
  ELSE LET fen == TimesPow10(text, 2) IN
       IF /\ IsIntegral(fen)
          /\ ToInt(fen) >= (IF allow_zero THEN 0 ELSE 1)
          /\ ToInt(fen) <= MAX_MONEY_FEN
       THEN ToInt(fen) ELSE Error

(* Variant: the editor shows whole marks.                                  *)
fen_to_text_whole(fen) == IF fen = Empty THEN Empty ELSE D(fen \div 100, 0)

(* fen_to_bam, shown with two decimals.                                    *)
fen_to_text(fen) == IF fen = Empty THEN Empty ELSE D(fen, -2)

validate_money_fen(fen, allow_zero) ==
  fen = Empty \/ fen \in (IF allow_zero THEN 0 ELSE 1)..MAX_MONEY_FEN

(* Variant: an insurance asks for a declared value, which may be zero.     *)
validate_payment_weak(p) ==
  /\ validate_money_fen(p.declared_fen, TRUE)
  /\ validate_money_fen(p.cod_fen, FALSE)
  /\ p.cod_enabled <=> p.cod_fen # Empty
  /\ "INSURANCE" \in p.services => p.declared_fen # Empty

validate_payment(p) ==
  /\ validate_money_fen(p.declared_fen, TRUE)
  /\ validate_money_fen(p.cod_fen, FALSE)
  /\ p.cod_enabled <=> p.cod_fen # Empty
  /\ "INSURANCE" \in p.services => p.declared_fen \notin {Empty, 0}

(* No upper limit: that is left to the service.                            *)
_kilograms_to_grams(text) ==
  IF text = Empty THEN Empty
  ELSE IF text = NotANumber THEN Error
  ELSE LET grams == TimesPow10(text, 3) IN
       IF text.c > 0 /\ IsIntegral(grams) THEN ToInt(grams) ELSE Error

validate_weight_g(grams) == grams = Empty \/ grams \in 1..MAX_STORED_MEASUREMENT

(* Variant: a size finer than a millimeter is rounded down.                *)
validate_dimension_cm_loose(text) ==
  text # Empty =>
    /\ text # NotANumber /\ text.c > 0
    /\ ToInt(TimesPow10(text, 1)) <= MAX_STORED_MEASUREMENT

validate_dimension_cm(text) ==
  text # Empty =>
    /\ text # NotANumber /\ text.c > 0
    /\ LET millimeters == TimesPow10(text, 1) IN
         IsIntegral(millimeters) /\ ToInt(millimeters) <= MAX_STORED_MEASUREMENT

(* normalize rounds as a product does.                                     *)
dimension_cm_to_mm(text) ==
  IF text = Empty THEN Empty ELSE ToInt(TimesPow10(Rounded(text), 1))

(* The CHECKs of the shipments table.                                      *)
Checked(r) ==
  /\ r.declared_fen = Empty \/ r.declared_fen \in 0..MAX_MONEY_FEN
  /\ IF r.cod_enabled THEN r.cod_fen # Empty /\ r.cod_fen \in 1..MAX_MONEY_FEN
                      ELSE r.cod_fen = Empty
  /\ r.weight_g = Empty \/ r.weight_g \in 1..MAX_STORED_MEASUREMENT
  /\ r.width_mm = Empty \/ r.width_mm \in 1..MAX_STORED_MEASUREMENT

(* ----------------------------- the dialogs ----------------------------- *)

(* The page opens a dialog only when no call of its own is under way.      *)
OpenNew ==
  /\ row = Empty /\ form = NoForm /\ sent = Empty
  /\ form' = Blank /\ untouched' = FALSE
  /\ UNCHANGED <<row, sent, refusals, source>>

(* EditShipmentDialog with PaymentFields._populate; weight and size cannot *)
(* be edited.                                                              *)
OpenEdit ==
  /\ row # Empty /\ form = NoForm /\ sent = Empty
  /\ form' = [Blank EXCEPT !.kind = "edit", !.declared = fen_to_text(row.declared_fen),
                !.cod = row.cod_enabled, !.cod_amount = fen_to_text(row.cod_fen),
                !.services = row.services]
  /\ untouched' = TRUE
  /\ UNCHANGED <<row, sent, refusals, source>>

(* The fields of a busy dialog are disabled.                               *)
Editing == form # NoForm /\ ~form.busy

Touched == untouched' = FALSE /\ UNCHANGED <<row, sent, refusals, source>>

TypeAmount(text) ==
  /\ Editing
  /\ \/ form' = [form EXCEPT !.declared = text]
     \/ form.cod /\ form' = [form EXCEPT !.cod_amount = text]
  /\ Touched

TypeMeasure(text) ==
  /\ Editing /\ form.kind = "new"
  /\ form' \in {[form EXCEPT !.weight = text], [form EXCEPT !.width = text]}
  /\ Touched

(* Variant: the amount stays in the disabled field.                        *)
_cod_toggled_only ==
  /\ Editing
  /\ form' = [form EXCEPT !.cod = ~@]
  /\ Touched

(* The amount of a COD that is switched off is cleared.                    *)
_cod_toggled ==
  /\ Editing
  /\ form' = [form EXCEPT !.cod = ~@, !.cod_amount = IF form.cod THEN Empty ELSE @]
  /\ Touched

Tick(service) ==
  /\ Editing
  /\ form' = [form EXCEPT !.services =
                IF service \in @ THEN @ \ {service} ELSE @ \cup {service}]
  /\ Touched

(* A busy dialog can be cancelled too; its call goes on.                   *)
Cancel ==
  /\ form # NoForm
  /\ form' = NoForm
  /\ UNCHANGED <<row, sent, untouched, refusals, source>>

(* _submit of the dialogs with values() of PaymentFields and of the        *)
(* dialog; a refused form stays open.                                      *)
Submit ==
  /\ Editing
  /\ LET payment == [declared_fen |-> bam_to_fen(form.declared, TRUE),
                     cod_enabled |-> form.cod,
                     cod_fen |-> bam_to_fen(form.cod_amount, FALSE),
                     services |-> form.services]
         grams == _kilograms_to_grams(form.weight)
     IN  IF Error \in {payment.declared_fen, payment.cod_fen, grams} \/ ~validate_payment(payment)
         THEN refusals' = refusals \cup {"form"} /\ UNCHANGED <<form, sent>>
         ELSE /\ sent' = [kind |-> form.kind, payment |-> payment, grams |-> grams,
                            width |-> form.width, declared |-> form.declared]
              /\ form' = [form EXCEPT !.busy = TRUE]
              /\ UNCHANGED refusals
  /\ UNCHANGED <<row, untouched, source>>

(* The row that a call would store.                                        *)
Stored ==
  LET p == sent.payment IN
  [declared_fen |-> p.declared_fen, cod_enabled |-> p.cod_enabled,
   cod_fen |-> p.cod_fen, services |-> p.services,
   weight_g |-> IF sent.kind = "new" THEN sent.grams ELSE row.weight_g,
   width_mm |-> IF sent.kind = "new" THEN dimension_cm_to_mm(sent.width) ELSE row.width_mm]

Accepted ==
  /\ validate_payment(sent.payment)
  /\ sent.kind = "new" => validate_weight_g(sent.grams) /\ validate_dimension_cm(sent.width)

(* Variant: the message is shown, the fields stay disabled.                *)
show_error_busy == form

show_error == [form EXCEPT !.busy = FALSE]

(* The answer: create_shipment or update_shipment stores the row, or the   *)
(* service or a CHECK refuses it and show_error frees the form.            *)
Answer ==
  /\ sent # Empty /\ sent' = Empty
  /\ IF Accepted /\ Checked(Stored)
     THEN /\ row' = Stored /\ source' = sent.declared /\ form' = NoForm
          /\ UNCHANGED refusals
     ELSE /\ refusals' = refusals \cup {IF Accepted THEN "table" ELSE "service"}
          /\ form' = show_error
          /\ UNCHANGED <<row, source>>
  /\ UNCHANGED untouched

Next ==
  \/ OpenNew \/ OpenEdit \/ _cod_toggled \/ Cancel \/ Submit \/ Answer
  \/ \E text \in Fields : TypeAmount(text) \/ TypeMeasure(text)
  \/ \E service \in Services : Tick(service)

Spec == Init /\ [][Next]_vars

(* ------------------------------ properties ----------------------------- *)

(* What the service accepts, the CHECKs of the table accept: no form ends  *)
(* in an IntegrityError, whatever was typed and rounded.                   *)
TableNeverRefuses == "table" \notin refusals

(* An editor that was opened and saved without a change leaves the row as  *)
(* it was: fen, text and fen again are the same amount.                    *)
UntouchedIsUnchanged == [][untouched /\ row' # row => FALSE]_vars

(* An amount is never kept, or sent, for a COD that is switched off.       *)
CodFieldFollows == ~form.cod => form.cod_amount = Empty

(* An insured shipment has a declared value, through every later edit.     *)
InsuredHasValue ==
  row # Empty /\ "INSURANCE" \in row.services => row.declared_fen \notin {Empty, 0}

(* payment.py: "Exact BAM money conversion": an accepted text that has no   *)
(* more digits than the decimal context keeps is exactly the amount that   *)
(* is stored.  With more digits the last ones are rounded away.            *)
ExactMoney ==
  source # Empty /\ source.c < Pow10[Precision] =>
    row.declared_fen # Empty /\ Exactly(source, row.declared_fen, 2)
=============================================================================
