---------------------------- MODULE DialogsProofs ----------------------------
(***************************************************************************)
(* Proofs about the dialogs: StatusDialogs for users who may override and  *)
(* users who may not, and any number of changes; ShipmentForms for every   *)
(* set of texts, every limit and every precision of the decimal context    *)
(* that holds the largest amount; and their composition.                   *)
(*                                                                         *)
(* Whatever a list, dialog or call holds is a picture of the shipment: of  *)
(* an older version, or exact.  A call offers only what is allowed on its  *)
(* picture, so that the service, which refuses older pictures, allows it.  *)
(*                                                                         *)
(* A form emits what is valid, with amounts that are those of their texts, *)
(* and an editor that nobody has changed emits what the row says.  That    *)
(* rests on the decimal arithmetic: the powers of ten, which are defined   *)
(* by recursion and reasoned about by induction; the digits that a         *)
(* product keeps; and which texts are whole units after it.                *)
(***************************************************************************)
EXTENDS MCDialogs, WellFoundedInduction, TLAPS

(* ------------------- the dialogs that change a status ------------------ *)

(* A picture of the shipment as it is, or of an older version.             *)
Picture(s) ==
  /\ s.version <= shipment.version
  /\ s.version = shipment.version => s = shipment

Pictures ==
  /\ Picture(list)
  /\ dialog # NoDialog => Picture(dialog.shown)
  /\ call # NoCall => Picture(call.shown)

(* The buttons that open a dialog were enabled when it opened, and the     *)
(* problem of a dialog to resolve one is as old as its picture, or newer.  *)
DialogOffers ==
  dialog # NoDialog =>
    /\ dialog.kind # "restore"
    /\ dialog.kind = "change" => dialog.shown.status # "PROBLEM"
    /\ dialog.kind = "archive" => ~dialog.shown.archived
    /\ dialog.kind = "report" => can_transition(dialog.shown.status, "PROBLEM")
    /\ dialog.kind = "resolve" =>
         /\ dialog.shown.status = "PROBLEM"
         /\ dialog.shown.version = shipment.version => dialog.problem = shipment.previous
    /\ dialog.override => CanOverride

(* What a call asks for is allowed on its picture.                         *)
CallOffers ==
  call # NoCall =>
    /\ call.kind = "change" =>
         /\ call.shown.status # "PROBLEM" /\ call.target # "PROBLEM"
         /\ \/ can_transition(call.shown.status, call.target)
            \/ call.override /\ call.reason /\ CanOverride
    /\ call.kind = "report" =>
         /\ call.shown.status # "PROBLEM"
         /\ can_transition(call.shown.status, call.target)
    /\ call.kind = "resolve" =>
         /\ call.shown.status = "PROBLEM"
         /\ call.shown.version = shipment.version => can_recover(shipment.previous, call.target)
    /\ call.kind = "archive" => ~call.shown.archived
    /\ call.kind = "restore" => call.shown.archived

Inv == TypeOK /\ Pictures /\ DialogOffers /\ CallOffers /\ OfferedIsAllowed

(* A problem is nothing to report again.                                   *)
LEMMA Reportable ==
  ASSUME NEW s \in Statuses, NEW t \in Statuses, can_transition(s, t)
  PROVE  s # "PROBLEM"
BY DEF can_transition, NORMAL_TRANSITIONS, Statuses

LEMMA Fields ==
  ASSUME NEW s \in Shipments
  PROVE  /\ s.status \in Statuses /\ s.archived \in BOOLEAN
         /\ s.version \in Nat /\ s.version <= MaxVersion
         /\ s.previous \in Statuses \cup {None}
BY MaxVersionAssumption DEF Shipments

(* An open dialog and a call under way have their fields.                  *)
LEMMA OpenFields ==
  ASSUME TypeOK
  PROVE  /\ dialog # NoDialog => dialog \in Dialogs /\ dialog.shown \in Shipments
         /\ call # NoCall => call \in Calls /\ call.shown \in Shipments
BY DEF TypeOK, Dialogs, Calls

LEMMA InitInv == Init => Inv
BY MaxVersionAssumption
   DEF Init, Inv, TypeOK, Shipments, Statuses, None, NoDialog, NoCall, Pictures, Picture,
       DialogOffers, CallOffers, OfferedIsAllowed

(* Moving, archiving and restoring make a next version of the shipment.    *)
LEMMA MovedShipment ==
  ASSUME TypeOK, shipment.version < MaxVersion, NEW target \in Statuses,
         NEW moved, moved = Moved(shipment, target)
  PROVE  /\ moved \in Shipments
         /\ moved.version = shipment.version + 1
         /\ moved.status = "PROBLEM" <=> moved.previous # None
<1>1. shipment \in Shipments
  BY DEF TypeOK
<1>2. /\ shipment.status \in Statuses /\ shipment.archived \in BOOLEAN
      /\ shipment.version \in Nat /\ shipment.previous \in Statuses \cup {None}
  BY <1>1, Fields
<1>3. shipment.version + 1 \in 1..MaxVersion
  BY <1>2, MaxVersionAssumption
<1> DEFINE previous == IF target = "PROBLEM" THEN shipment.status ELSE None
<1>4. moved = [shipment EXCEPT !.status = target, !.version = shipment.version + 1,
                               !.previous = previous]
  BY DEF Moved
<1>5. previous \in Statuses \cup {None} /\ (target = "PROBLEM" <=> previous # None)
  BY <1>2 DEF Statuses, None
<1> HIDE DEF previous
<1>6. moved = [status |-> target, archived |-> shipment.archived,
               version |-> shipment.version + 1, previous |-> previous]
  BY <1>1, <1>4 DEF Shipments
<1> QED
  BY <1>2, <1>3, <1>5, <1>6 DEF Shipments

LEMMA ToggledShipment ==
  ASSUME TypeOK, shipment.version < MaxVersion,
         NEW toggled, toggled = [shipment EXCEPT !.archived = ~@, !.version = @ + 1]
  PROVE  /\ toggled \in Shipments
         /\ toggled.version = shipment.version + 1
         /\ toggled.status = "PROBLEM" <=> toggled.previous # None
<1>1. shipment \in Shipments
  BY DEF TypeOK
<1>2. shipment.status \in Statuses /\ shipment.version \in Nat
  BY <1>1, Fields
<1>3. shipment.version + 1 \in 1..MaxVersion
  BY <1>2, MaxVersionAssumption
<1>4. PICK archived \in BOOLEAN : archived = ~shipment.archived
  OBVIOUS
<1>5. toggled = [shipment EXCEPT !.archived = archived, !.version = shipment.version + 1]
  BY <1>4
<1>6. toggled = [status |-> shipment.status, archived |-> archived,
                 version |-> shipment.version + 1, previous |-> shipment.previous]
  BY <1>1, <1>5 DEF Shipments
<1> QED
  BY <1>1, <1>3, <1>6 DEF Shipments, TypeOK

(* The next version makes every picture an older one.                      *)
LEMMA Older ==
  ASSUME Inv, shipment' \in Shipments, shipment'.version = shipment.version + 1,
         NEW s \in Shipments, Picture(s)
  PROVE  s.version < shipment'.version
<1>1. s.version \in Nat /\ shipment.version \in Nat
  BY Fields DEF Inv, TypeOK
<1> QED
  BY <1>1 DEF Picture

LEMMA ShipmentPicture == ASSUME Inv PROVE Picture(shipment)
<1>1. shipment.version \in Nat
  BY Fields DEF Inv, TypeOK
<1> QED
  BY <1>1 DEF Picture

LEMMA ChangedElsewhereStep == ASSUME Inv, ChangedElsewhere PROVE Inv'
<1>1. UNCHANGED list /\ UNCHANGED dialog /\ UNCHANGED call /\ UNCHANGED answer
  BY DEF ChangedElsewhere
<1>2. /\ shipment' \in Shipments
      /\ shipment'.version = shipment.version + 1
      /\ shipment'.status = "PROBLEM" <=> shipment'.previous # None
  <2>1. TypeOK /\ shipment.version < MaxVersion
    BY DEF Inv, ChangedElsewhere
  <2>2. CASE \E target \in Statuses : shipment' = Moved(shipment, target)
    BY <2>1, <2>2, MovedShipment
  <2>3. CASE shipment' = [shipment EXCEPT !.archived = ~@, !.version = @ + 1]
    BY <2>1, <2>3, ToggledShipment
  <2> QED
    BY <2>2, <2>3 DEF ChangedElsewhere
<1>3. TypeOK'
  BY <1>1, <1>2 DEF Inv, TypeOK
<1>4. /\ list.version < shipment'.version
      /\ dialog # NoDialog => dialog.shown.version < shipment'.version
      /\ call # NoCall => call.shown.version < shipment'.version
  BY <1>2, Older, OpenFields DEF Inv, TypeOK, Pictures
<1>5. /\ list.version \in Nat /\ shipment'.version \in Nat
      /\ dialog # NoDialog => dialog.shown.version \in Nat
      /\ call # NoCall => call.shown.version \in Nat
  BY <1>2, Fields, OpenFields DEF Inv, TypeOK
<1>6. Pictures'
  BY <1>1, <1>4, <1>5 DEF Pictures, Picture
<1>7. DialogOffers' /\ CallOffers'
  BY <1>1, <1>4, <1>5 DEF Inv, DialogOffers, CallOffers
<1> QED
  BY <1>1, <1>3, <1>6, <1>7 DEF Inv, OfferedIsAllowed

LEMMA RefreshStep == ASSUME Inv, Refresh PROVE Inv'
BY ShipmentPicture
   DEF Refresh, Inv, TypeOK, Pictures, Picture, DialogOffers, CallOffers, OfferedIsAllowed

LEMMA CancelStep == ASSUME Inv, Cancel PROVE Inv'
BY DEF Cancel, Inv, TypeOK, Pictures, Picture, DialogOffers, CallOffers, OfferedIsAllowed

(* A button that is enabled for a list offers what its row allows.         *)
LEMMA OpenStep == ASSUME Inv, NEW kind \in Kinds, Open(kind) PROVE Inv'
<1>1. UNCHANGED shipment /\ UNCHANGED list /\ UNCHANGED call /\ UNCHANGED answer
  BY DEF Open
<1>2. PICK problem \in Statuses \cup {None} :
        /\ dialog' = Dialog(kind, problem)
        /\ kind = "resolve" => problem = shipment.previous
  <2>1. shipment.previous \in Statuses \cup {None}
    BY Fields DEF Inv, TypeOK
  <2> QED
    BY <2>1 DEF Open
<1>3. /\ dialog' \in Dialogs /\ dialog'.kind = kind /\ dialog'.shown = list
      /\ dialog'.problem = problem /\ ~dialog'.override
  BY <1>2 DEF Dialog, Dialogs, Inv, TypeOK
<1>4. TypeOK' /\ Pictures'
  BY <1>1, <1>3 DEF Inv, TypeOK, Pictures, Picture
<1>5. DialogOffers'
  BY <1>1, <1>2, <1>3 DEF Open, Enabled, DialogOffers
<1> QED
  BY <1>1, <1>4, <1>5 DEF Inv, CallOffers, OfferedIsAllowed

LEMMA ToggleStep == ASSUME Inv, ToggleOverride PROVE Inv'
<1>1. UNCHANGED shipment /\ UNCHANGED list /\ UNCHANGED call /\ UNCHANGED answer
  BY DEF ToggleOverride
<1>2. dialog # NoDialog /\ dialog \in Dialogs
  BY OpenFields DEF ToggleOverride, NoDialog, None, Inv
<1>3. PICK override \in BOOLEAN : dialog' = [dialog EXCEPT !.override = override]
  BY DEF ToggleOverride
<1>4. /\ dialog' \in Dialogs /\ dialog'.kind = dialog.kind /\ dialog'.shown = dialog.shown
      /\ dialog'.problem = dialog.problem
  BY <1>2, <1>3 DEF Dialogs
<1>5. TypeOK' /\ Pictures'
  BY <1>1, <1>2, <1>4 DEF Inv, TypeOK, Pictures, Picture
<1>6. DialogOffers'
  BY <1>1, <1>2, <1>4 DEF Inv, ToggleOverride, DialogOffers
<1> QED
  BY <1>1, <1>5, <1>6 DEF Inv, CallOffers, OfferedIsAllowed

(* What is submitted from a dialog is among what the dialog lists.         *)
LEMMA SubmitStep ==
  ASSUME Inv, NEW target \in Statuses, NEW reason \in BOOLEAN, Submit(target, reason)
  PROVE  Inv'
<1>1. UNCHANGED shipment /\ UNCHANGED list /\ UNCHANGED answer /\ target \in Offered
      /\ dialog # NoDialog /\ (dialog.override => reason)
  BY DEF Submit
<1>2. dialog \in Dialogs /\ dialog.shown \in Shipments /\ dialog.kind \in Kinds
  BY <1>1, OpenFields DEF Inv, Dialogs
<1>3. \/ dialog' = NoDialog
      \/ /\ dialog' \in Dialogs /\ dialog' # NoDialog
         /\ dialog'.kind = dialog.kind /\ dialog'.shown = dialog.shown
         /\ dialog'.problem = dialog.problem /\ dialog'.override = dialog.override
  BY <1>2 DEF Submit, Dialogs, NoDialog, None, Kinds
<1>4. /\ call' \in Calls /\ call'.kind = dialog.kind /\ call'.shown = dialog.shown
      /\ call'.target = target /\ call'.override = dialog.override /\ call'.reason = reason
  BY <1>2 DEF Submit, Call, Calls, Dialogs
<1>5. TypeOK'
  BY <1>1, <1>3, <1>4 DEF Inv, TypeOK
<1>6. Pictures' /\ DialogOffers'
  BY <1>1, <1>3, <1>4 DEF Inv, Pictures, Picture, DialogOffers
<1>7. CallOffers'
  <2>1. CASE dialog.kind = "change"
    BY <1>1, <1>4, <2>1 DEF CallOffers, Inv, DialogOffers, Offered
  <2>2. CASE dialog.kind = "report"
    <3>1. target = "PROBLEM" /\ can_transition(dialog.shown.status, "PROBLEM")
      BY <1>1, <2>2 DEF Inv, DialogOffers, Offered
    <3>2. dialog.shown.status \in Statuses /\ "PROBLEM" \in Statuses
      BY <1>2, Fields DEF Statuses
    <3> QED
      BY <1>4, <2>2, <3>1, <3>2, Reportable DEF CallOffers
  <2>3. CASE dialog.kind = "resolve"
    BY <1>1, <1>4, <2>3 DEF CallOffers, Inv, DialogOffers, Offered
  <2>4. CASE dialog.kind = "archive"
    BY <1>1, <1>4, <2>4 DEF CallOffers, Inv, DialogOffers
  <2> QED
    BY <1>1, <1>2, <2>1, <2>2, <2>3, <2>4 DEF Inv, DialogOffers, Kinds
<1> QED
  BY <1>1, <1>5, <1>6, <1>7 DEF Inv, OfferedIsAllowed

LEMMA RestoreStep == ASSUME Inv, Restore PROVE Inv'
<1>1. UNCHANGED shipment /\ UNCHANGED list /\ UNCHANGED dialog /\ UNCHANGED answer
      /\ list.archived
  BY DEF Restore, Enabled
<1>2. call' \in Calls /\ call'.kind = "restore" /\ call'.shown = list
  BY Fields DEF Restore, Call, Calls, Kinds, Inv, TypeOK
<1>3. TypeOK' /\ Pictures' /\ DialogOffers'
  BY <1>1, <1>2 DEF Inv, TypeOK, Pictures, Picture, DialogOffers
<1>4. CallOffers'
  BY <1>1, <1>2 DEF CallOffers
<1> QED
  BY <1>1, <1>3, <1>4 DEF Inv, OfferedIsAllowed

(* The service refuses an older picture, and allows what an exact one      *)
(* offered.                                                                *)
LEMMA VerdictAllowed ==
  ASSUME Inv, call # NoCall
  PROVE  /\ Verdict(call) \in {"applied", "unchanged", "archived", "conflict"}
         /\ Verdict(call) = "applied" => shipment = call.shown
<1>1. call \in Calls /\ call.kind \in Kinds /\ call.shown \in Shipments
      /\ call.target \in Statuses
  BY OpenFields DEF Inv, Calls
<1>2. ~IsStale(call) => shipment = call.shown
  BY DEF IsStale, Inv, Pictures, Picture
<1>3. shipment.status = "PROBLEM" <=> shipment.previous # None
  BY DEF Inv, TypeOK
<1>4. CASE call.kind = "change"
  BY <1>2, <1>4 DEF Verdict, Inv, CallOffers
<1>5. CASE call.kind = "report"
  BY <1>2, <1>3, <1>5 DEF Verdict, Inv, CallOffers
<1>6. CASE call.kind = "resolve"
  BY <1>2, <1>6 DEF Verdict, Inv, CallOffers
<1>7. CASE call.kind \in {"archive", "restore"}
  BY <1>2, <1>7 DEF Verdict, Inv, CallOffers
<1> QED
  BY <1>1, <1>4, <1>5, <1>6, <1>7 DEF Kinds

LEMMA AnswerStep == ASSUME Inv, Answer PROVE Inv'
<1>1. call # NoCall /\ call' = NoCall /\ answer' = Verdict(call) /\ shipment.version < MaxVersion
  BY DEF Answer
<1>2. answer' \in {"applied", "unchanged", "archived", "conflict"}
  BY <1>1, VerdictAllowed
<1>3. call \in Calls /\ call.target \in Statuses
  BY <1>1, OpenFields DEF Inv, Calls
<1>4. CallOffers' /\ OfferedIsAllowed'
  BY <1>1, <1>2 DEF CallOffers, OfferedIsAllowed
<1>5. CASE answer' = "applied"
  <2>1. shipment' = Result(call) /\ list' = shipment' /\ dialog' = NoDialog
    BY <1>5 DEF Answer
  <2>2. /\ shipment' \in Shipments
        /\ shipment'.status = "PROBLEM" <=> shipment'.previous # None
    BY <1>1, <1>3, <2>1, MovedShipment, ToggledShipment DEF Result, Inv
  <2>3. TypeOK'
    BY <1>1, <1>2, <2>1, <2>2 DEF TypeOK
  <2>4. Pictures' /\ DialogOffers'
    <3>1. shipment'.version \in Nat
      BY <2>2, Fields
    <3> QED
      BY <1>1, <2>1, <3>1 DEF Pictures, Picture, DialogOffers
  <2> QED
    BY <1>4, <2>3, <2>4 DEF Inv
<1>6. CASE answer' = "unchanged"
  <2>1. shipment' = shipment /\ list' = shipment /\ dialog' = NoDialog
    BY <1>6 DEF Answer
  <2>2. TypeOK'
    BY <1>1, <1>2, <2>1 DEF Inv, TypeOK
  <2>3. Pictures' /\ DialogOffers'
    BY <1>1, <2>1, ShipmentPicture DEF Pictures, Picture, DialogOffers
  <2> QED
    BY <1>4, <2>2, <2>3 DEF Inv
<1>7. CASE answer' \in {"archived", "conflict"}
  <2>1. /\ shipment' = shipment /\ list' = list
        /\ dialog' = IF dialog = NoDialog THEN NoDialog ELSE [dialog EXCEPT !.busy = FALSE]
    BY <1>7 DEF Answer
  <2>2. \/ dialog' = NoDialog
        \/ /\ dialog # NoDialog /\ dialog' \in Dialogs
           /\ dialog'.kind = dialog.kind /\ dialog'.shown = dialog.shown
           /\ dialog'.problem = dialog.problem /\ dialog'.override = dialog.override
    BY <2>1, OpenFields DEF Inv, Dialogs
  <2>3. TypeOK'
    BY <1>1, <1>2, <2>1, <2>2 DEF Inv, TypeOK
  <2>4. Pictures' /\ DialogOffers'
    BY <1>1, <2>1, <2>2 DEF Inv, Pictures, Picture, DialogOffers
  <2> QED
    BY <1>4, <2>3, <2>4 DEF Inv
<1> QED
  BY <1>2, <1>5, <1>6, <1>7

LEMMA NextInv == Inv /\ [Next]_vars => Inv'
<1> SUFFICES ASSUME Inv, [Next]_vars
             PROVE  Inv'
  OBVIOUS
<1>1. CASE UNCHANGED vars
  <2>1. /\ UNCHANGED shipment /\ UNCHANGED list /\ UNCHANGED dialog /\ UNCHANGED call
        /\ UNCHANGED answer
    BY <1>1 DEF vars
  <2>2. TypeOK' /\ Pictures'
    BY <2>1 DEF Inv, TypeOK, Pictures, Picture
  <2>3. DialogOffers' /\ CallOffers' /\ OfferedIsAllowed'
    BY <2>1, Zenon DEF Inv, DialogOffers, CallOffers, OfferedIsAllowed
  <2> QED
    BY <2>2, <2>3 DEF Inv
<1> QED
  BY <1>1, ChangedElsewhereStep, RefreshStep, OpenStep, CancelStep, ToggleStep, SubmitStep,
     RestoreStep, AnswerStep DEF Next

(* What page, dialog and call show is the committed shipment or an older   *)
(* version of it, in every reachable state: Inv is inductive.              *)
THEOREM InvHolds == Spec => []Inv
<1>1. Init => Inv
  BY InitInv
<1>2. Inv /\ [Next]_vars => Inv'
  BY NextInv
<1> QED
  BY <1>1, <1>2, PTL DEF Spec

(* Row, list, dialog and call keep their fields, and a problem is open     *)
(* exactly while the status says so.                                       *)
THEOREM TypeCorrect == Spec => []TypeOK
<1>1. Inv => TypeOK
  BY DEF Inv
<1> QED
  BY <1>1, InvHolds, PTL

(* The dialogs offer nothing that change_status, report_problem,           *)
(* resolve_problem and _set_archived refuse as not allowed.                *)
THEOREM DialogsOfferWhatIsAllowed == Spec => []OfferedIsAllowed
<1>1. Inv => OfferedIsAllowed
  BY DEF Inv
<1> QED
  BY <1>1, InvHolds, PTL

(* A call is applied to the shipment that the user saw, or not at all:     *)
(* the comparison of versions under the write lock.                        *)
THEOREM AppliedToWhatWasSeen == Spec => AppliedAsShown
<1>1. Inv /\ [Next]_vars =>
        [call # NoCall /\ shipment' # shipment /\ call' = NoCall => shipment = call.shown]_vars
  <2> SUFFICES ASSUME Inv, [Next]_vars, call # NoCall, shipment' # shipment, call' = NoCall
               PROVE  shipment = call.shown
    OBVIOUS
  <2>1. Answer
    BY DEF Next, vars, ChangedElsewhere, Refresh, Open, Cancel, ToggleOverride, Submit, Restore
  <2>2. Verdict(call) = "applied"
    BY <2>1 DEF Answer
  <2> QED
    BY <2>2, VerdictAllowed
<1> QED
  BY <1>1, InvHolds, PTL DEF Spec, AppliedAsShown

(* ------------------------- decimal arithmetic -------------------------- *)

(* Every set of natural numbers that is not empty has a least one.         *)
LEMMA Least ==
  ASSUME NEW S, S \subseteq Nat, S # {}
  PROVE  \E x \in S : \A y \in S : x <= y
<1> DEFINE R == OpToRel(<, Nat)
<1>1. IsWellFoundedOn(R, Nat)
  BY NatLessThanWellFounded
<1>2. \A x, y \in Nat : <<y, x>> \in R <=> y < x
  BY DEF OpToRel
<1> HIDE DEF R
<1>3. PICK x \in S : \A y \in S : ~(<<y, x>> \in R)
  BY <1>1, WFMin
<1>4. \A y \in S : ~(y < x)
  BY <1>2, <1>3
<1>5. \A y \in S : x <= y
  BY <1>4
<1> QED
  BY <1>5

LEMMA Induction ==
  ASSUME NEW S, 0 \in S, \A n \in Nat : n \in S => n + 1 \in S
  PROVE  Nat \subseteq S
<1> SUFFICES ASSUME Nat \ S # {} PROVE FALSE
  OBVIOUS
<1>1. PICK x \in Nat \ S : \A y \in Nat \ S : x <= y
  BY Least
<1>2. x # 0 /\ x - 1 \in Nat /\ ~(x <= x - 1)
  OBVIOUS
<1>3. x - 1 \in S
  BY <1>1, <1>2
<1> QED
  BY <1>1, <1>2, <1>3

(* Pow10 is what its recursion equation says: the functions that satisfy   *)
(* it up to a number agree, and there is one for every number.             *)
Upto(f, n) == f = [i \in 0..n |-> IF i = 0 THEN 1 ELSE 10 * f[i - 1]]

LEMMA UptoUnique ==
  ASSUME NEW m \in Nat, NEW n \in Nat, NEW f, NEW g, Upto(f, m), Upto(g, n)
  PROVE  \A i \in Nat : i <= m /\ i <= n => f[i] = g[i]
<1> DEFINE S == {i \in Nat : i <= m /\ i <= n => f[i] = g[i]}
<1>1. 0 \in S
  BY DEF Upto
<1>2. ASSUME NEW i \in Nat, i \in S PROVE i + 1 \in S
  BY <1>2 DEF Upto
<1> HIDE DEF S
<1>3. Nat \subseteq S
  BY <1>1, <1>2, Induction
<1> QED
  BY <1>3 DEF S

LEMMA UptoExists ==
  \A n \in Nat : \E f : Upto(f, n)
<1> DEFINE S == {n \in Nat : \E f : Upto(f, n)}
<1>1. 0 \in S
  <2> DEFINE f == [i \in 0..0 |-> 1]
  <2>1. Upto(f, 0)
    BY DEF Upto
  <2> QED
    BY <2>1
<1>2. ASSUME NEW n \in Nat, n \in S PROVE n + 1 \in S
  <2>1. PICK f : Upto(f, n)
    BY <1>2
  <2> DEFINE g == [i \in 0..(n + 1) |-> IF i = n + 1 THEN 10 * f[n] ELSE f[i]]
  <2>2. Upto(g, n + 1)
    BY <2>1 DEF Upto
  <2> HIDE DEF g
  <2> QED
    BY <2>2
<1> HIDE DEF S
<1>3. Nat \subseteq S
  BY <1>1, <1>2, Induction
<1> QED
  BY <1>3 DEF S

LEMMA Pow10Def ==
  Forms!Pow10 = [n \in Nat |-> IF n = 0 THEN 1 ELSE 10 * Forms!Pow10[n - 1]]
<1> DEFINE F(n) == CHOOSE f : Upto(f, n)
           G == [n \in Nat |-> F(n)[n]]
<1>1. \A n \in Nat : Upto(F(n), n)
  BY UptoExists
<1>2. ASSUME NEW n \in Nat, n # 0
      PROVE  F(n)[n] = 10 * F(n - 1)[n - 1]
  <2>1. n - 1 \in Nat /\ n \in 0..n /\ n - 1 <= n
    BY <1>2
  <2>2. F(n)[n] = 10 * F(n)[n - 1]
    <3>1. ASSUME NEW f, Upto(f, n) PROVE f[n] = 10 * f[n - 1]
      BY <1>2, <2>1, <3>1 DEF Upto
    <3> HIDE DEF F
    <3> QED
      BY <1>1, <3>1
  <2>3. F(n)[n - 1] = F(n - 1)[n - 1]
    BY <1>1, <2>1, UptoUnique
  <2> QED
    BY <2>2, <2>3
<1>3. F(0)[0] = 1
  <2>1. \A f : Upto(f, 0) => f[0] = 1
    BY DEF Upto
  <2>2. Upto(F(0), 0)
    BY <1>1
  <2> HIDE DEF F
  <2> QED
    BY <2>1, <2>2
<1>4. G = [n \in Nat |-> IF n = 0 THEN 1 ELSE 10 * G[n - 1]]
  BY <1>2, <1>3
<1> HIDE DEF G
<1> QED
  BY <1>4 DEF Forms!Pow10

Ten(n) == Forms!Pow10[n]

LEMMA TenSteps == Ten(0) = 1 /\ \A n \in Nat : Ten(n + 1) = 10 * Ten(n)
<1>1. \A n \in Nat : n + 1 \in Nat /\ n + 1 # 0 /\ (n + 1) - 1 = n
  OBVIOUS
<1> QED
  BY <1>1, Pow10Def DEF Ten

(* A power is positive, and greater than its exponent.                     *)
LEMMA TenGrows == \A n \in Nat : Ten(n) \in Nat /\ Ten(n) > n
<1> DEFINE S == {n \in Nat : Ten(n) \in Nat /\ Ten(n) > n}
<1>1. 0 \in S
  BY TenSteps
<1>2. ASSUME NEW n \in Nat, n \in S PROVE n + 1 \in S
  <2>1. Ten(n + 1) = 10 * Ten(n)
    BY TenSteps
  <2>2. Ten(n) \in Nat /\ Ten(n) > n
    BY <1>2
  <2>3. Ten(n + 1) \in Nat /\ Ten(n + 1) > n + 1
    BY <2>1, <2>2
  <2> QED
    BY <2>3
<1> HIDE DEF S
<1>3. Nat \subseteq S
  BY <1>1, <1>2, Induction
<1> QED
  BY <1>3 DEF S

LEMMA TenAdds == \A m, n \in Nat : Ten(m + n) = Ten(m) * Ten(n)
<1> SUFFICES ASSUME NEW m \in Nat PROVE \A n \in Nat : Ten(m + n) = Ten(m) * Ten(n)
  OBVIOUS
<1> DEFINE S == {n \in Nat : Ten(m + n) = Ten(m) * Ten(n)}
<1>1. 0 \in S
  <2>1. m + 0 = m /\ Ten(m) \in Nat
    BY TenGrows
  <2> QED
    BY <2>1, TenSteps
<1>2. ASSUME NEW n \in Nat, n \in S PROVE n + 1 \in S
  <2>1. Ten(m + n) = Ten(m) * Ten(n)
    BY <1>2
  <2>2. Ten(m + (n + 1)) = 10 * Ten(m + n) /\ Ten(n + 1) = 10 * Ten(n)
    <3>1. m + (n + 1) = (m + n) + 1 /\ m + n \in Nat
      OBVIOUS
    <3> QED
      BY <3>1, TenSteps
  <2>3. \A a, b \in Nat : 10 * (a * b) = a * (10 * b)
    OBVIOUS
  <2>4. Ten(m + (n + 1)) = Ten(m) * Ten(n + 1)
    BY <2>1, <2>2, <2>3, TenGrows
  <2> QED
    BY <2>4
<1> HIDE DEF S
<1>3. Nat \subseteq S
  BY <1>1, <1>2, Induction
<1> QED
  BY <1>3 DEF S

LEMMA TenMonotone == \A m, n \in Nat : m <= n => Ten(m) <= Ten(n)
<1> SUFFICES ASSUME NEW m \in Nat, NEW n \in Nat, m <= n PROVE Ten(m) <= Ten(n)
  OBVIOUS
<1>1. n - m \in Nat /\ m + (n - m) = n
  OBVIOUS
<1>2. Ten(n) = Ten(m) * Ten(n - m)
  BY <1>1, TenAdds
<1>3. Ten(m) \in Nat /\ Ten(n - m) \in Nat /\ Ten(n - m) >= 1
  BY <1>1, TenGrows
<1>4. \A a, b \in Nat : b >= 1 => a <= a * b
  OBVIOUS
<1> QED
  BY <1>2, <1>3, <1>4

(* The digits that do not fit: none, or as few as leave the rest in place. *)
LEMMA ExcessIs ==
  ASSUME Forms!FormsAssumption, NEW c \in Nat
  PROVE  /\ Forms!Excess(c) \in Nat
         /\ c < Ten(Precision + Forms!Excess(c))
         /\ Forms!Excess(c) # 0 => c >= Ten(Precision + Forms!Excess(c) - 1)
<1>1. Precision \in Nat
  BY DEF Forms!FormsAssumption
<1> DEFINE S == {n \in Nat : c < Ten(Precision + n)}
<1>2. c \in S
  <2>1. Precision + c \in Nat /\ Precision + c >= c
    BY <1>1
  <2>2. Ten(Precision + c) \in Nat /\ Ten(Precision + c) > Precision + c
    BY <2>1, TenGrows
  <2> QED
    BY <2>1, <2>2
<1>3. PICK n \in S : \A m \in S : n <= m
  <2> HIDE DEF S
  <2>1. S \subseteq Nat
    BY DEF S
  <2> QED
    BY <1>2, <2>1, Least
<1>4. n \in 0..c
  BY <1>2, <1>3
<1>5. n # 0 => c >= Ten(Precision + n - 1)
  <2> SUFFICES ASSUME n # 0 PROVE c >= Ten(Precision + n - 1)
    OBVIOUS
  <2>1. n - 1 \in Nat /\ ~(n <= n - 1) /\ Precision + (n - 1) = Precision + n - 1
    BY <1>1, <1>3
  <2>2. ~(c < Ten(Precision + (n - 1)))
    BY <1>3, <2>1
  <2>3. Ten(Precision + (n - 1)) \in Nat
    BY <1>1, <2>1, TenGrows
  <2> QED
    BY <2>1, <2>2, <2>3
<1>6. c < Ten(Precision + n)
  BY <1>3
<1> HIDE DEF S
<1>7. /\ Forms!Excess(c) \in 0..c
      /\ c < Ten(Precision + Forms!Excess(c))
      /\ Forms!Excess(c) = 0 \/ c >= Ten(Precision + Forms!Excess(c) - 1)
  BY <1>4, <1>5, <1>6 DEF Forms!Excess, Ten
<1> QED
  BY <1>7

LEMMA FitsIs ==
  ASSUME Forms!FormsAssumption, NEW c \in Nat, c < Ten(Precision)
  PROVE  Forms!Excess(c) = 0
<1> DEFINE n == Forms!Excess(c)
<1>1. n \in Nat /\ (n # 0 => c >= Ten(Precision + n - 1))
  BY ExcessIs
<1> HIDE DEF n
<1>2. Precision \in Nat
  BY DEF Forms!FormsAssumption
<1>3. ASSUME n # 0 PROVE FALSE
  <2>1. Precision + n - 1 \in Nat /\ Precision <= Precision + n - 1
    BY <1>1, <1>2, <1>3
  <2>2. Ten(Precision) <= Ten(Precision + n - 1)
    BY <1>2, <2>1, TenMonotone
  <2>3. Ten(Precision) \in Nat /\ Ten(Precision + n - 1) \in Nat
    BY <1>2, <2>1, TenGrows
  <2> QED
    BY <1>1, <1>3, <2>2, <2>3
<1> QED
  BY <1>3 DEF n

(* The one number that rounding can carry into one more digit.             *)
LEMMA CarryIs ==
  ASSUME Forms!FormsAssumption
  PROVE  Forms!Excess(Ten(Precision)) = 1
<1>1. Precision \in Nat /\ Ten(Precision) \in Nat
  BY TenGrows DEF Forms!FormsAssumption
<1> DEFINE n == Forms!Excess(Ten(Precision))
<1>2. /\ n \in Nat /\ Ten(Precision) < Ten(Precision + n)
      /\ n # 0 => Ten(Precision) >= Ten(Precision + n - 1)
  BY <1>1, ExcessIs
<1> HIDE DEF n
<1>3. n # 0
  BY <1>1, <1>2
<1>4. ASSUME n >= 2 PROVE FALSE
  <2>1. Precision + 1 \in Nat /\ Precision + n - 1 \in Nat /\ Precision + 1 <= Precision + n - 1
    BY <1>1, <1>2, <1>4
  <2>2. Ten(Precision + 1) <= Ten(Precision + n - 1)
    BY <2>1, TenMonotone
  <2>3. Ten(Precision + 1) = 10 * Ten(Precision) /\ Ten(Precision) > Precision
    BY <1>1, TenSteps, TenGrows
  <2>4. Ten(Precision + n - 1) \in Nat
    BY <2>1, TenGrows
  <2> QED
    BY <1>1, <1>2, <1>3, <2>2, <2>3, <2>4
<1>5. n = 1
  BY <1>2, <1>3, <1>4
<1> QED
  BY <1>5 DEF n

(* Rounding to a multiple of unit.                                         *)
LEMMA HalfEvenIs ==
  ASSUME NEW c \in Nat, NEW unit \in Nat, unit >= 1
  PROVE  /\ Forms!HalfEven(c, unit) \in {c \div unit, c \div unit + 1}
         /\ Forms!HalfEven(c, unit) \in Nat
         /\ c % unit = 0 => Forms!HalfEven(c, unit) = c \div unit
<1>1. c \div unit \in Nat /\ c % unit \in Nat
  OBVIOUS
<1> QED
  BY <1>1 DEF Forms!HalfEven

(* What a decimal keeps when it is rounded: its exponent aside, it depends *)
(* on its digits only; it keeps its sign and fits, or is carried.          *)
Kept(c) == Forms!HalfEven(c, Ten(Forms!Excess(c)))

LEMMA KeptIs ==
  ASSUME Forms!FormsAssumption, NEW c \in Nat
  PROVE  /\ Kept(c) \in Nat /\ Kept(c) <= Ten(Precision)
         /\ c < Ten(Precision) => Kept(c) = c
         /\ c > 0 => Kept(c) > 0
<1> DEFINE n == Forms!Excess(c)
           u == Ten(n)
<1>1. Precision \in Nat \ {0}
  BY DEF Forms!FormsAssumption
<1>2. /\ n \in Nat /\ c < Ten(Precision + n)
      /\ n # 0 => c >= Ten(Precision + n - 1)
      /\ c < Ten(Precision) => n = 0
  BY ExcessIs, FitsIs
<1> HIDE DEF n
<1>3. u \in Nat /\ u >= 1 /\ Ten(Precision) \in Nat /\ Ten(Precision) >= 1
  BY <1>1, <1>2, TenGrows
<1>4. c < Ten(Precision) * u
  BY <1>1, <1>2, TenAdds
<1> DEFINE t == Ten(Precision)
           k == Forms!HalfEven(c, u)
<1>5. k \in {c \div u, c \div u + 1} /\ k \in Nat /\ (c % u = 0 => k = c \div u)
  BY <1>3, HalfEvenIs
<1>6. n = 0 => u = 1
  BY TenSteps
<1>7. n # 0 => c >= u
  <2> SUFFICES ASSUME n # 0 PROVE c >= u
    OBVIOUS
  <2>1. Precision + n - 1 \in Nat /\ n <= Precision + n - 1
    BY <1>1, <1>2
  <2>2. u <= Ten(Precision + n - 1) /\ Ten(Precision + n - 1) \in Nat
    BY <1>2, <2>1, TenMonotone, TenGrows
  <2> QED
    BY <1>2, <1>3, <2>2
<1> HIDE DEF u, t, k
<1>8. t \in Nat /\ t >= 1 /\ c < t * u
  BY <1>3, <1>4 DEF t
<1>9. c \div u < t /\ c \div u \in Nat
  BY <1>3, <1>8
<1>10. k <= t
  BY <1>5, <1>8, <1>9
<1>11. n = 0 => k = c
  <2>1. u = 1 => c % u = 0 /\ c \div u = c
    OBVIOUS
  <2> QED
    BY <1>5, <1>6, <2>1
<1>12. c > 0 => k > 0
  <2>1. c >= u => c \div u >= 1
    BY <1>3
  <2> QED
    BY <1>2, <1>5, <1>7, <1>9, <1>11, <2>1
<1>13. Kept(c) = k
  BY DEF Kept, k, u, n
<1> QED
  BY <1>2, <1>5, <1>10, <1>11, <1>12, <1>13 DEF t

Decimal == [c : Int, e : Int]

LEMMA RoundedIs ==
  ASSUME Forms!FormsAssumption, NEW c \in Int, NEW e \in Int
  PROVE  /\ Forms!Rounded(Forms!D(c, e)) \in Decimal
         /\ c >= 0 => Forms!Rounded(Forms!D(c, e)) = Forms!D(Kept(c), e + Forms!Excess(c))
         /\ c < 0 => Forms!Rounded(Forms!D(c, e)).c < 0
<1> DEFINE size == IF c < 0 THEN -c ELSE c
<1>1. size \in Nat /\ (c < 0 => size > 0)
  OBVIOUS
<1>2. Kept(size) \in Nat /\ (size > 0 => Kept(size) > 0) /\ Forms!Excess(size) \in Nat
  BY <1>1, KeptIs, ExcessIs
<1>3. Forms!Rounded(Forms!D(c, e)) =
        Forms!D(IF c < 0 THEN -Kept(size) ELSE Kept(size), e + Forms!Excess(size))
  BY DEF Forms!Rounded, Forms!D, Kept, Ten
<1>4. c >= 0 => size = c
  OBVIOUS
<1> HIDE DEF size
<1> QED
  BY <1>1, <1>2, <1>3, <1>4 DEF Forms!D, Decimal

LEMMA TimesIs ==
  ASSUME Forms!FormsAssumption, NEW d \in Decimal, NEW k \in Int
  PROVE  /\ Forms!TimesPow10(d, k) \in Decimal
         /\ d.c >= 0 => Forms!TimesPow10(d, k) = Forms!D(Kept(d.c), d.e + k + Forms!Excess(d.c))
         /\ d.c < 0 => Forms!TimesPow10(d, k).c < 0
<1>1. d.c \in Int /\ d.e + k \in Int
  BY DEF Decimal
<1>2. Forms!TimesPow10(d, k) = Forms!Rounded(Forms!D(d.c, d.e + k))
  BY DEF Forms!TimesPow10
<1> QED
  BY <1>1, <1>2, RoundedIs

LEMMA DivIs ==
  ASSUME NEW b \in Nat, b >= 1, NEW q \in Int, NEW r \in 0..(b - 1)
  PROVE  (b * q + r) \div b = q
OBVIOUS

LEMMA DivRem ==
  ASSUME NEW a \in Int, NEW b \in Nat, b >= 1
  PROVE  /\ a \div b \in Int /\ a % b \in 0..(b - 1) /\ a = b * (a \div b) + (a % b)
         /\ a >= 0 => a \div b \in Nat
OBVIOUS

(* A whole number of units, and its sign.                                  *)
LEMMA ToIntIs ==
  ASSUME NEW d \in Decimal, Forms!IsIntegral(d)
  PROVE  /\ Forms!ToInt(d) \in Int
         /\ d.c > 0 => Forms!ToInt(d) > 0
         /\ d.c < 0 => Forms!ToInt(d) < 0
<1>1. d.c \in Int /\ d.e \in Int
  BY DEF Decimal
<1>2. CASE d.e >= 0
  <2>1. Ten(d.e) \in Nat /\ Ten(d.e) >= 1
    BY <1>1, <1>2, TenGrows
  <2>2. Forms!ToInt(d) = d.c * Ten(d.e)
    BY <1>2 DEF Forms!ToInt, Ten
  <2>3. \A a \in Int, b \in Nat : b >= 1 => /\ a * b \in Int /\ (a > 0 => a * b > 0)
                                           /\ (a < 0 => a * b < 0)
    OBVIOUS
  <2> QED
    BY <1>1, <2>1, <2>2, <2>3
<1>3. CASE d.e < 0
  <2>1. -d.e \in Nat /\ Ten(-d.e) \in Nat /\ Ten(-d.e) >= 1
    BY <1>1, <1>3, TenGrows
  <2>2. /\ Forms!ToInt(d) = IF d.c < 0 THEN -((-d.c) \div Ten(-d.e)) ELSE d.c \div Ten(-d.e)
        /\ d.c % Ten(-d.e) = 0
    BY <1>1, <1>3 DEF Forms!ToInt, Forms!IsIntegral, Ten
  <2>3. \A a \in Nat, b \in Nat : b >= 1 /\ a % b = 0 /\ a > 0 => a \div b \in Nat /\ a \div b > 0
    OBVIOUS
  <2>4. \A a \in Nat, b \in Nat : b >= 1 => a \div b \in Nat
    OBVIOUS
  <2>6. CASE d.c < 0
    <3> DEFINE b == Ten(-d.e)
               q == d.c \div b
    <3>1. b \in Nat /\ b >= 1 /\ d.c % b = 0
      BY <2>1, <2>2
    <3> HIDE DEF b
    <3>2. q \in Int /\ d.c = b * q + 0
      BY <1>1, <3>1, DivRem
    <3> HIDE DEF q
    <3>3. q < 0
      BY <2>6, <3>1, <3>2
    <3>4. -d.c = b * (-q) + 0 /\ -q \in Int /\ 0 \in 0..(b - 1)
      BY <1>1, <3>1, <3>2
    <3>5. (-d.c) \div b = -q
      BY <3>1, <3>4, DivIs
    <3>6. Forms!ToInt(d) = -((-d.c) \div b)
      BY <2>2, <2>6 DEF b
    <3>7. Forms!ToInt(d) = q
      BY <3>2, <3>5, <3>6
    <3> QED
      BY <1>1, <2>6, <3>2, <3>3, <3>7
  <2>7. CASE d.c >= 0
    BY <1>1, <2>1, <2>2, <2>3, <2>4, <2>7
  <2> QED
    BY <1>1, <2>6, <2>7
<1> QED
  BY <1>1, <1>2, <1>3

(* A digit zero at the end can be written as a power.                      *)
LEMMA ZeroAtTheEnd ==
  ASSUME NEW a \in Nat, NEW e \in Int
  PROVE  Forms!ToInt(Forms!D(10 * a, e)) = Forms!ToInt(Forms!D(a, e + 1))
<1>1. 10 * a \in Nat /\ ~(10 * a < 0) /\ ~(a < 0)
  OBVIOUS
<1>2. /\ e >= 0 => Forms!ToInt(Forms!D(10 * a, e)) = (10 * a) * Ten(e)
      /\ e < 0 => Forms!ToInt(Forms!D(10 * a, e)) = (10 * a) \div Ten(-e)
      /\ e + 1 >= 0 => Forms!ToInt(Forms!D(a, e + 1)) = a * Ten(e + 1)
      /\ e + 1 < 0 => Forms!ToInt(Forms!D(a, e + 1)) = a \div Ten(-(e + 1))
  BY <1>1 DEF Forms!ToInt, Forms!D, Ten
<1>3. CASE e >= 0
  <2>1. Ten(e + 1) = 10 * Ten(e) /\ Ten(e) \in Nat
    BY <1>3, TenSteps, TenGrows
  <2>2. \A b \in Nat : (10 * a) * b = a * (10 * b)
    OBVIOUS
  <2> QED
    BY <1>2, <1>3, <2>1, <2>2
<1>4. CASE e + 1 = 0
  <2>1. Ten(1) = 10 /\ Ten(0) = 1
    <3>1. Ten(0 + 1) = 10 * Ten(0)
      BY TenSteps
    <3> QED
      BY <3>1, TenSteps
  <2>2. (10 * a) \div 10 = a /\ a * 1 = a
    OBVIOUS
  <2>3. -e = 1 /\ e + 1 = 0
    BY <1>4
  <2> QED
    BY <1>2, <1>4, <2>1, <2>2, <2>3
<1>5. CASE e + 1 < 0
  <2>1. -(e + 1) \in Nat /\ -e = -(e + 1) + 1
    BY <1>5
  <2>2. Ten(-e) = 10 * Ten(-(e + 1)) /\ Ten(-(e + 1)) \in Nat /\ Ten(-(e + 1)) >= 1
    BY <2>1, TenSteps, TenGrows
  <2>3. \A b \in Nat : b >= 1 => (10 * a) \div (10 * b) = a \div b
    <3> SUFFICES ASSUME NEW b \in Nat, b >= 1 PROVE (10 * a) \div (10 * b) = a \div b
      OBVIOUS
    <3>1. PICK q \in Nat, r \in 0..(b - 1) : a = b * q + r
      <4>1. a \div b \in Nat /\ a % b \in 0..(b - 1) /\ a = b * (a \div b) + (a % b)
        OBVIOUS
      <4> QED
        BY <4>1
    <3>2. 10 * a = (10 * b) * q + 10 * r /\ 10 * r \in 0..(10 * b - 1)
      BY <3>1
    <3>4. a \div b = q
      BY <3>1, DivIs
    <3>5. 10 * b \in Nat /\ 10 * b >= 1
      OBVIOUS
    <3>6. (10 * a) \div (10 * b) = q
      BY <3>2, <3>5, DivIs
    <3> QED
      BY <3>4, <3>6
  <2> QED
    BY <1>2, <1>5, <2>2, <2>3
<1> QED
  BY <1>3, <1>4, <1>5

(* normalize and the product round twice, and to the same size.            *)
LEMMA RoundedTwice ==
  ASSUME Forms!FormsAssumption, NEW d \in Decimal, d.c > 0
  PROVE  Forms!ToInt(Forms!TimesPow10(Forms!Rounded(d), 1)) = Forms!ToInt(Forms!TimesPow10(d, 1))
<1>1. d.c \in Nat /\ d.e \in Int /\ d = Forms!D(d.c, d.e)
  BY DEF Decimal, Forms!D
<1> DEFINE k == Kept(d.c)
           e == d.e + Forms!Excess(d.c)
<1>2. /\ k \in Nat /\ k <= Ten(Precision) /\ e \in Int /\ Ten(Precision) \in Nat
      /\ Precision \in Nat \ {0}
  BY <1>1, KeptIs, ExcessIs, TenGrows DEF Forms!FormsAssumption
<1>3. Forms!Rounded(d) = Forms!D(k, e)
  BY <1>1, RoundedIs
<1>4. Forms!TimesPow10(d, 1) = Forms!D(k, e + 1)
  <2>1. d.e + 1 + Forms!Excess(d.c) = e + 1
    BY <1>1, ExcessIs
  <2> QED
    BY <1>1, <2>1, TimesIs
<1> HIDE DEF k, e
<1>5. Forms!D(k, e) \in Decimal /\ Forms!D(k, e).c = k /\ Forms!D(k, e).e = e
  BY <1>2 DEF Forms!D, Decimal
<1>6. Forms!TimesPow10(Forms!D(k, e), 1) = Forms!D(Kept(k), e + 1 + Forms!Excess(k))
  <2>1. PICK x \in Decimal : x = Forms!D(k, e) /\ x.c = k /\ x.e = e
    BY <1>5
  <2>2. Forms!TimesPow10(x, 1) = Forms!D(Kept(x.c), x.e + 1 + Forms!Excess(x.c))
    <3>1. x.c >= 0
      BY <1>2, <2>1
    <3> QED
      BY <3>1, TimesIs
  <2> QED
    BY <2>1, <2>2
<1>7. CASE k < Ten(Precision)
  <2>1. Kept(k) = k /\ Forms!Excess(k) = 0
    BY <1>2, <1>7, KeptIs, FitsIs
  <2>2. e + 1 + Forms!Excess(k) = e + 1
    BY <1>2, <2>1
  <2> QED
    BY <1>3, <1>4, <1>6, <2>1, <2>2
<1>8. CASE k = Ten(Precision)
  <2>1. Forms!Excess(k) = 1
    BY <1>8, CarryIs
  <2>2. PICK a \in Nat : k = 10 * a
    <3>1. Precision - 1 \in Nat /\ (Precision - 1) + 1 = Precision
      BY <1>2
    <3>2. Ten(Precision) = 10 * Ten(Precision - 1) /\ Ten(Precision - 1) \in Nat
      BY <3>1, TenSteps, TenGrows
    <3> QED
      BY <1>8, <3>2
  <2>3. Kept(k) = a
    <3>1. Ten(1) = 10
      <4>1. Ten(0 + 1) = 10 * Ten(0)
        BY TenSteps
      <4> QED
        BY <4>1, TenSteps
    <3>2. (10 * a) % 10 = 0 /\ (10 * a) \div 10 = a
      OBVIOUS
    <3> QED
      BY <1>2, <2>1, <2>2, <3>1, <3>2, HalfEvenIs DEF Kept
  <2>4. Forms!ToInt(Forms!D(a, (e + 1) + 1)) = Forms!ToInt(Forms!D(10 * a, e + 1))
    BY <1>2, ZeroAtTheEnd
  <2> QED
    BY <1>3, <1>4, <1>6, <2>1, <2>2, <2>3, <2>4
<1> QED
  BY <1>2, <1>7, <1>8

(* ------------------------ the fields of a form ------------------------- *)

LEMMA Texts_are ==
  ASSUME Forms!FormsAssumption, NEW text \in Forms!Entered
  PROVE  /\ text \notin {Empty, NotANumber} => text \in Decimal
         /\ text \in Decimal => text \notin {Empty, NotANumber}
BY DEF Forms!FormsAssumption, Forms!Entered, Forms!Fields, Forms!Money, Decimal

(* Whole units of a text that fits the decimal context are exactly it.     *)
LEMMA ExactWhenWhole ==
  ASSUME NEW c \in Nat, NEW e \in Int, NEW k \in Nat, NEW n \in Int,
         Forms!IsIntegral(Forms!D(c, e + k)), n = Forms!ToInt(Forms!D(c, e + k)),
         NEW d, d.c = c, d.e = e
  PROVE  Forms!Exactly(d, n, k)
<1>1. e + k \in Int /\ ~(c < 0)
  OBVIOUS
<1>2. CASE e + k >= 0
  BY <1>2 DEF Forms!Exactly, Forms!ToInt, Forms!D
<1>3. CASE e + k < 0
  <2>1. -(e + k) \in Nat
    BY <1>1, <1>3
  <2> DEFINE b == Ten(-(e + k))
  <2>2. b \in Nat /\ b >= 1
    BY <2>1, TenGrows
  <2>3. c % b = 0 /\ n = c \div b
    BY <1>1, <1>3 DEF Forms!IsIntegral, Forms!ToInt, Forms!D, Ten
  <2>4. Forms!Exactly(d, n, k) <=> c = n * b
    BY <1>3 DEF Forms!Exactly, Ten
  <2> HIDE DEF b
  <2>5. c = b * (c \div b) + (c % b)
    BY <2>2, DivRem
  <2>6. c = n * b
    BY <2>2, <2>3, <2>5
  <2> QED
    BY <2>4, <2>6
<1> QED
  BY <1>1, <1>2, <1>3

(* bam_to_fen: an amount that can be stored; exact, while the text fits    *)
(* the decimal context.                                                    *)
LEMMA MoneyIs ==
  ASSUME Forms!FormsAssumption, NEW text \in Forms!Entered, NEW allow_zero \in BOOLEAN
  PROVE  LET fen == Forms!bam_to_fen(text, allow_zero) IN
           /\ fen \in Forms!Money \cup {Empty, Error}
           /\ fen = Empty <=> text = Empty
           /\ fen \notin {Empty, Error} /\ text.c < Ten(Precision) =>
                Forms!Exactly(text, fen, 2)
<1>1. /\ Empty # NotANumber /\ Error \notin {Empty, NotANumber} /\ MAX_MONEY_FEN \in Nat
      /\ Forms!Money \subseteq Int /\ Empty \notin Int /\ Error \notin Int
      /\ Forms!Money = 0..MAX_MONEY_FEN
  BY DEF Forms!FormsAssumption, Forms!Money
<1>2. CASE text = Empty
  BY <1>1, <1>2 DEF Forms!bam_to_fen
<1>3. CASE text = NotANumber
  BY <1>1, <1>3 DEF Forms!bam_to_fen
<1>4. CASE text \notin {Empty, NotANumber}
  <2> DEFINE d == Forms!TimesPow10(text, 2)
             fen == Forms!bam_to_fen(text, allow_zero)
  <2>1. text \in Decimal /\ text.c \in Int /\ text.e \in Int
    BY <1>4, Texts_are DEF Decimal
  <2>2. d \in Decimal /\ (text.c < 0 => d.c < 0)
        /\ (text.c >= 0 => d = Forms!D(Kept(text.c), text.e + 2 + Forms!Excess(text.c)))
    BY <2>1, TimesIs
  <2>3. \/ fen = Error
        \/ /\ Forms!IsIntegral(d) /\ fen = Forms!ToInt(d)
           /\ fen >= (IF allow_zero THEN 0 ELSE 1) /\ fen <= MAX_MONEY_FEN
    BY <1>4 DEF Forms!bam_to_fen
  <2> HIDE DEF d, fen
  <2>4. CASE fen = Error
    BY <1>1, <1>4, <2>4 DEF fen
  <2>5. CASE fen # Error
    <3>1. Forms!IsIntegral(d) /\ fen = Forms!ToInt(d) /\ fen \in Int /\ (d.c < 0 => fen < 0)
      BY <2>2, <2>3, <2>5, ToIntIs
    <3>2. fen >= 0 /\ fen <= MAX_MONEY_FEN
      BY <2>3, <2>5, <3>1
    <3>3. fen \in Forms!Money
      BY <1>1, <3>1, <3>2
    <3>4. text.c \in Nat
      BY <2>1, <2>2, <3>1, <3>2
    <3>5. ASSUME text.c < Ten(Precision) PROVE Forms!Exactly(text, fen, 2)
      <4>1. Kept(text.c) = text.c /\ Forms!Excess(text.c) = 0
        BY <3>4, <3>5, KeptIs, FitsIs
      <4>2. d = Forms!D(text.c, text.e + 2)
        BY <2>1, <2>2, <3>4, <4>1
      <4> QED
        BY <2>1, <3>1, <3>4, <4>2, ExactWhenWhole
    <3> QED
      BY <1>1, <1>4, <3>3, <3>5 DEF fen
  <2> QED
    BY <2>4, <2>5
<1> QED
  BY <1>2, <1>3, <1>4

(* Fen, text and fen again are one amount.                                 *)
LEMMA ShownAgain ==
  ASSUME Forms!FormsAssumption, NEW fen \in Forms!Money, NEW allow_zero \in BOOLEAN,
         allow_zero \/ fen # 0
  PROVE  /\ Forms!fen_to_text(fen) \in Forms!Entered
         /\ Forms!bam_to_fen(Forms!fen_to_text(fen), allow_zero) = fen
<1>1. /\ fen \in Nat /\ fen <= MAX_MONEY_FEN /\ MAX_MONEY_FEN \in Nat
      /\ MAX_MONEY_FEN < Ten(Precision) /\ fen # Empty /\ Ten(Precision) \in Nat
  BY TenGrows DEF Forms!FormsAssumption, Forms!Money, Ten
<1>2. PICK text : text = Forms!fen_to_text(fen)
  OBVIOUS
<1>3. text = [c |-> fen, e |-> -2]
  BY <1>1, <1>2 DEF Forms!fen_to_text, Forms!D
<1>4. text \in [c : Forms!Money, e : {-2}] /\ text.c = fen /\ text.e = -2 /\ text \in Decimal
  BY <1>1, <1>3 DEF Decimal
<1>5. text \in Forms!Entered
  BY <1>4 DEF Forms!Entered
<1>6. text \notin {Empty, NotANumber}
  BY <1>4, <1>5, Texts_are
<1>7. Forms!TimesPow10(text, 2) = Forms!D(fen, 0)
  <2>1. Kept(fen) = fen /\ Forms!Excess(fen) = 0
    <3>1. fen < Ten(Precision)
      BY <1>1
    <3> QED
      BY <1>1, <3>1, KeptIs, FitsIs
  <2>2. text.c >= 0
    BY <1>1, <1>4
  <2>3. Forms!TimesPow10(text, 2) = Forms!D(Kept(text.c), text.e + 2 + Forms!Excess(text.c))
    BY <1>4, <2>2, TimesIs
  <2> QED
    BY <1>4, <2>1, <2>3
<1>8. Forms!IsIntegral(Forms!D(fen, 0)) /\ Forms!ToInt(Forms!D(fen, 0)) = fen
  <2>1. fen * Ten(0) = fen
    BY <1>1, TenSteps
  <2> QED
    BY <2>1 DEF Forms!IsIntegral, Forms!ToInt, Forms!D, Ten
<1>9. Forms!bam_to_fen(text, allow_zero) = fen
  BY <1>1, <1>6, <1>7, <1>8 DEF Forms!bam_to_fen
<1> QED
  BY <1>2, <1>5, <1>9

LEMMA GramsAre ==
  ASSUME Forms!FormsAssumption, NEW text \in Forms!Fields
  PROVE  Forms!_kilograms_to_grams(text) \in Int \cup {Empty, Error}
<1>1. text \in Forms!Entered
  BY DEF Forms!Entered
<1>2. CASE text \in {Empty, NotANumber}
  BY <1>2 DEF Forms!_kilograms_to_grams
<1>3. CASE text \notin {Empty, NotANumber}
  <2> DEFINE d == Forms!TimesPow10(text, 3)
  <2>1. d \in Decimal
    BY <1>1, <1>3, Texts_are, TimesIs
  <2>2. \/ Forms!_kilograms_to_grams(text) = Error
        \/ Forms!IsIntegral(d) /\ Forms!_kilograms_to_grams(text) = Forms!ToInt(d)
    BY <1>3 DEF Forms!_kilograms_to_grams
  <2> HIDE DEF d
  <2> QED
    BY <2>1, <2>2, ToIntIs
<1> QED
  BY <1>2, <1>3

(* A size that the service accepts is one that the table can hold.         *)
LEMMA WidthIs ==
  ASSUME Forms!FormsAssumption, NEW text \in Forms!Fields, Forms!validate_dimension_cm(text)
  PROVE  Forms!dimension_cm_to_mm(text) \in 1..MAX_STORED_MEASUREMENT \cup {Empty}
<1>1. text \in Forms!Entered
  BY DEF Forms!Entered
<1>2. CASE text = Empty
  BY <1>2 DEF Forms!dimension_cm_to_mm
<1>3. CASE text # Empty
  <2> DEFINE d == Forms!TimesPow10(text, 1)
  <2>1. /\ text # NotANumber /\ text.c > 0
        /\ Forms!IsIntegral(d) /\ Forms!ToInt(d) <= MAX_STORED_MEASUREMENT
    BY <1>3 DEF Forms!validate_dimension_cm
  <2>2. text \in Decimal /\ text.c \in Nat
    BY <1>1, <1>3, <2>1, Texts_are DEF Decimal
  <2>3. d \in Decimal /\ d.c > 0
    <3>1. d \in Decimal /\ d = Forms!D(Kept(text.c), text.e + 1 + Forms!Excess(text.c))
      BY <2>1, <2>2, TimesIs
    <3>2. Kept(text.c) > 0
      BY <2>1, <2>2, KeptIs
    <3>3. d.c = Kept(text.c)
      BY <3>1 DEF Forms!D
    <3> QED
      BY <3>1, <3>2, <3>3
  <2>4. Forms!dimension_cm_to_mm(text) = Forms!ToInt(d)
    BY <1>3, <2>1, <2>2, RoundedTwice DEF Forms!dimension_cm_to_mm
  <2> HIDE DEF d
  <2>5. Forms!ToInt(d) \in Int /\ Forms!ToInt(d) > 0
    BY <2>1, <2>3, ToIntIs
  <2>6. MAX_STORED_MEASUREMENT \in Nat
    BY DEF Forms!FormsAssumption
  <2> QED
    BY <2>1, <2>4, <2>5, <2>6
<1> QED
  BY <1>2, <1>3

(* ----------------------- the dialogs with a form ----------------------- *)

(* The editor of the row, and what it emits unless something is changed.   *)
Editor(busy) ==
  [kind |-> "edit", declared |-> Forms!fen_to_text(row.declared_fen), cod |-> row.cod_enabled,
   cod_amount |-> Forms!fen_to_text(row.cod_fen), services |-> row.services,
   weight |-> Empty, width |-> Empty, busy |-> busy]

RowPayment ==
  [declared_fen |-> row.declared_fen, cod_enabled |-> row.cod_enabled,
   cod_fen |-> row.cod_fen, services |-> row.services]

(* A row is an accepted one.                                               *)
RowOK == row # Empty => (row.cod_enabled <=> row.cod_fen # Empty) /\ row.cod_fen # 0

FormOK ==
  /\ form.kind = "none" => form = Forms!NoForm
  /\ form.kind = "edit" => row # Empty

(* What is on its way is valid, and the amount is that of the text.        *)
SentOK ==
  sent # Empty =>
    /\ Forms!validate_payment(sent.payment)
    /\ sent.payment.declared_fen = Forms!bam_to_fen(sent.declared, TRUE)
    /\ form.kind = "none" \/ form.busy
    /\ sent.kind = "edit" => row # Empty

(* What nobody has changed is what the row says.                           *)
AsOpened ==
  untouched =>
    /\ form.kind # "none" => row # Empty /\ form = Editor(form.busy)
    /\ sent # Empty => sent.kind = "edit" /\ sent.payment = RowPayment

FormsInv ==
  /\ Forms!TypeOK /\ Forms!TableNeverRefuses /\ Forms!CodFieldFollows
  /\ Forms!InsuredHasValue /\ Forms!ExactMoney
  /\ RowOK /\ FormOK /\ SentOK /\ AsOpened

LEMMA BlankIs ==
  /\ Forms!Blank \in Forms!Forms /\ Forms!Blank.kind = "new"
  /\ ~Forms!Blank.cod /\ Forms!Blank.cod_amount = Empty /\ ~Forms!Blank.busy
BY DEF Forms!Blank, Forms!Forms, Forms!Entered, Forms!Fields

LEMMA NoFormIs ==
  /\ Forms!NoForm = [kind |-> "none", declared |-> Empty, cod |-> FALSE, cod_amount |-> Empty,
                     services |-> {}, weight |-> Empty, width |-> Empty, busy |-> FALSE]
  /\ Forms!NoForm \in Forms!Forms /\ Forms!NoForm.kind = "none"
  /\ ~Forms!NoForm.cod /\ Forms!NoForm.cod_amount = Empty /\ ~Forms!NoForm.busy
<1>1. Forms!NoForm = [kind |-> "none", declared |-> Empty, cod |-> FALSE, cod_amount |-> Empty,
                      services |-> {}, weight |-> Empty, width |-> Empty, busy |-> FALSE]
  <2>1. Forms!NoForm = [kind |-> "none", declared |-> Forms!Blank.declared,
                        cod |-> Forms!Blank.cod, cod_amount |-> Forms!Blank.cod_amount,
                        services |-> Forms!Blank.services, weight |-> Forms!Blank.weight,
                        width |-> Forms!Blank.width, busy |-> Forms!Blank.busy]
    BY BlankIs DEF Forms!NoForm, Forms!Forms
  <2> QED
    BY <2>1 DEF Forms!Blank
<1>2. Empty \in Forms!Entered /\ Empty \in Forms!Fields
  BY DEF Forms!Entered, Forms!Fields
<1> QED
  BY <1>1, <1>2 DEF Forms!Forms

LEMMA FormsInit == Forms!Init => FormsInv
<1> SUFFICES ASSUME Forms!Init PROVE FormsInv
  OBVIOUS
<1>1. /\ row = Empty /\ form = Forms!NoForm /\ sent = Empty /\ untouched = FALSE
      /\ refusals = {} /\ source = Empty
  BY DEF Forms!Init
<1>2. Forms!TypeOK
  BY <1>1, NoFormIs DEF Forms!TypeOK
<1> QED
  BY <1>1, <1>2, NoFormIs
     DEF FormsInv, Forms!TableNeverRefuses, Forms!CodFieldFollows, Forms!InsuredHasValue,
         Forms!ExactMoney, RowOK, FormOK, SentOK, AsOpened

LEMMA Opened == ASSUME FormsInv PROVE form # Forms!NoForm <=> form.kind # "none"
BY NoFormIs DEF FormsInv, FormOK

(* A change in a field of an open dialog.                                  *)
LEMMA TouchedStep ==
  ASSUME FormsInv, Forms!Editing, Forms!Touched, form' \in Forms!Forms,
         form'.kind = form.kind, ~form'.busy, ~form'.cod => form'.cod_amount = Empty
  PROVE  FormsInv'
<1>1. /\ form.kind # "none" /\ ~form.busy
  BY Opened DEF Forms!Editing
<1>2. /\ sent = Empty /\ sent' = sent /\ row' = row /\ refusals' = refusals
      /\ source' = source /\ untouched' = FALSE
  BY <1>1 DEF FormsInv, SentOK, Forms!Touched
<1>3. Forms!TypeOK'
  BY <1>2 DEF FormsInv, Forms!TypeOK
<1> QED
  BY <1>1, <1>2, <1>3
     DEF FormsInv, Forms!TableNeverRefuses, Forms!CodFieldFollows, Forms!InsuredHasValue,
         Forms!ExactMoney, RowOK, FormOK, SentOK, AsOpened

LEMMA TypeStep ==
  ASSUME FormsInv, NEW text \in Forms!Fields, Forms!TypeAmount(text) \/ Forms!TypeMeasure(text)
  PROVE  FormsInv'
<1>1. Forms!Editing /\ Forms!Touched /\ form \in Forms!Forms /\ ~form.busy
      /\ (~form.cod => form.cod_amount = Empty)
  BY DEF Forms!TypeAmount, Forms!TypeMeasure, Forms!Editing, FormsInv, Forms!TypeOK,
         Forms!CodFieldFollows
<1>2. text \in Forms!Entered
  BY DEF Forms!Entered
<1>3. \/ form' = [form EXCEPT !.declared = text]
      \/ form.cod /\ form' = [form EXCEPT !.cod_amount = text]
      \/ form' = [form EXCEPT !.weight = text]
      \/ form' = [form EXCEPT !.width = text]
  BY DEF Forms!TypeAmount, Forms!TypeMeasure
<1>4. /\ form' \in Forms!Forms /\ form'.kind = form.kind /\ ~form'.busy
      /\ ~form'.cod => form'.cod_amount = Empty
  BY <1>1, <1>2, <1>3 DEF Forms!Forms
<1> QED
  BY <1>1, <1>4, TouchedStep

LEMMA CodStep == ASSUME FormsInv, Forms!_cod_toggled PROVE FormsInv'
<1>1. Forms!Editing /\ Forms!Touched /\ form \in Forms!Forms /\ ~form.busy
      /\ (~form.cod => form.cod_amount = Empty)
  BY DEF Forms!_cod_toggled, Forms!Editing, FormsInv, Forms!TypeOK, Forms!CodFieldFollows
<1>2. PICK cod \in BOOLEAN : cod = ~form.cod
  OBVIOUS
<1>3. PICK amount : amount = IF form.cod THEN Empty ELSE form.cod_amount
  OBVIOUS
<1>4. form' = [form EXCEPT !.cod = cod, !.cod_amount = amount]
  BY <1>2, <1>3 DEF Forms!_cod_toggled
<1>5. amount \in Forms!Entered /\ amount = Empty
  BY <1>1, <1>3 DEF Forms!Entered, Forms!Fields
<1>6. /\ form' \in Forms!Forms /\ form'.kind = form.kind /\ ~form'.busy
      /\ form'.cod_amount = Empty
  BY <1>1, <1>4, <1>5 DEF Forms!Forms
<1> QED
  BY <1>1, <1>6, TouchedStep

LEMMA TickStep ==
  ASSUME FormsInv, NEW service \in Forms!Services, Forms!Tick(service)
  PROVE  FormsInv'
<1>1. Forms!Editing /\ Forms!Touched /\ form \in Forms!Forms /\ ~form.busy
      /\ (~form.cod => form.cod_amount = Empty)
  BY DEF Forms!Tick, Forms!Editing, FormsInv, Forms!TypeOK, Forms!CodFieldFollows
<1>2. PICK services : services = IF service \in form.services THEN form.services \ {service}
                                                             ELSE form.services \cup {service}
  OBVIOUS
<1>3. form' = [form EXCEPT !.services = services]
  BY <1>2 DEF Forms!Tick
<1>4. services \in SUBSET Forms!Services
  BY <1>1, <1>2 DEF Forms!Forms
<1>5. /\ form' \in Forms!Forms /\ form'.kind = form.kind /\ ~form'.busy
      /\ ~form'.cod => form'.cod_amount = Empty
  BY <1>1, <1>3, <1>4 DEF Forms!Forms
<1> QED
  BY <1>1, <1>5, TouchedStep

LEMMA CancelFormStep == ASSUME FormsInv, Forms!Cancel PROVE FormsInv'
<1>1. /\ form' = Forms!NoForm /\ sent' = sent /\ row' = row /\ refusals' = refusals
      /\ source' = source /\ untouched' = untouched
  BY DEF Forms!Cancel
<1>2. Forms!TypeOK'
  BY <1>1, NoFormIs DEF FormsInv, Forms!TypeOK
<1> QED
  BY <1>1, <1>2, NoFormIs
     DEF FormsInv, Forms!TableNeverRefuses, Forms!CodFieldFollows, Forms!InsuredHasValue,
         Forms!ExactMoney, RowOK, FormOK, SentOK, AsOpened, RowPayment

LEMMA OpenNewStep == ASSUME FormsInv, Forms!OpenNew PROVE FormsInv'
<1>1. /\ form' = Forms!Blank /\ sent = Empty /\ sent' = sent /\ row' = row
      /\ refusals' = refusals /\ source' = source /\ untouched' = FALSE
  BY DEF Forms!OpenNew
<1>2. Forms!TypeOK'
  BY <1>1, BlankIs DEF FormsInv, Forms!TypeOK
<1> QED
  BY <1>1, <1>2, BlankIs
     DEF FormsInv, Forms!TableNeverRefuses, Forms!CodFieldFollows, Forms!InsuredHasValue,
         Forms!ExactMoney, RowOK, FormOK, SentOK, AsOpened

(* An amount, shown in its field.                                          *)
LEMMA ShownIs ==
  ASSUME NEW fen \in Forms!Money \cup {Empty}
  PROVE  /\ Forms!fen_to_text(fen) \in Forms!Entered
         /\ fen = Empty => Forms!fen_to_text(fen) = Empty
BY DEF Forms!fen_to_text, Forms!D, Forms!Entered, Forms!Fields

LEMMA OpenEditStep == ASSUME FormsInv, Forms!OpenEdit PROVE FormsInv'
<1>1. /\ row # Empty /\ sent = Empty /\ sent' = sent /\ row' = row
      /\ refusals' = refusals /\ source' = source /\ untouched' = TRUE
  BY DEF Forms!OpenEdit
<1>2. row \in Forms!Rows /\ (row.cod_enabled <=> row.cod_fen # Empty)
  BY <1>1 DEF FormsInv, Forms!TypeOK, RowOK
<1>3. form' = Editor(FALSE)
  BY DEF Forms!OpenEdit, Forms!Blank, Editor
<1>4. /\ row.declared_fen \in Forms!Money \cup {Empty} /\ row.cod_fen \in Forms!Money \cup {Empty}
      /\ row.cod_enabled \in BOOLEAN /\ row.services \in SUBSET Forms!Services
  BY <1>2 DEF Forms!Rows
<1>5. /\ form' \in Forms!Forms /\ form'.kind = "edit" /\ ~form'.busy
      /\ ~form'.cod => form'.cod_amount = Empty
  <2>1. /\ Forms!fen_to_text(row.declared_fen) \in Forms!Entered
        /\ Forms!fen_to_text(row.cod_fen) \in Forms!Entered
        /\ ~row.cod_enabled => Forms!fen_to_text(row.cod_fen) = Empty
    BY <1>2, <1>4, ShownIs
  <2>2. Empty \in Forms!Fields
    BY DEF Forms!Fields
  <2> QED
    BY <1>3, <1>4, <2>1, <2>2 DEF Editor, Forms!Forms
<1>6. form' = Editor(FALSE)' /\ form'.busy = FALSE
  BY <1>1, <1>3 DEF Editor
<1>7. Forms!TypeOK'
  BY <1>1, <1>5 DEF FormsInv, Forms!TypeOK
<1>8. AsOpened'
  <2>1. Editor(form.busy)' = Editor(FALSE)'
    BY <1>6 DEF Editor
  <2> QED
    BY <1>1, <1>6, <2>1 DEF AsOpened
<1> QED
  BY <1>1, <1>5, <1>7, <1>8
     DEF FormsInv, Forms!TableNeverRefuses, Forms!CodFieldFollows, Forms!InsuredHasValue,
         Forms!ExactMoney, RowOK, FormOK, SentOK

(* What a valid form emits, and for an editor that nobody has changed.     *)
LEMMA SubmitFormStep == ASSUME FormsInv, Forms!Submit PROVE FormsInv'
<1>1. /\ form.kind # "none" /\ ~form.busy /\ sent = Empty
      /\ row' = row /\ untouched' = untouched /\ source' = source
  BY Opened DEF FormsInv, SentOK, Forms!Submit, Forms!Editing
<1>2. /\ form \in Forms!Forms /\ form.declared \in Forms!Entered /\ form.cod \in BOOLEAN
      /\ form.cod_amount \in Forms!Entered /\ form.services \in SUBSET Forms!Services
      /\ form.weight \in Forms!Fields /\ form.width \in Forms!Fields
      /\ form.kind \in {"new", "edit"}
  BY <1>1 DEF FormsInv, Forms!TypeOK, Forms!Forms
<1>3. PICK declared : declared = Forms!bam_to_fen(form.declared, TRUE)
  OBVIOUS
<1>4. PICK cod : cod = Forms!bam_to_fen(form.cod_amount, FALSE)
  OBVIOUS
<1>5. PICK grams : grams = Forms!_kilograms_to_grams(form.weight)
  OBVIOUS
<1>6. /\ declared \in Forms!Money \cup {Empty, Error} /\ cod \in Forms!Money \cup {Empty, Error}
      /\ grams \in Int \cup {Empty, Error}
  BY <1>2, <1>3, <1>4, <1>5, MoneyIs, GramsAre, FormsAssumption
<1>7. PICK payment : payment = [declared_fen |-> declared, cod_enabled |-> form.cod,
                                cod_fen |-> cod, services |-> form.services]
  OBVIOUS
<1>8. IF Error \in {declared, cod, grams} \/ ~Forms!validate_payment(payment)
      THEN refusals' = refusals \cup {"form"} /\ form' = form /\ sent' = sent
      ELSE /\ sent' = [kind |-> form.kind, payment |-> payment, grams |-> grams,
                       width |-> form.width, declared |-> form.declared]
           /\ form' = [form EXCEPT !.busy = TRUE]
           /\ refusals' = refusals
  BY <1>3, <1>4, <1>5, <1>7 DEF Forms!Submit
<1>9. CASE refusals' = refusals \cup {"form"} /\ form' = form /\ sent' = sent
  BY <1>1, <1>9
     DEF FormsInv, Forms!TypeOK, Forms!Refusers, Forms!TableNeverRefuses, Forms!CodFieldFollows,
         Forms!InsuredHasValue, Forms!ExactMoney, RowOK, FormOK, SentOK, AsOpened, RowPayment,
         Editor
<1>10. CASE /\ Error \notin {declared, cod, grams} /\ Forms!validate_payment(payment)
            /\ sent' = [kind |-> form.kind, payment |-> payment, grams |-> grams,
                        width |-> form.width, declared |-> form.declared]
            /\ form' = [form EXCEPT !.busy = TRUE]
            /\ refusals' = refusals
  <2>1. /\ form' \in Forms!Forms /\ form'.kind = form.kind /\ form'.busy
        /\ form'.cod = form.cod /\ form'.cod_amount = form.cod_amount
    BY <1>2, <1>10 DEF Forms!Forms
  <2>2. payment \in Forms!Payments
    BY <1>2, <1>6, <1>7, <1>10 DEF Forms!Payments
  <2>3. /\ sent' \in Forms!Sent /\ sent'.kind = form.kind /\ sent'.payment = payment
        /\ sent'.declared = form.declared
    BY <1>2, <1>6, <1>10, <2>2 DEF Forms!Sent
  <2>4. sent' # Empty
    BY <2>3, FormsAssumption DEF Forms!FormsAssumption
  <2>5. Forms!TypeOK'
    BY <1>1, <1>10, <2>1, <2>3, <2>4 DEF FormsInv, Forms!TypeOK
  <2>6. payment.declared_fen = Forms!bam_to_fen(form.declared, TRUE)
    BY <1>3, <1>7
  <2>7. SentOK'
    <3>1. Forms!bam_to_fen(sent'.declared, TRUE)
          = Forms!bam_to_fen(sent.declared, TRUE)'
      OBVIOUS
    <3>2. Forms!validate_payment(sent'.payment) = Forms!validate_payment(sent.payment)'
      OBVIOUS
    <3> QED
      BY <1>1, <1>10, <2>1, <2>3, <2>6, <3>1, <3>2 DEF SentOK, FormsInv, FormOK
  <2>8. AsOpened'
    <3> SUFFICES ASSUME untouched PROVE AsOpened'
      BY <1>1 DEF AsOpened
    <3>1. row # Empty /\ form = Editor(FALSE) /\ form.kind = "edit"
      BY <1>1 DEF FormsInv, AsOpened, Editor
    <3>2. form' = Editor(TRUE)'
      BY <1>1, <1>10, <3>1 DEF Editor
    <3>3. /\ row.declared_fen \in Forms!Money \cup {Empty}
          /\ row.cod_fen \in Forms!Money \cup {Empty} /\ row.cod_fen # 0
          /\ row.cod_enabled = form.cod /\ row.services = form.services
          /\ form.declared = Forms!fen_to_text(row.declared_fen)
          /\ form.cod_amount = Forms!fen_to_text(row.cod_fen)
      BY <3>1 DEF FormsInv, RowOK, Forms!TypeOK, Forms!Rows, Editor
    <3>4. declared = row.declared_fen
      BY <1>3, <3>3, ShownAgain, ShownIs, FormsAssumption DEF Forms!bam_to_fen
    <3>5. cod = row.cod_fen
      BY <1>4, <3>3, ShownAgain, ShownIs, FormsAssumption DEF Forms!bam_to_fen
    <3>6. payment = RowPayment'
      BY <1>1, <1>7, <3>3, <3>4, <3>5 DEF RowPayment
    <3>7. form' = Editor(form.busy)'
      BY <2>1, <3>2 DEF Editor
    <3> QED
      BY <1>1, <2>3, <3>1, <3>6, <3>7 DEF AsOpened
  <2> QED
    BY <1>1, <1>10, <2>1, <2>5, <2>7, <2>8
       DEF FormsInv, Forms!TableNeverRefuses, Forms!CodFieldFollows,
           Forms!InsuredHasValue, Forms!ExactMoney, RowOK, FormOK
<1> QED
  BY <1>8, <1>9, <1>10

(* What the service accepts is a row, and one that the CHECKs accept.      *)
LEMMA StoredIs ==
  ASSUME FormsInv, sent # Empty, Forms!Accepted
  PROVE  /\ Forms!Stored \in Forms!Rows /\ Forms!Checked(Forms!Stored)
         /\ Forms!Stored.declared_fen = sent.payment.declared_fen
         /\ Forms!Stored.cod_enabled <=> Forms!Stored.cod_fen # Empty
         /\ Forms!Stored.cod_fen # 0
         /\ "INSURANCE" \in Forms!Stored.services =>
              Forms!Stored.declared_fen \notin {Empty, 0}
<1>1. PICK p : p = sent.payment
  OBVIOUS
<1>2. /\ sent \in Forms!Sent /\ p \in Forms!Payments /\ sent.kind \in {"new", "edit"}
      /\ sent.grams \in Int \cup {Empty} /\ sent.width \in Forms!Fields
  BY <1>1 DEF FormsInv, Forms!TypeOK, Forms!Sent
<1>3. /\ p.declared_fen \in Forms!Money \cup {Empty} /\ p.cod_enabled \in BOOLEAN
      /\ p.cod_fen \in Forms!Money \cup {Empty} /\ p.services \in SUBSET Forms!Services
  BY <1>2 DEF Forms!Payments
<1>4. /\ p.cod_fen = Empty \/ p.cod_fen \in 1..MAX_MONEY_FEN
      /\ p.declared_fen = Empty \/ p.declared_fen \in 0..MAX_MONEY_FEN
      /\ p.cod_enabled <=> p.cod_fen # Empty
      /\ "INSURANCE" \in p.services => p.declared_fen \notin {Empty, 0}
  BY <1>1 DEF Forms!Accepted, Forms!validate_payment, Forms!validate_money_fen
<1>5. PICK weight : weight = IF sent.kind = "new" THEN sent.grams ELSE row.weight_g
  OBVIOUS
<1>6. PICK width : width = IF sent.kind = "new" THEN Forms!dimension_cm_to_mm(sent.width)
                                                ELSE row.width_mm
  OBVIOUS
<1>7. /\ weight \in 1..MAX_STORED_MEASUREMENT \cup {Empty}
      /\ width \in 1..MAX_STORED_MEASUREMENT \cup {Empty}
  <2>1. CASE sent.kind = "new"
    <3>1. Forms!validate_weight_g(sent.grams) /\ Forms!validate_dimension_cm(sent.width)
      BY <2>1 DEF Forms!Accepted
    <3>2. weight = sent.grams /\ width = Forms!dimension_cm_to_mm(sent.width)
      BY <1>5, <1>6, <2>1
    <3> QED
      BY <1>2, <3>1, <3>2, WidthIs, FormsAssumption DEF Forms!validate_weight_g
  <2>2. CASE sent.kind = "edit"
    <3>1. row \in Forms!Rows
      BY <2>2 DEF FormsInv, SentOK, Forms!TypeOK
    <3>2. weight = row.weight_g /\ width = row.width_mm
      BY <1>5, <1>6, <2>2
    <3> QED
      BY <3>1, <3>2 DEF Forms!Rows
  <2> QED
    BY <1>2, <2>1, <2>2
<1>8. Forms!Stored = [declared_fen |-> p.declared_fen, cod_enabled |-> p.cod_enabled,
                      cod_fen |-> p.cod_fen, services |-> p.services,
                      weight_g |-> weight, width_mm |-> width]
  BY <1>1, <1>5, <1>6 DEF Forms!Stored
<1>9. Forms!Stored \in Forms!Rows
  BY <1>3, <1>7, <1>8 DEF Forms!Rows
<1>10. Forms!Checked(Forms!Stored)
  BY <1>4, <1>7, <1>8 DEF Forms!Checked
<1> QED
  BY <1>1, <1>4, <1>8, <1>9, <1>10, FormsAssumption DEF Forms!FormsAssumption

(* What is stored for an editor that nobody has changed is the row.        *)
LEMMA StoredUntouched ==
  ASSUME FormsInv, sent # Empty, untouched
  PROVE  Forms!Stored = row
<1>1. /\ sent.kind = "edit" /\ row # Empty /\ row \in Forms!Rows /\ sent.payment = RowPayment
  BY DEF FormsInv, AsOpened, SentOK, Forms!TypeOK
<1>2. Forms!Stored = [declared_fen |-> row.declared_fen, cod_enabled |-> row.cod_enabled,
                      cod_fen |-> row.cod_fen, services |-> row.services,
                      weight_g |-> row.weight_g, width_mm |-> row.width_mm]
  BY <1>1 DEF Forms!Stored, RowPayment
<1> QED
  BY <1>1, <1>2 DEF Forms!Rows

(* The amount that is stored is the text's, within the decimal context.    *)
LEMMA SentExactly ==
  ASSUME FormsInv, sent # Empty, sent.declared # Empty, sent.declared.c < Forms!Pow10[Precision]
  PROVE  /\ sent.payment.declared_fen # Empty
         /\ Forms!Exactly(sent.declared, sent.payment.declared_fen, 2)
<1>1. /\ sent \in Forms!Sent /\ sent.declared \in Forms!Entered
      /\ sent.payment.declared_fen \in Forms!Money \cup {Empty}
  BY DEF FormsInv, Forms!TypeOK, Forms!Sent, Forms!Payments
<1>2. PICK fen : fen = Forms!bam_to_fen(sent.declared, TRUE)
  OBVIOUS
<1>3. fen = sent.payment.declared_fen
  BY <1>2 DEF FormsInv, SentOK
<1>4. /\ fen = Empty <=> sent.declared = Empty
      /\ fen \notin {Empty, Error} /\ sent.declared.c < Ten(Precision) =>
           Forms!Exactly(sent.declared, fen, 2)
  BY <1>1, <1>2, MoneyIs, FormsAssumption
<1>5. fen # Error
  BY <1>1, <1>3, FormsAssumption DEF Forms!FormsAssumption, Forms!Money
<1> QED
  BY <1>3, <1>4, <1>5 DEF Ten

LEMMA AnswerFormStep == ASSUME FormsInv, Forms!Answer PROVE FormsInv'
<1>1. sent # Empty /\ sent' = Empty /\ untouched' = untouched
  BY DEF Forms!Answer
<1>2. CASE Forms!Accepted
  <2>1. PICK stored : stored = Forms!Stored
    OBVIOUS
  <2>2. /\ stored \in Forms!Rows /\ Forms!Checked(Forms!Stored)
        /\ stored.declared_fen = sent.payment.declared_fen
        /\ stored.cod_enabled <=> stored.cod_fen # Empty
        /\ stored.cod_fen # 0
        /\ "INSURANCE" \in stored.services => stored.declared_fen \notin {Empty, 0}
    BY <1>1, <1>2, <2>1, StoredIs
  <2>3. /\ row' = stored /\ source' = sent.declared /\ form' = Forms!NoForm
        /\ refusals' = refusals
    BY <1>2, <2>1, <2>2 DEF Forms!Answer
  <2>4. Forms!TypeOK'
    BY <1>1, <2>2, <2>3, NoFormIs DEF FormsInv, Forms!TypeOK
  <2>5. Forms!ExactMoney'
    <3>1. source' # Empty /\ source'.c < Forms!Pow10[Precision] =>
            stored.declared_fen # Empty /\ Forms!Exactly(source', stored.declared_fen, 2)
      BY <1>1, <2>2, <2>3, SentExactly
    <3> QED
      BY <2>3, <3>1 DEF Forms!ExactMoney
  <2> QED
    BY <1>1, <2>2, <2>3, <2>4, <2>5, NoFormIs
       DEF FormsInv, Forms!TableNeverRefuses, Forms!CodFieldFollows, Forms!InsuredHasValue,
           RowOK, FormOK, SentOK, AsOpened
<1>3. CASE ~Forms!Accepted
  <2>1. /\ refusals' = refusals \cup {"service"} /\ form' = Forms!show_error
        /\ row' = row /\ source' = source
    BY <1>3 DEF Forms!Answer
  <2>2. form \in Forms!Forms
    BY DEF FormsInv, Forms!TypeOK
  <2>3. form' = [kind |-> form.kind, declared |-> form.declared, cod |-> form.cod,
                 cod_amount |-> form.cod_amount, services |-> form.services,
                 weight |-> form.weight, width |-> form.width, busy |-> FALSE]
    BY <2>1, <2>2 DEF Forms!show_error, Forms!Forms
  <2>4. form' \in Forms!Forms /\ ~form'.busy /\ form'.busy = FALSE
    BY <2>2, <2>3 DEF Forms!Forms
  <2>5. Forms!TypeOK'
    BY <1>1, <2>1, <2>4 DEF FormsInv, Forms!TypeOK, Forms!Refusers
  <2>6. FormOK'
    <3>1. form.kind = "none" => form' = Forms!NoForm
      <4> SUFFICES ASSUME form.kind = "none" PROVE form' = Forms!NoForm
        OBVIOUS
      <4>1. form = [kind |-> "none", declared |-> Empty, cod |-> FALSE, cod_amount |-> Empty,
                    services |-> {}, weight |-> Empty, width |-> Empty, busy |-> FALSE]
        BY NoFormIs DEF FormsInv, FormOK
      <4> QED
        BY <2>3, <4>1, NoFormIs
    <3> QED
      BY <2>1, <2>3, <3>1 DEF FormsInv, FormOK
  <2>7. AsOpened'
    <3>1. untouched /\ form.kind # "none" => row # Empty /\ form' = Editor(FALSE)'
      <4> SUFFICES ASSUME untouched, form.kind # "none"
                   PROVE  row # Empty /\ form' = Editor(FALSE)'
        OBVIOUS
      <4>1. PICK busy : row # Empty /\ form = Editor(busy)
        BY DEF FormsInv, AsOpened
      <4>2. /\ form.kind = "edit" /\ form.declared = Forms!fen_to_text(row.declared_fen)
            /\ form.cod = row.cod_enabled /\ form.cod_amount = Forms!fen_to_text(row.cod_fen)
            /\ form.services = row.services /\ form.weight = Empty /\ form.width = Empty
        BY <4>1 DEF Editor
      <4> QED
        BY <2>1, <2>3, <4>1, <4>2 DEF Editor
    <3>2. Editor(form.busy)' = Editor(FALSE)'
      BY <2>4 DEF Editor
    <3>3. form'.kind = form.kind
      BY <2>3
    <3> QED
      BY <1>1, <2>1, <3>1, <3>2, <3>3 DEF AsOpened
  <2> QED
    BY <1>1, <2>1, <2>3, <2>4, <2>5, <2>6, <2>7
       DEF FormsInv, Forms!TableNeverRefuses, Forms!CodFieldFollows, Forms!InsuredHasValue,
           Forms!ExactMoney, RowOK, SentOK
<1> QED
  BY <1>2, <1>3

(* A row that nobody has changed in the editor stays as it is.             *)
LEMMA UntouchedStep ==
  ASSUME FormsInv, Forms!Next, untouched
  PROVE  row' = row
<1>1. CASE Forms!Answer
  <2>1. sent # Empty
    BY <1>1 DEF Forms!Answer
  <2> QED
    BY <1>1, <2>1, StoredUntouched DEF Forms!Answer
<1> QED
  BY <1>1 DEF Forms!Next, Forms!OpenNew, Forms!OpenEdit, Forms!_cod_toggled, Forms!Cancel,
     Forms!Submit, Forms!TypeAmount, Forms!TypeMeasure, Forms!Tick, Forms!Touched

LEMMA FormsNext == ASSUME FormsInv, Forms!Next PROVE FormsInv'
BY OpenNewStep, OpenEditStep, CodStep, CancelFormStep, SubmitFormStep, AnswerFormStep, TypeStep,
   TickStep DEF Forms!Next

LEMMA FormsStutter == ASSUME FormsInv, UNCHANGED forms PROVE FormsInv'
<1>1. /\ row' = row /\ form' = form /\ sent' = sent /\ untouched' = untouched
      /\ refusals' = refusals /\ source' = source
  BY DEF forms
<1> QED
  BY <1>1 DEF FormsInv, Forms!TypeOK, Forms!TableNeverRefuses, Forms!CodFieldFollows,
     Forms!InsuredHasValue, Forms!ExactMoney, RowOK, FormOK, SentOK, AsOpened, Editor, RowPayment

(* --------------------------- the composition --------------------------- *)

(* A behaviour of the composition is one of either part.                   *)
LEMMA StatusPart == DialogsSpec => Spec
<1>1. DialogsInit => Init
  BY DEF DialogsInit
<1>2. [DialogsNext]_<<vars, forms, part>> => [Next]_vars
  BY DEF DialogsNext
<1> QED
  BY <1>1, <1>2, PTL DEF DialogsSpec, Spec

(* Valid forms, exact amounts and editors that follow the row: FormsInv is *)
(* inductive.                                                              *)
THEOREM FormsHold == DialogsSpec => []FormsInv
<1>1. DialogsInit => FormsInv
  BY FormsInit DEF DialogsInit
<1>2. FormsInv /\ [DialogsNext]_<<vars, forms, part>> => FormsInv'
  BY FormsNext, FormsStutter DEF DialogsNext
<1> QED
  BY <1>1, <1>2, PTL DEF DialogsSpec

(* What the service accepts, the CHECKs of the table accept, whatever was  *)
(* typed and rounded; no amount is kept for a COD that is switched off; an *)
(* insured shipment has a declared value; and an amount within the decimal *)
(* context is stored exactly.                                              *)
THEOREM DialogsAreConsistent == DialogsSpec => []DialogsConsistent
<1>1. Inv /\ FormsInv => DialogsConsistent
  BY DEF Inv, FormsInv, DialogsConsistent
<1> QED
  BY <1>1, StatusPart, InvHolds, FormsHold, PTL

(* An editor that is saved without a change leaves the row as it was: fen, *)
(* text and fen again are one amount, for every amount that can be stored. *)
THEOREM UntouchedRowsStay == DialogsSpec => UntouchedIsUnchanged
<1>1. FormsInv /\ [DialogsNext]_<<vars, forms, part>> =>
        [untouched /\ row' # row => FALSE]_(Forms!vars)
  BY UntouchedStep DEF DialogsNext, forms, Forms!vars
<1> QED
  BY <1>1, FormsHold, PTL DEF DialogsSpec, UntouchedIsUnchanged, Forms!UntouchedIsUnchanged

(* In the composition too a dialog offers only what is allowed, and a call *)
(* is applied to the shipment that the user saw.                           *)
THEOREM StatusRulesHold == DialogsSpec => []OfferedIsAllowed /\ AppliedAsShown
BY StatusPart, DialogsOfferWhatIsAllowed, AppliedToWhatWasSeen, PTL
==============================================================================
