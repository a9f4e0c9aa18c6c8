---------------------------- MODULE StatusDialogs ---------------------------
(***************************************************************************)
(* What the shipment dialogs offer, and what the service makes of it.  The *)
(* page shows a shipment as it was when the list was loaded; buttons and   *)
(* dialogs decide from that picture what can be done, the service decides  *)
(* again under the write lock, and another process may have changed the    *)
(* shipment in between.                                                    *)
(***************************************************************************)
EXTENDS ShipmentWorkflow, Naturals

CONSTANTS
  CanOverride,   \* has_permission(session, OVERRIDE_STATUS_TRANSITION)
  MaxVersion     \* bound on the changes of the shipment

ASSUME CanOverrideAssumption == CanOverride \in BOOLEAN
ASSUME MaxVersionAssumption == MaxVersion \in Nat \ {0}

VARIABLES
  shipment,      \* the committed row with its unresolved problem
  list,          \* the row as the page shows it
  dialog,        \* the open dialog
  call,          \* the call under way
  answer         \* history: how the last call ended

vars == <<shipment, list, dialog, call, answer>>

None == "none"

Shipments == [status : Statuses, archived : BOOLEAN, version : 1..MaxVersion,
              previous : Statuses \cup {None}]

Kinds == {"change", "report", "resolve", "archive", "restore"}

NoDialog == [kind |-> None]
NoCall == [kind |-> None]

Dialogs == [kind : Kinds, shown : Shipments, override : BOOLEAN,
            problem : Statuses \cup {None}, busy : BOOLEAN]

Calls == [kind : Kinds, shown : Shipments, target : Statuses,
          override : BOOLEAN, reason : BOOLEAN]

TypeOK ==
  /\ {shipment, list} \subseteq Shipments
  /\ \A s \in {shipment, list} : s.status = "PROBLEM" <=> s.previous # None
  /\ dialog \in Dialogs \cup {NoDialog}
  /\ call \in Calls \cup {NoCall}
  /\ answer \in {None, "applied", "unchanged", "archived", "conflict", "not allowed"}

Init ==
  /\ shipment = [status |-> "RECEIVED", archived |-> FALSE, version |-> 1, previous |-> None]
  /\ list = shipment /\ dialog = NoDialog /\ call = NoCall /\ answer = None

(* ----------------------------- the service ----------------------------- *)

(* Variant: a resolved problem stays open.                                 *)
Moved_open(s, target) ==
  [s EXCEPT !.status = target, !.version = @ + 1,
            !.previous = IF target = "PROBLEM" THEN s.status ELSE @]

Moved(s, target) ==
  [s EXCEPT !.status = target, !.version = @ + 1,
            !.previous = IF target = "PROBLEM" THEN s.status ELSE None]

Result(c) ==
  IF c.kind \in {"archive", "restore"}
  THEN [shipment EXCEPT !.archived = ~@, !.version = @ + 1]
  ELSE Moved(shipment, c.target)

(* Variant: the version is not compared.                                   *)
IsStale_never(c) == FALSE

IsStale(c) == shipment.version # c.shown.version

(* The checks of change_status, report_problem, resolve_problem and        *)
(* _set_archived, in their order.                                          *)
Verdict(c) ==
  LET s == shipment
      valid == can_transition(s.status, c.target)
  IN  CASE c.kind = "change" ->
             IF s.archived THEN "archived"
             ELSE IF s.status = c.target THEN "unchanged"
             ELSE IF c.target = "PROBLEM" THEN "not allowed"
             ELSE IF IsStale(c) THEN "conflict"
             ELSE IF /\ s.status # "PROBLEM"
                     /\ valid \/ (c.override /\ c.reason /\ CanOverride)
                  THEN "applied" ELSE "not allowed"
        [] c.kind = "report" ->
             IF s.archived THEN "archived" ELSE IF IsStale(c) THEN "conflict"
             ELSE IF s.previous = None /\ valid THEN "applied" ELSE "not allowed"
        [] c.kind = "resolve" ->
             IF s.archived THEN "archived" ELSE IF IsStale(c) THEN "conflict"
             ELSE IF s.status = "PROBLEM" /\ can_recover(s.previous, c.target)
                  THEN "applied" ELSE "not allowed"
        [] OTHER ->
             IF IsStale(c) THEN "conflict"
             ELSE IF (s.archived <=> c.kind = "restore") THEN "applied" ELSE "not allowed"

(* Another process moves, archives or restores the shipment.               *)
ChangedElsewhere ==
  /\ shipment.version < MaxVersion
  /\ \/ ~shipment.archived /\ \E target \in Statuses :
          /\ IF shipment.status = "PROBLEM" THEN can_recover(shipment.previous, target)
                                            ELSE can_transition(shipment.status, target)
          /\ shipment' = Moved(shipment, target)
     \/ shipment' = [shipment EXCEPT !.archived = ~@, !.version = @ + 1]
  /\ UNCHANGED <<list, dialog, call, answer>>

(* ------------------------------- the page ------------------------------ *)

Refresh ==
  /\ call = NoCall /\ list # shipment
  /\ list' = shipment
  /\ UNCHANGED <<shipment, dialog, call, answer>>

(* _update_action_state: the buttons that are enabled.                     *)
Enabled(kind) ==
  CASE kind = "change" ->
         /\ ~list.archived /\ list.status # "PROBLEM"
         /\ CanOverride \/ \E t \in Statuses \ {"PROBLEM"} : can_transition(list.status, t)
    [] kind = "report" -> ~list.archived /\ can_transition(list.status, "PROBLEM")
    [] kind = "resolve" -> ~list.archived /\ list.status = "PROBLEM"
    [] kind = "archive" -> ~list.archived
    [] OTHER -> list.archived

Dialog(kind, problem) ==
  [kind |-> kind, shown |-> list, override |-> FALSE, problem |-> problem, busy |-> FALSE]

(* get_open_problem is asked when the dialog to resolve it opens, and may  *)
(* find none, or a later one; the version is still that of the list.       *)
Open(kind) ==
  /\ dialog = NoDialog /\ call = NoCall
  /\ Enabled(kind) /\ kind # "restore"
  /\ IF kind # "resolve" THEN dialog' = Dialog(kind, None)
     ELSE shipment.previous # None /\ dialog' = Dialog(kind, shipment.previous)
  /\ UNCHANGED <<shipment, list, call, answer>>

Cancel ==
  /\ dialog # NoDialog /\ dialog' = NoDialog
  /\ UNCHANGED <<shipment, list, call, answer>>

(* The override box of ChangeStatusDialog is hidden from others.           *)
ToggleOverride ==
  /\ dialog.kind = "change" /\ CanOverride /\ ~dialog.busy
  /\ dialog' = [dialog EXCEPT !.override = ~@]
  /\ UNCHANGED <<shipment, list, call, answer>>

(* The targets a dialog lists: _populate_targets, recovery_input.          *)
Offered ==
  CASE dialog.kind = "change" ->
         {t \in Statuses \ {dialog.shown.status, "PROBLEM"} :
            dialog.override \/ can_transition(dialog.shown.status, t)}
    [] dialog.kind = "resolve" -> {t \in Statuses : can_recover(dialog.problem, t)}
    [] OTHER -> {"PROBLEM"}

Call(kind, shown, target, override, reason) ==
  [kind |-> kind, shown |-> shown, target |-> target, override |-> override, reason |-> reason]

(* Variant: an override may be submitted without a reason.                 *)
Submit_unreasoned(target, reason) ==
  /\ dialog # NoDialog /\ ~dialog.busy /\ call = NoCall
  /\ target \in Offered
  /\ call' = Call(dialog.kind, dialog.shown, target, dialog.override, reason)
  /\ dialog' = IF dialog.kind = "archive" THEN NoDialog ELSE [dialog EXCEPT !.busy = TRUE]
  /\ UNCHANGED <<shipment, list, answer>>

(* The confirmation of an archive closes at once, the others wait.         *)
Submit(target, reason) ==
  /\ dialog # NoDialog /\ ~dialog.busy /\ call = NoCall
  /\ target \in Offered
  /\ dialog.override => reason
  /\ call' = Call(dialog.kind, dialog.shown, target, dialog.override, reason)
  /\ dialog' = IF dialog.kind = "archive" THEN NoDialog ELSE [dialog EXCEPT !.busy = TRUE]
  /\ UNCHANGED <<shipment, list, answer>>

Restore ==
  /\ dialog = NoDialog /\ call = NoCall /\ Enabled("restore")
  /\ call' = Call("restore", list, list.status, FALSE, FALSE)
  /\ UNCHANGED <<shipment, list, dialog, answer>>

(* The answer: accept and a new list, or show_error.  (How the list is     *)
(* loaded again is the subject of ShipmentsPage.)                          *)
Answer ==
  /\ call # NoCall /\ shipment.version < MaxVersion
  /\ answer' = Verdict(call)
  /\ shipment' = IF answer' = "applied" THEN Result(call) ELSE shipment
  /\ IF answer' \in {"applied", "unchanged"}
     THEN list' = shipment' /\ dialog' = NoDialog
     ELSE /\ dialog' = IF dialog = NoDialog THEN NoDialog ELSE [dialog EXCEPT !.busy = FALSE]
          /\ UNCHANGED list
  /\ call' = NoCall

Next ==
  \/ ChangedElsewhere \/ Refresh \/ Cancel \/ ToggleOverride \/ Restore \/ Answer
  \/ \E kind \in Kinds : Open(kind)
  \/ \E target \in Statuses, reason \in BOOLEAN : Submit(target, reason)

Spec == Init /\ [][Next]_vars
-----------------------------------------------------------------------------
(* Dialogs and service follow the same rules: what a dialog offers is      *)
(* refused only because the shipment was changed or archived meanwhile.    *)
OfferedIsAllowed == answer # "not allowed"

(* What a user decided on a picture of the shipment is done to the         *)
(* shipment in that picture, or not at all.                                *)
AppliedAsShown ==
  [][call # NoCall /\ shipment' # shipment /\ call' = NoCall => shipment = call.shown]_vars
=============================================================================
