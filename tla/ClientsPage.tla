----------------------------- MODULE ClientsPage ----------------------------
(***************************************************************************)
(* The page of the contract clients and its dialogs: a list read by a      *)
(* worker, an editor that shows one row of that list, and one busy flag    *)
(* for every call of the page.                                             *)
(*                                                                         *)
(* The clients are abstracted to the number of changes committed so far;   *)
(* the list and an open editor carry the number they were read at.  What   *)
(* the service does with a call is in Clients.                             *)
(***************************************************************************)
EXTENDS DatabaseWorker

CONSTANT MaxActions     \* bound: clicks that may start a call

VARIABLES
  changes,       \* committed changes of the clients
  listed,        \* what _records shows; -1 before the first list
  busy,          \* _busy
  dialog,        \* the modal dialog on the screen
  opened,        \* dialogs opened so far
  clicks,
  alive,         \* FALSE once the page has asked to end the session
  missed         \* history: the list asked for last was dropped or failed

page == <<changes, listed, busy, dialog, opened, clicks, alive, missed>>
vars == <<page, worker>>

Call == [name : {"list", "change"}, dialog : 0..MaxActions]
call(name, d) == [name |-> name, dialog |-> d]

Kinds == {"none", "editor", "confirm"}
NoDialog == [kind |-> "none", id |-> 0, saving |-> FALSE]

TypeOK ==
  /\ changes \in Nat /\ listed \in -1..changes
  /\ busy \in BOOLEAN /\ alive \in BOOLEAN /\ missed \in BOOLEAN
  /\ dialog \in [kind : Kinds, id : 0..opened, saving : BOOLEAN]
  /\ opened \in 0..clicks /\ clicks \in 0..MaxActions
  /\ \A t \in tasks : t.id \in 1..submitted /\ t.call \in Call

(* The constructor asks for the first list with a zero timer.              *)
Init ==
  /\ submitted = 0 /\ tasks = {} /\ events = singleShot(<<>>, call("list", 0))
  /\ changes = 0 /\ listed = -1 /\ busy = FALSE /\ dialog = NoDialog
  /\ opened = 0 /\ clicks = 0 /\ alive = TRUE /\ missed = FALSE

(* Variant: a refresh does not look at the flag.                           *)
refresh_anyway ==
  busy' = TRUE /\ submit(call("list", 0)) /\ UNCHANGED missed

(* refresh: one call at a time; a refresh that comes too early is dropped. *)
refresh ==
  \/ /\ busy
     /\ missed' = TRUE
     /\ NoSubmit /\ UNCHANGED busy
  \/ /\ ~busy /\ busy' = TRUE
     /\ submit(call("list", 0))
     /\ UNCHANGED missed

(* Variant: a change does not wait for the refresh that is under way.      *)
mutate_anyway(d) ==
  busy' = TRUE /\ submit(call("change", d))

(* _mutate, for the dialog d, or for none (0).                             *)
mutate(d) ==
  \/ /\ busy
     /\ NoSubmit /\ UNCHANGED busy
  \/ /\ ~busy /\ busy' = TRUE
     /\ submit(call("change", d))

(* ---------------------------- the user acts ---------------------------- *)

Click == alive /\ clicks < MaxActions /\ clicks' = clicks + 1

(* A modal dialog keeps the input from the page; the busy flag disables    *)
(* its buttons and its search field.                                       *)
AtPage == dialog = NoDialog /\ ~busy

Search ==
  /\ Click /\ AtPage
  /\ refresh
  /\ UNCHANGED <<events, changes, listed, dialog, opened, alive>>

(* open_create and open_edit; deactivate asks for a confirmation first.    *)
Open(kind) ==
  /\ Click /\ AtPage
  /\ opened' = opened + 1
  /\ dialog' = [kind |-> kind, id |-> opened + 1, saving |-> FALSE]
  /\ UNCHANGED <<worker, changes, listed, busy, alive, missed>>

Activate ==
  /\ Click /\ AtPage /\ listed >= 0
  /\ mutate(0)
  /\ UNCHANGED <<events, changes, listed, dialog, opened, alive, missed>>

(* The confirmation closes, then its accepted signal starts the call.      *)
Confirm ==
  /\ alive /\ dialog.kind = "confirm"
  /\ dialog' = NoDialog
  /\ mutate(0)
  /\ UNCHANGED <<events, changes, listed, opened, clicks, alive, missed>>

(* ClientDialog._submit with its fields filled in, and _save.              *)
Save ==
  /\ Click /\ dialog.kind = "editor" /\ ~dialog.saving
  /\ dialog' = [dialog EXCEPT !.saving = TRUE]
  /\ mutate(dialog.id)
  /\ UNCHANGED <<events, changes, listed, opened, alive, missed>>

(* Cancel stays enabled while the dialog waits for its call.               *)
Cancel ==
  /\ alive /\ dialog # NoDialog
  /\ dialog' = NoDialog
  /\ UNCHANGED <<worker, changes, listed, busy, opened, clicks, alive, missed>>

(* ------------------------------ the worker ----------------------------- *)

List(t) ==
  /\ t.call.name = "list"
  /\ Ran(t, "result", changes) \/ Ran(t, "error", NoValue) \/ Ran(t, "denied", NoValue)
  /\ UNCHANGED page

Change(t) ==
  /\ t.call.name = "change"
  /\ \/ Ran(t, "result", NoValue) /\ changes' = changes + 1
     \/ Ran(t, "error", NoValue) /\ UNCHANGED changes
     \/ Ran(t, "denied", NoValue) /\ UNCHANGED changes
  /\ UNCHANGED <<listed, busy, dialog, opened, clicks, alive, missed>>

End(t) == (Told(t) \/ Ended(t)) /\ UNCHANGED page

(* ---------------- events and timers reach their handler ---------------- *)

Arrived(kind) == alive /\ Delivered(kind)

(* The dialog of the call at hand, if it is still on the screen.           *)
Its == dialog.kind = "editor" /\ dialog.id = Head(events).call.dialog

Timer ==
  /\ Arrived("timer")
  /\ events' = Tail(events)
  /\ refresh
  /\ UNCHANGED <<changes, listed, dialog, opened, clicks, alive>>

Populate ==
  /\ Arrived("result") /\ Of("list")
  /\ events' = Tail(events) /\ NoSubmit
  /\ listed' = Head(events).value
  /\ missed' = FALSE
  /\ UNCHANGED <<changes, busy, dialog, opened, clicks, alive>>

(* Variant: the list is not read again after a change.                     *)
SavedAndShown ==
  /\ Arrived("result") /\ Of("change")
  /\ dialog' = IF Its THEN NoDialog ELSE dialog
  /\ events' = Tail(events) /\ NoSubmit
  /\ UNCHANGED <<changes, listed, busy, opened, clicks, alive, missed>>

(* _mutation_complete.                                                     *)
Saved ==
  /\ Arrived("result") /\ Of("change")
  /\ dialog' = IF Its THEN NoDialog ELSE dialog
  /\ events' = singleShot(Tail(events), call("list", 0)) /\ NoSubmit
  /\ UNCHANGED <<changes, listed, busy, opened, clicks, alive, missed>>

(* Variant: the list shows the change although it failed.                  *)
FailedAndShown ==
  /\ Arrived("error")
  /\ events' = Tail(events) /\ NoSubmit
  /\ dialog' = IF Its THEN [dialog EXCEPT !.saving = FALSE] ELSE dialog
  /\ missed' = (missed \/ Of("list"))
  /\ listed' = IF Of("change") THEN listed + 1 ELSE listed
  /\ UNCHANGED <<changes, busy, opened, clicks, alive>>

(* _mutation_error with a message, for a list without a dialog.            *)
Failed ==
  /\ Arrived("error")
  /\ events' = Tail(events) /\ NoSubmit
  /\ dialog' = IF Its THEN [dialog EXCEPT !.saving = FALSE] ELSE dialog
  /\ missed' = (missed \/ Of("list"))
  /\ UNCHANGED <<changes, listed, busy, opened, clicks, alive>>

(* _mutation_error when the session is no longer valid.                    *)
Denied ==
  /\ Arrived("denied")
  /\ events' = Tail(events) /\ NoSubmit
  /\ dialog' = IF Its THEN NoDialog ELSE dialog
  /\ alive' = FALSE
  /\ UNCHANGED <<changes, listed, busy, opened, clicks, missed>>

(* Variant: only a result frees the page.                                  *)
FinishedUnnoticed ==
  /\ Arrived("finished")
  /\ events' = Tail(events) /\ NoSubmit
  /\ busy' = (busy /\ listed < 0)
  /\ UNCHANGED <<changes, listed, dialog, opened, clicks, alive, missed>>

Finished ==
  /\ Arrived("finished")
  /\ events' = Tail(events) /\ NoSubmit
  /\ busy' = FALSE
  /\ UNCHANGED <<changes, listed, dialog, opened, clicks, alive, missed>>

Act ==
  \/ Search \/ Activate \/ Confirm \/ Save \/ Cancel
  \/ \E kind \in Kinds \ {"none"} : Open(kind)

Work == \E t \in tasks : List(t) \/ Change(t) \/ End(t)

Deliver == Timer \/ Populate \/ Saved \/ Failed \/ Denied \/ Finished

Next == Act \/ Work \/ Deliver

(* Calls end and the GUI thread goes on; the user may stop at any time.    *)
Spec == Init /\ [][Next]_vars /\ WF_vars(Work) /\ WF_vars(Deliver)

(* ------------------------------ properties ----------------------------- *)

(* The page never has two calls under way, and the flag that says so is    *)
(* never left set without one: _busy matches the worker.                   *)
OneCall ==
  alive => UnderWay({"list", "change"}) = IF busy THEN 1 ELSE 0

(* The list never goes back to an older state of the clients, whatever the *)
(* order in which calls and timers come.                                   *)
NeverOlder == [][listed' >= listed]_vars

(* Once the page is idle the list shows every change, unless the last      *)
(* refresh was dropped (_busy) or its call failed.                         *)
ListCatchesUp == alive /\ Quiet /\ ~missed => listed = changes

(* The page always becomes usable again.                                   *)
Blocked == alive /\ busy
FreeAgain == Blocked ~> ~Blocked
=============================================================================
