------------------------------ MODULE UsersPage -----------------------------
(***************************************************************************)
(* The page of the administrators: a list of the users, dialogs that ask   *)
(* before a change, and dialogs that show a temporary password.  Calls of  *)
(* this page overlap: a refresh has no guard, a change of the selection    *)
(* enables the buttons while a call runs, and the creation of a user       *)
(* leaves the page usable.                                                 *)
(*                                                                         *)
(* The users are abstracted to the number of changes committed so far, and *)
(* a password to the call that made it.  What the service does with a call *)
(* is in Users.                                                            *)
(***************************************************************************)
EXTENDS DatabaseWorker

CONSTANT MaxActions     \* bound: clicks that may start a call

VARIABLES
  changes,       \* committed changes of the users
  listed,        \* what _records shows; -1 before the first list
  enabled,       \* are the refresh and create buttons enabled?
  actions,       \* are the buttons of the selected user enabled?
  dialog,        \* the open dialog below the passwords, and the call it
                 \* waits for, if any
  passwords,     \* calls whose password is on the screen
  clicks,
  alive,         \* FALSE once the page has asked to end the session
  made, seen,    \* history: passwords made by the service, and those shown
  overlapped,    \* history: the last list was asked for during another one
  missed         \* history: a list failed and none came after it

history == <<made, seen, overlapped, missed>>
screen == <<listed, enabled, actions, dialog, passwords, alive>>
vars == <<changes, screen, clicks, history, worker>>

Names == {"list", "create", "reset", "mutate"}
call(name) == [name |-> name]

Kinds == {"none", "create", "reset", "mutate"}
NoDialog == [kind |-> "none", call |-> 0]

TypeOK ==
  /\ changes \in Nat /\ listed \in -1..changes
  /\ {enabled, actions, alive, overlapped, missed} \subseteq BOOLEAN
  /\ dialog \in [kind : Kinds, call : 0..submitted]
  /\ dialog.call # 0 => dialog.kind = "create"
  /\ clicks \in 0..MaxActions
  /\ passwords \subseteq seen /\ seen \subseteq made /\ made \subseteq 1..submitted
  /\ \A t \in tasks : t.id \in 1..submitted /\ t.call.name \in Names

Init ==
  /\ submitted = 0 /\ tasks = {} /\ events = singleShot(<<>>, call("list"))
  /\ changes = 0 /\ listed = -1 /\ enabled = TRUE /\ actions = FALSE
  /\ dialog = NoDialog /\ passwords = {} /\ clicks = 0 /\ alive = TRUE
  /\ made = {} /\ seen = {} /\ overlapped = FALSE /\ missed = FALSE

(* _set_page_busy.  Freed, the page looks at the selected row; any row of  *)
(* the list may be the selected one.                                       *)
set_page_busy == enabled' = FALSE /\ actions' = FALSE
update_action_state == actions' = (listed' >= 0)

refresh ==
  /\ set_page_busy
  /\ submit(call("list"))
  /\ overlapped' = (UnderWay({"list"}) > 0)

(* _mutate and _reset_confirmed.                                           *)
mutate(name) ==
  /\ set_page_busy
  /\ submit(call(name))

(* ---------------------------- the user acts ---------------------------- *)

Free == alive /\ passwords = {}

Click == Free /\ clicks < MaxActions /\ clicks' = clicks + 1

AtPage == dialog = NoDialog

Refresh ==
  /\ Click /\ AtPage /\ enabled
  /\ refresh
  /\ UNCHANGED <<events, changes, listed, dialog, passwords, alive, made, seen, missed>>

(* Another row is selected, also during a call.                            *)
Select ==
  /\ Free /\ AtPage /\ listed >= 0
  /\ UNCHANGED listed /\ update_action_state
  /\ UNCHANGED <<worker, changes, enabled, dialog, passwords, clicks, alive, history>>

OpenCreate ==
  /\ Free /\ AtPage /\ enabled
  /\ dialog' = [kind |-> "create", call |-> 0]
  /\ UNCHANGED <<worker, changes, listed, enabled, actions, passwords, clicks, alive, history>>

(* CreateUserDialog._submit and _create_requested.                         *)
Create ==
  /\ Click /\ dialog = [kind |-> "create", call |-> 0]
  /\ dialog' = [dialog EXCEPT !.call = submitted + 1]
  /\ submit(call("create"))
  /\ UNCHANGED <<events, changes, listed, enabled, actions, passwords, alive, history>>

(* A role, a deactivation, an archiving or a reset is asked for first.     *)
Ask(kind) ==
  /\ Free /\ AtPage /\ actions
  /\ dialog' = [kind |-> kind, call |-> 0]
  /\ UNCHANGED <<worker, changes, listed, enabled, actions, passwords, clicks, alive, history>>

Confirm ==
  /\ Click /\ dialog.kind \in {"reset", "mutate"}
  /\ dialog' = NoDialog
  /\ mutate(dialog.kind)
  /\ UNCHANGED <<events, changes, listed, passwords, alive, history>>

(* activate and restore.                                                   *)
Activate ==
  /\ Click /\ AtPage /\ actions
  /\ mutate("mutate")
  /\ UNCHANGED <<events, changes, listed, dialog, passwords, alive, history>>

Cancel ==
  /\ Free /\ ~AtPage
  /\ dialog' = NoDialog
  /\ UNCHANGED <<worker, changes, listed, enabled, actions, passwords, clicks, alive, history>>

(* TemporaryCredentialDialog.done: the value is cleared.                   *)
Done(id) ==
  /\ alive /\ id \in passwords
  /\ passwords' = passwords \ {id}
  /\ UNCHANGED <<worker, changes, listed, enabled, actions, dialog, clicks, alive, history>>

(* ------------------------------ the worker ----------------------------- *)

List(t) ==
  /\ t.call.name = "list"
  /\ \E kind \in {"result", "error", "denied"} : Ran(t, kind, changes)
  /\ UNCHANGED <<changes, made>>

Change(t) ==
  /\ t.call.name # "list"
  /\ \/ /\ Ran(t, "result", NoValue) /\ changes' = changes + 1
        /\ made' = IF t.call.name = "mutate" THEN made ELSE made \cup {t.id}
     \/ (Ran(t, "error", NoValue) \/ Ran(t, "denied", NoValue)) /\ UNCHANGED <<changes, made>>

End(t) == (Told(t) \/ Ended(t)) /\ UNCHANGED <<changes, made>>

(* A page that is gone no longer matters to its calls.                     *)
Work ==
  /\ alive
  /\ \E t \in tasks : List(t) \/ Change(t) \/ End(t)
  /\ UNCHANGED <<screen, clicks, seen, overlapped, missed>>

(* ---------------- events and timers reach their handler ---------------- *)

Arrived(kind) == alive /\ Delivered(kind) /\ events' = Tail(events)

Timer ==
  /\ Arrived("timer")
  /\ refresh
  /\ UNCHANGED <<changes, listed, dialog, passwords, clicks, alive, made, seen, missed>>

(* _populate enables the buttons of the selected user at once.             *)
Populate ==
  /\ Arrived("result") /\ Of("list") /\ NoSubmit
  /\ listed' = Head(events).value
  /\ missed' = FALSE
  /\ update_action_state
  /\ UNCHANGED <<changes, enabled, dialog, passwords, clicks, alive, made, seen, overlapped>>

(* TemporaryCredentialDialog: the value is taken once and shown.           *)
show_password(id) ==
  /\ passwords' = passwords \cup {id}
  /\ seen' = seen \cup {id}

(* Variant: nothing is shown when the dialog was cancelled meanwhile.      *)
CreatedIfAwaited ==
  /\ Arrived("result") /\ Of("create")
  /\ IF dialog.kind = "create" THEN show_password(Head(events).id)
                               ELSE UNCHANGED <<passwords, seen>>
  /\ dialog' = IF dialog.kind = "create" THEN NoDialog ELSE dialog
  /\ refresh
  /\ UNCHANGED <<changes, listed, clicks, alive, made, missed>>

(* _user_created closes _create_dialog, the latest one, whichever dialog   *)
(* asked.                                                                  *)
UserCreated ==
  /\ Arrived("result") /\ Of("create")
  /\ dialog' = IF dialog.kind = "create" THEN NoDialog ELSE dialog
  /\ show_password(Head(events).id)
  /\ refresh
  /\ UNCHANGED <<changes, listed, clicks, alive, made, missed>>

PasswordReset ==
  /\ Arrived("result") /\ Of("reset")
  /\ show_password(Head(events).id)
  /\ refresh
  /\ UNCHANGED <<changes, listed, dialog, clicks, alive, made, missed>>

(* Variant: the list is not read again after a change.                     *)
MutatedAndShown ==
  /\ Arrived("result") /\ Of("mutate") /\ NoSubmit
  /\ UNCHANGED <<changes, screen, clicks, history>>

(* _mutation_complete.                                                     *)
Mutated ==
  /\ Arrived("result") /\ Of("mutate")
  /\ refresh
  /\ UNCHANGED <<changes, listed, dialog, passwords, clicks, alive, made, seen, missed>>

(* Does the open dialog wait for the call at hand?                         *)
Its == dialog.call # 0 /\ dialog.call = Head(events).id

(* Variant: the message goes to whichever dialog is open.                  *)
FailedAnywhere ==
  /\ Arrived("error") /\ NoSubmit
  /\ dialog' = [dialog EXCEPT !.call = Head(events).id]
  /\ missed' = (missed \/ Of("list"))
  /\ UNCHANGED <<changes, listed, enabled, actions, passwords, clicks, alive, made, seen, overlapped>>

(* _dialog_error and _handle_error with a message.                         *)
Failed ==
  /\ Arrived("error") /\ NoSubmit
  /\ dialog' = IF Its THEN [dialog EXCEPT !.call = 0] ELSE dialog
  /\ missed' = (missed \/ Of("list"))
  /\ UNCHANGED <<changes, listed, enabled, actions, passwords, clicks, alive, made, seen, overlapped>>

(* The same when the session is no longer valid.                           *)
Denied ==
  /\ Arrived("denied") /\ NoSubmit
  /\ dialog' = IF Its THEN NoDialog ELSE dialog
  /\ alive' = FALSE
  /\ UNCHANGED <<changes, listed, enabled, actions, passwords, clicks, history>>

(* Variant: the page is freed by its results only.                         *)
FinishedUnnoticed ==
  /\ Arrived("finished") /\ NoSubmit
  /\ UNCHANGED listed
  /\ IF Of("mutate") THEN enabled' = TRUE /\ update_action_state
                     ELSE UNCHANGED <<enabled, actions>>
  /\ UNCHANGED <<changes, dialog, passwords, clicks, alive, history>>

(* on_finished, which a create call does not have: the first one to come   *)
(* frees the page for all.                                                 *)
Finished ==
  /\ Arrived("finished") /\ NoSubmit
  /\ UNCHANGED listed
  /\ IF Of("create") THEN UNCHANGED <<enabled, actions>>
                     ELSE enabled' = TRUE /\ update_action_state
  /\ UNCHANGED <<changes, dialog, passwords, clicks, alive, history>>

Act ==
  \/ Refresh \/ Select \/ OpenCreate \/ Create \/ Confirm \/ Activate \/ Cancel
  \/ \E kind \in {"reset", "mutate"} : Ask(kind)
  \/ \E id \in passwords : Done(id)

Deliver ==
  \/ Timer \/ Populate \/ UserCreated \/ PasswordReset \/ Mutated
  \/ Failed \/ Denied \/ Finished

Next == Act \/ Work \/ Deliver

(* Calls end and the GUI thread goes on; the user may stop at any time.    *)
Spec == Init /\ [][Next]_vars /\ WF_vars(Work) /\ WF_vars(Deliver)

(* ------------------------------ properties ----------------------------- *)

(* A temporary password is never lost on its way to the screen, even when  *)
(* its dialog was cancelled: once the page is quiet, every password the    *)
(* service has made (and stored only as a hash) has been shown.            *)
EveryPasswordShown == alive /\ Quiet => seen = made

(* Once the page is idle its list shows every change, if its last list     *)
(* did not overlap another one and did not fail.                           *)
ListCatchesUp == alive /\ Quiet /\ ~overlapped /\ ~missed => listed = changes

(* The page always becomes usable again.                                   *)
Blocked == alive /\ ~enabled
FreeAgain == Blocked ~> ~Blocked

(* A dialog that waits for its call is answered or was closed.             *)
CreateAnswered == dialog.call # 0 ~> (dialog.call = 0 \/ ~alive)
=============================================================================
