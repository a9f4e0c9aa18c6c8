---------------------------- MODULE ShipmentsPage ---------------------------
(***************************************************************************)
(* The page of the shipments: a paged, filtered list whose loads may       *)
(* overlap and are told apart by a generation, one flag for loads and one  *)
(* for all other calls, dialogs that wait for their call, and a success    *)
(* message that is kept until the next list has arrived.                   *)
(*                                                                         *)
(* The shipments are abstracted to the number of changes committed so far  *)
(* and the number of pages a filter selects; a filter stands for all that  *)
(* the widgets of the list say, the size of a page included.  What the     *)
(* service does with a call is in Shipments and SmsRegister.               *)
(***************************************************************************)
EXTENDS DatabaseWorker

CONSTANTS
  Filters,       \* what the user may look for
  MaxPages,      \* bound: pages of a list
  MaxActions     \* bound: clicks that may start a call

VARIABLES
  changes,       \* committed changes of the shipments
  pages,         \* how many pages each filter selects
  filter,        \* what the widgets say
  page,          \* _page
  total,         \* _total, counted in pages
  generation,    \* _load_generation
  load_busy, mutation_busy,
  pending,       \* _pending_success: the call it is about, or 0
  shown,         \* the table: the load it came from, its page and its age
  dialog,        \* the modal dialog on the screen
  clicks,
  alive,         \* FALSE once the page has asked to end the session
  failed         \* history: the last load failed

database == <<changes, pages>>
list == <<page, total, generation, load_busy, shown, pending, failed>>
vars == <<database, filter, list, mutation_busy, dialog, clicks, alive, worker>>

(* A form waits for its call; the others end before a call starts.         *)
Kinds == {"none", "form", "confirm", "details"}
NoDialog == [kind |-> "none", call |-> 0]
Form == [kind |-> "form", call |-> 0]

Blank == [generation |-> 0, page |-> 1, changes |-> 0]

TypeOK ==
  /\ changes \in Nat /\ pages \in [Filters -> 0..MaxPages] /\ filter \in Filters
  /\ page \in 1..MaxPages /\ total \in 0..MaxPages
  /\ generation \in 0..submitted /\ pending \in 0..submitted
  /\ {load_busy, mutation_busy, alive, failed} \subseteq BOOLEAN
  /\ shown \in [generation : 0..generation, page : 1..MaxPages, changes : 0..changes]
  /\ dialog \in [kind : Kinds, call : -1..submitted]
  /\ clicks \in 0..MaxActions
  /\ \A t \in tasks : t.id \in 1..submitted

load_call(g) == [name |-> "load", generation |-> g, filter |-> filter]
call(name) == [name |-> name]
Others == {"lookup", "details", "mutate"}

Init ==
  /\ submitted = 0 /\ tasks = {}
  /\ events = singleShot(<<>>, call("load"))
  /\ changes = 0 /\ pages \in [Filters -> 0..MaxPages] /\ filter \in Filters
  /\ page = 1 /\ total = 0 /\ generation = 0 /\ pending = 0 /\ shown = Blank
  /\ load_busy = FALSE /\ mutation_busy = FALSE /\ dialog = NoDialog
  /\ clicks = 0 /\ alive = TRUE /\ failed = FALSE

(* Variant: an empty list has no page.                                     *)
page_count_zero(n) == n

page_count(n) == IF n = 0 THEN 1 ELSE n

(* Variant: the generation is taken before it is counted.                  *)
refresh_early ==
  /\ generation' = generation + 1
  /\ load_busy' = TRUE
  /\ submit(load_call(generation))

(* refresh asks for the newest list; what is under way becomes outdated.   *)
refresh ==
  /\ generation' = generation + 1
  /\ load_busy' = TRUE
  /\ submit(load_call(generation + 1))

(* Variant: a second call is not kept out.                                 *)
mutate_anyway ==
  /\ mutation_busy' = TRUE
  /\ submit(call("mutate"))

(* _mutate: nothing happens while another call is under way.               *)
mutate ==
  \/ /\ mutation_busy
     /\ NoSubmit /\ UNCHANGED mutation_busy
  \/ /\ ~mutation_busy /\ mutation_busy' = TRUE
     /\ submit(call("mutate"))

(* ---------------------------- the user acts ---------------------------- *)

AtPage == alive /\ dialog = NoDialog

Click == alive /\ clicks < MaxActions /\ clicks' = clicks + 1

(* _update_busy_state.                                                     *)
Enabled == ~load_busy /\ ~mutation_busy

(* A filter is typed or chosen, but not applied.                           *)
Choose(f) ==
  /\ AtPage /\ filter # f
  /\ filter' = f
  /\ UNCHANGED <<database, list, mutation_busy, dialog, clicks, alive, worker>>

(* apply_filters; the Return key in a filter works during a load, too.     *)
ApplyFilters ==
  /\ AtPage /\ Click
  /\ page' = 1
  /\ refresh
  /\ UNCHANGED <<database, filter, total, shown, pending, failed, mutation_busy, dialog, alive, events>>

Refresh ==
  /\ AtPage /\ Enabled /\ Click
  /\ refresh
  /\ UNCHANGED <<database, filter, page, total, shown, pending, failed, mutation_busy, dialog, alive, events>>

(* previous_page and next_page.                                            *)
Turn(to) ==
  /\ AtPage /\ Enabled /\ Click
  /\ to \in {page - 1, page + 1} \cap 1..page_count(total)
  /\ page' = to
  /\ refresh
  /\ UNCHANGED <<database, filter, total, shown, pending, failed, mutation_busy, dialog, alive, events>>

(* Something is read before the dialog opens: the clients of a new         *)
(* shipment, the open problem, or the details.                             *)
Lookup(name) ==
  /\ AtPage /\ Enabled /\ Click
  /\ mutation_busy' = TRUE
  /\ submit(call(name))
  /\ UNCHANGED <<database, filter, list, dialog, alive, events>>

(* Edit, status, report, weighing and SMS open at once; archive asks.      *)
Open(kind) ==
  /\ AtPage /\ Enabled /\ shown.generation # 0
  /\ dialog' = [kind |-> kind, call |-> 0]
  /\ UNCHANGED <<database, filter, list, mutation_busy, clicks, alive, worker>>

(* A form was filled in: set_busy, then _mutate, which may do nothing; the *)
(* form then waits for no call.                                            *)
SubmitForm ==
  /\ Click /\ dialog = Form
  /\ mutate
  /\ dialog' = [dialog EXCEPT !.call = IF mutation_busy THEN -1 ELSE submitted + 1]
  /\ UNCHANGED <<database, filter, list, alive, events>>

Confirm ==
  /\ Click /\ dialog.kind = "confirm"
  /\ dialog' = NoDialog
  /\ mutate
  /\ UNCHANGED <<database, filter, list, alive, events>>

Restore ==
  /\ AtPage /\ Enabled /\ Click /\ shown.generation # 0
  /\ mutate
  /\ UNCHANGED <<database, filter, list, dialog, alive, events>>

(* Cancel and the close box, also while the call of a form is under way.   *)
Close ==
  /\ alive /\ dialog # NoDialog
  /\ dialog' = NoDialog
  /\ UNCHANGED <<database, filter, list, mutation_busy, clicks, alive, worker>>

(* ------------------------------ the worker ----------------------------- *)

Refused(t) == Ran(t, "error", NoValue) \/ Ran(t, "denied", NoValue)

(* The worker thread reads _page; the filter came with the call.           *)
Load(t) ==
  /\ t.call.name = "load"
  /\ \/ Ran(t, "result", [page |-> page, total |-> pages[t.call.filter], changes |-> changes])
     \/ Refused(t)
  /\ UNCHANGED database

Look(t) ==
  /\ t.call.name \in {"lookup", "details"}
  /\ Ran(t, "result", NoValue) \/ Refused(t)
  /\ UNCHANGED database

(* A change may add a row to a list or take one away.                      *)
Mutate(t) ==
  /\ t.call.name = "mutate"
  /\ \/ /\ Ran(t, "result", NoValue)
        /\ changes' = changes + 1
        /\ \E f \in Filters, n \in 0..MaxPages :
             /\ n \in {pages[f] - 1, pages[f], pages[f] + 1}
             /\ pages' = [pages EXCEPT ![f] = n]
     \/ Refused(t) /\ UNCHANGED database

End(t) == (Told(t) \/ Ended(t)) /\ UNCHANGED database

Work ==
  /\ alive
  /\ \E t \in tasks : Load(t) \/ Look(t) \/ Mutate(t) \/ End(t)
  /\ UNCHANGED <<filter, list, mutation_busy, dialog, clicks, alive>>

(* ---------------- events and timers reach their handler ---------------- *)

Arrived(kind) == alive /\ Delivered(kind) /\ events' = Tail(events)

Current == Head(events).call.generation = generation

Timer ==
  /\ Arrived("timer")
  /\ refresh
  /\ UNCHANGED <<database, filter, page, total, shown, pending, failed, mutation_busy, dialog, clicks, alive>>

show(v) ==
  /\ total' = v.total
  /\ IF v.page > page_count(v.total)
     THEN /\ page' = page_count(v.total)
          /\ refresh
          /\ UNCHANGED <<shown, pending, failed>>
     ELSE /\ page' = v.page
          /\ shown' = [generation |-> generation, page |-> v.page, changes |-> v.changes]
          /\ pending' = 0 /\ failed' = FALSE
          /\ NoSubmit /\ UNCHANGED <<generation, load_busy>>

(* Variant: every list that arrives is shown.                              *)
PopulateAny ==
  /\ Arrived("result") /\ Of("load")
  /\ show(Head(events).value)
  /\ UNCHANGED <<database, filter, mutation_busy, dialog, clicks, alive>>

(* Variant: a page beyond the end is shown as it is.                       *)
PopulateUnclamped ==
  /\ Arrived("result") /\ Of("load") /\ NoSubmit
  /\ LET v == Head(events).value IN
       IF ~Current THEN UNCHANGED list
       ELSE /\ total' = v.total /\ page' = v.page
            /\ shown' = [generation |-> generation, page |-> v.page, changes |-> v.changes]
            /\ pending' = 0 /\ failed' = FALSE
            /\ UNCHANGED <<generation, load_busy>>
  /\ UNCHANGED <<database, filter, mutation_busy, dialog, clicks, alive>>

(* _populate: an outdated list is ignored; a page beyond the end is        *)
(* replaced by the last one, which is read again.                          *)
Populate ==
  /\ Arrived("result") /\ Of("load")
  /\ IF Current THEN show(Head(events).value) ELSE NoSubmit /\ UNCHANGED list
  /\ UNCHANGED <<database, filter, mutation_busy, dialog, clicks, alive>>

LoadError ==
  /\ Arrived("error") /\ Of("load") /\ NoSubmit
  /\ failed' = (failed \/ Current)
  /\ UNCHANGED <<database, filter, page, total, generation, load_busy, shown, pending>>
  /\ UNCHANGED <<mutation_busy, dialog, clicks, alive>>

LoadFinished ==
  /\ Arrived("finished") /\ Of("load") /\ NoSubmit
  /\ load_busy' = (load_busy /\ ~Current)
  /\ UNCHANGED <<database, filter, page, total, generation, shown, pending, failed>>
  /\ UNCHANGED <<mutation_busy, dialog, clicks, alive>>

(* _show_new_dialog, _show_resolve_dialog (there may be no problem), and   *)
(* _show_details.                                                          *)
LookedUp ==
  /\ Arrived("result") /\ Head(events).call.name \in {"lookup", "details"} /\ NoSubmit
  /\ dialog' \in IF Of("lookup") THEN {Form, dialog} ELSE {[kind |-> "details", call |-> 0]}
  /\ UNCHANGED <<database, filter, list, mutation_busy, clicks, alive>>

(* Does the open form wait for the call at hand?                           *)
Its == dialog.call # 0 /\ dialog.call = Head(events).id

(* Variant: the list is not read again after a change.                     *)
MutatedQuietly ==
  /\ Arrived("result") /\ Of("mutate") /\ NoSubmit
  /\ dialog' = IF Its THEN NoDialog ELSE dialog
  /\ pending' = Head(events).id
  /\ UNCHANGED <<database, filter, page, total, generation, load_busy, shown, failed>>
  /\ UNCHANGED <<mutation_busy, clicks, alive>>

(* _mutation_complete.                                                     *)
Mutated ==
  /\ Arrived("result") /\ Of("mutate")
  /\ dialog' = IF Its THEN NoDialog ELSE dialog
  /\ pending' = Head(events).id
  /\ refresh
  /\ UNCHANGED <<database, filter, page, total, shown, failed, mutation_busy, clicks, alive>>

(* _mutation_error and _handle_error with a message.                       *)
Failed ==
  /\ Arrived("error") /\ ~Of("load") /\ NoSubmit
  /\ dialog' = IF Its THEN [dialog EXCEPT !.call = 0] ELSE dialog
  /\ UNCHANGED <<database, filter, list, mutation_busy, clicks, alive>>

(* The same when the session is no longer valid.                           *)
Denied ==
  /\ Arrived("denied") /\ NoSubmit
  /\ dialog' = IF Its THEN NoDialog ELSE dialog
  /\ alive' = FALSE
  /\ UNCHANGED <<database, filter, list, mutation_busy, clicks>>

(* _mutation_finished.                                                     *)
MutationFinished ==
  /\ Arrived("finished") /\ ~Of("load") /\ NoSubmit
  /\ mutation_busy' = FALSE
  /\ UNCHANGED <<database, filter, list, dialog, clicks, alive>>

Act ==
  \/ ApplyFilters \/ Refresh \/ SubmitForm \/ Confirm \/ Restore \/ Close
  \/ \E f \in Filters : Choose(f)
  \/ \E to \in 1..MaxPages : Turn(to)
  \/ \E name \in {"lookup", "details"} : Lookup(name)
  \/ \E kind \in {"form", "confirm"} : Open(kind)

Deliver ==
  \/ Timer \/ Populate \/ LoadError \/ LoadFinished
  \/ LookedUp \/ Mutated \/ Failed \/ Denied \/ MutationFinished

Next == Act \/ Work \/ Deliver

(* Calls end and the GUI thread goes on; the user may stop at any time.    *)
Spec == Init /\ [][Next]_vars /\ WF_vars(Work) /\ WF_vars(Deliver)

(* ------------------------------ properties ----------------------------- *)

(* At most one call besides the loads is under way, and the flag that      *)
(* keeps the next one out is never left set without one.                   *)
OneMutation ==
  alive => UnderWay(Others) = IF mutation_busy THEN 1 ELSE 0

(* When no load is under way and the last one did not fail, the table      *)
(* shows the load that was asked for last, the page the label names, and   *)
(* that page exists: _page, _total and the table belong together.          *)
SummaryTrue ==
  alive /\ ~load_busy /\ ~failed /\ generation # 0 =>
    /\ shown.generation = generation
    /\ page = shown.page /\ page <= page_count(total)

(* tests/qt/test_shipments_ui.py: a "stale load response cannot replace    *)
(* newer results", whatever the order in which the workers answer.         *)
NewestStays ==
  [][shown'.generation >= shown.generation /\ shown'.changes >= shown.changes]_vars

(* Once the page is quiet it shows every change made on it, and a success  *)
(* has been told, unless the last load failed.                             *)
ChangesShown ==
  alive /\ Quiet /\ ~failed => shown.changes = changes /\ pending = 0

(* A load ends for the user, also if pages vanish under it: the page       *)
(* never stays disabled.                                                   *)
Blocked == alive /\ (load_busy \/ mutation_busy)
FreeAgain == Blocked ~> ~Blocked
=============================================================================
