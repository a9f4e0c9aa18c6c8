-------------------------- MODULE SmsShipmentsPage --------------------------
(***************************************************************************)
(* The page of the shipments with SMS events: a paged, filtered list, the  *)
(* history of one shipment, and one busy flag for both calls.  The worker  *)
(* thread itself reads the search field, the page size and the page number.*)
(*                                                                         *)
(* A filter stands for what the search field and the choices say, and has  *)
(* a number of pages.  It grows with every event; a search matches fields  *)
(* of the recipient, which may be edited, and then it shrinks as well.     *)
(* What the service does with a call is in SmsRegister.                    *)
(***************************************************************************)
EXTENDS DatabaseWorker

CONSTANTS
  Filters,       \* what the user may look for
  Searches,      \* those with a text in the search field
  MaxPages,      \* bound: pages of a list
  MaxActions     \* bound: clicks that may start a call

VARIABLES
  pages,         \* how many pages each filter selects
  filter,        \* what the widgets say
  page,          \* _page
  total,         \* _total, counted in pages
  busy,          \* _busy
  shown,         \* the table: the page and the filter it was read for
  history,       \* is the history dialog open?
  clicks,
  alive,         \* FALSE once the page has asked to end the session
  asked,         \* history: page and filter when the list was asked for
  edited,        \* history: the filter changed, and no list that was asked
                 \* for by applying it has arrived since
  failed         \* history: the last list failed

list == <<page, total, shown, asked, edited, failed>>
vars == <<pages, filter, list, busy, history, clicks, alive, worker>>

View == [page : Nat, filter : Filters]
view(p, f) == [page |-> p, filter |-> f]

TypeOK ==
  /\ pages \in [Filters -> 0..MaxPages] /\ filter \in Filters
  /\ page \in 1..MaxPages /\ total \in 0..MaxPages
  /\ {busy, history, alive, edited, failed} \subseteq BOOLEAN
  /\ {shown, asked} \subseteq View
  /\ clicks \in 0..MaxActions
  /\ \A t \in tasks : t.id \in 1..submitted /\ t.call.name \in {"list", "history"}

call(name) == [name |-> name, applied |-> FALSE]
list_call(applied) == [name |-> "list", applied |-> applied]

Init ==
  /\ submitted = 0 /\ tasks = {} /\ events = singleShot(<<>>, call("list"))
  /\ pages \in [Filters -> 0..MaxPages] /\ filter \in Filters
  /\ page = 1 /\ total = 0 /\ shown = view(1, filter) /\ asked = shown
  /\ busy = FALSE /\ history = FALSE /\ clicks = 0 /\ alive = TRUE
  /\ edited = FALSE /\ failed = FALSE

page_count(n) == IF n = 0 THEN 1 ELSE n

(* Variant: a refresh does not look at the flag.                           *)
refresh_anyway(p, applied) ==
  /\ busy' = TRUE /\ submit(list_call(applied))
  /\ asked' = view(p, filter)

(* refresh, for the new page p; none if a call is under way.               *)
refresh(p, applied) ==
  IF busy THEN NoSubmit /\ UNCHANGED <<busy, asked>>
          ELSE /\ busy' = TRUE /\ submit(list_call(applied))
               /\ asked' = view(p, filter)

(* ---------------------------- the user acts ---------------------------- *)

AtPage == alive /\ ~history

Click == AtPage /\ ~busy /\ clicks < MaxActions /\ clicks' = clicks + 1

(* Variant: the fields stay enabled while a list is read.                  *)
ChooseAnyTime(f) ==
  /\ AtPage /\ filter # f
  /\ filter' = f /\ edited' = TRUE
  /\ UNCHANGED <<pages, page, total, shown, asked, failed, busy, history, clicks, alive, worker>>

(* A filter is typed or chosen, but not applied.                           *)
Choose(f) ==
  /\ AtPage /\ ~busy /\ filter # f
  /\ filter' = f /\ edited' = TRUE
  /\ UNCHANGED <<pages, page, total, shown, asked, failed, busy, history, clicks, alive, worker>>

(* Variant: the page number is kept.                                       *)
ApplyKeepingPage ==
  /\ Click
  /\ page' = page
  /\ refresh(page, TRUE)
  /\ UNCHANGED <<events, pages, filter, total, shown, edited, failed, history, alive>>

(* apply_filters; _page_size_changed does the same.                        *)
ApplyFilters ==
  /\ Click
  /\ page' = 1
  /\ refresh(1, TRUE)
  /\ UNCHANGED <<events, pages, filter, total, shown, edited, failed, history, alive>>

Refresh ==
  /\ Click
  /\ refresh(page, FALSE)
  /\ UNCHANGED <<events, pages, filter, page, total, shown, edited, failed, history, alive>>

(* Variant: there is always a page before.                                 *)
TurnFreely(to) ==
  /\ Click
  /\ to > page => to <= page_count(total)
  /\ page' = to
  /\ refresh(to, FALSE)
  /\ UNCHANGED <<events, pages, filter, total, shown, edited, failed, history, alive>>

(* previous_page and next_page.                                            *)
Turn(to) ==
  /\ Click
  /\ to > 0
  /\ to > page => to <= page_count(total)
  /\ page' = to
  /\ refresh(to, FALSE)
  /\ UNCHANGED <<events, pages, filter, total, shown, edited, failed, history, alive>>

OpenHistory ==
  /\ Click
  /\ busy' = TRUE
  /\ submit(call("history"))
  /\ UNCHANGED <<events, pages, filter, list, history, alive>>

CloseHistory ==
  /\ alive /\ history
  /\ history' = FALSE
  /\ UNCHANGED <<pages, filter, list, busy, clicks, alive, worker>>

(* ------------------------------ the worker ----------------------------- *)

(* The search field and _page are read in the worker thread.               *)
Run(t) ==
  \/ Ran(t, "result", [view |-> view(page, filter), total |-> pages[filter]])
  \/ Ran(t, "error", NoValue) \/ Ran(t, "denied", NoValue)
  \/ Told(t) \/ Ended(t)

Work ==
  /\ alive /\ \E t \in tasks : Run(t)
  /\ UNCHANGED <<pages, filter, list, busy, history, clicks, alive>>

(* Elsewhere an event is recorded, or a recipient edited whom a search now *)
(* finds: a list grows.                                                    *)
Record(f) ==
  /\ alive /\ pages[f] < MaxPages
  /\ pages' = [pages EXCEPT ![f] = @ + 1]
  /\ UNCHANGED <<filter, list, busy, history, clicks, alive, worker>>

(* Elsewhere a recipient is edited whom a search no longer finds.          *)
EditRecipient(f) ==
  /\ alive /\ pages[f] > 0
  /\ pages' = [pages EXCEPT ![f] = @ - 1]
  /\ UNCHANGED <<filter, list, busy, history, clicks, alive, worker>>

(* ---------------- events and timers reach their handler ---------------- *)

Arrived(kind) == alive /\ Delivered(kind) /\ events' = Tail(events)

Timer ==
  /\ Arrived("timer")
  /\ refresh(page, FALSE)
  /\ UNCHANGED <<pages, filter, page, total, shown, edited, failed, history, clicks, alive>>

(* _populate takes the total and the rows; _page is left as it is.         *)
Populate ==
  /\ Arrived("result") /\ Of("list") /\ NoSubmit
  /\ total' = Head(events).value.total
  /\ shown' = Head(events).value.view
  /\ edited' = (edited /\ ~Head(events).call.applied)
  /\ failed' = FALSE
  /\ UNCHANGED <<pages, filter, page, asked, busy, history, clicks, alive>>

ShowHistory ==
  /\ Arrived("result") /\ Of("history") /\ NoSubmit
  /\ history' = TRUE
  /\ UNCHANGED <<pages, filter, list, busy, clicks, alive>>

(* _handle_error: a failed page turn leaves the new number at the old rows.*)
Failed ==
  /\ Arrived("error") /\ NoSubmit
  /\ failed' = (failed \/ Of("list"))
  /\ UNCHANGED <<pages, filter, page, total, shown, asked, edited, busy, history, clicks, alive>>

Denied ==
  /\ Arrived("denied") /\ NoSubmit
  /\ alive' = FALSE
  /\ UNCHANGED <<pages, filter, list, busy, history, clicks>>

(* Variant: a result frees the page, an error does not.                    *)
FinishedIfShown ==
  /\ Arrived("finished") /\ NoSubmit
  /\ busy' = failed
  /\ UNCHANGED <<pages, filter, list, history, clicks, alive>>

Finished ==
  /\ Arrived("finished") /\ NoSubmit
  /\ busy' = FALSE
  /\ UNCHANGED <<pages, filter, list, history, clicks, alive>>

Act ==
  \/ ApplyFilters \/ Refresh \/ OpenHistory \/ CloseHistory
  \/ \E f \in Filters : Choose(f) \/ Record(f)
  \/ \E f \in Searches : EditRecipient(f)
  \/ \E to \in {page - 1, page + 1} : Turn(to)

Deliver == Timer \/ Populate \/ ShowHistory \/ Failed \/ Denied \/ Finished

Next == Act \/ Work \/ Deliver

(* Calls end and the GUI thread goes on; the user may stop at any time.    *)
Spec == Init /\ [][Next]_vars /\ WF_vars(Work) /\ WF_vars(Deliver)

(* ------------------------------ properties ----------------------------- *)

(* The page never has two calls under way, and _busy is never left set     *)
(* without one.                                                            *)
OneCall == alive => UnderWay({"list", "history"}) = IF busy THEN 1 ELSE 0

(* Although the worker thread reads the search field and _page only when it*)
(* gets to run, the table shows the page and the filter that were asked    *)
(* for, and the page the label names.                                      *)
ShowsWhatWasAsked ==
  alive /\ ~busy /\ ~failed /\ submitted > 0 => shown = asked /\ shown.page = page

(* The list is that of the widgets, and none of its rows can leave it.     *)
Settled == ~edited /\ filter \notin Searches

(* The page named by the label exists.  This page does not clamp as the    *)
(* page of the shipments does: with a filter edited and not applied, or a  *)
(* search whose recipients are edited, it may read "Page 2 of 1".          *)
PageExists == alive /\ ~busy /\ ~failed /\ Settled => page <= page_count(total)

(* The page always becomes usable again.                                   *)
Blocked == alive /\ busy
FreeAgain == Blocked ~> ~Blocked
=============================================================================
