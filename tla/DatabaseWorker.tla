--------------------------- MODULE DatabaseWorker ---------------------------
(***************************************************************************)
(* The worker threads as one page of the main window sees them: the page   *)
(* submits a call, a thread runs it, then posts its result, then           *)
(* "finished", with the other threads at work in between.  Posted events   *)
(* and expired zero timers reach the page in the order of their posting.   *)
(* The pool itself, with its limit and its shutdown, is in DesktopSession. *)
(***************************************************************************)
EXTENDS Integers, Sequences, FiniteSets

CONSTANTS
  Threads,       \* setMaxThreadCount
  NoValue        \* no result (yet)

ASSUME ThreadsAssumption == Threads \in Nat \ {0}

VARIABLES
  submitted,     \* calls submitted so far; it names the next one
  tasks,         \* calls a thread has yet to finish
  events         \* what waits for the GUI thread

worker == <<submitted, tasks, events>>

(* DatabaseTaskRunner.submit.                                              *)
submit(call) ==
  /\ submitted' = submitted + 1
  /\ tasks' = tasks \cup {[id |-> submitted + 1, call |-> call, stage |-> "sent",
                           kind |-> "result", value |-> NoValue]}

NoSubmit == UNCHANGED <<submitted, tasks>>

Event(t, kind) == [kind |-> kind, id |-> t.id, call |-> t.call, value |-> t.value]

(* QTimer.singleShot(0, ...).                                              *)
singleShot(queue, call) ==
  Append(queue, [kind |-> "timer", id |-> 0, call |-> call, value |-> NoValue])

(* The pool starts its calls in the order of submission.                   *)
Started(t) == Cardinality({u \in tasks : u.id < t.id}) < Threads

(* run: the operation returned a value, or raised.                         *)
Ran(t, kind, value) ==
  /\ t \in tasks /\ t.stage = "sent" /\ Started(t)
  /\ tasks' = (tasks \ {t}) \cup
       {[t EXCEPT !.stage = "ran", !.kind = kind, !.value = value]}
  /\ UNCHANGED <<submitted, events>>

(* run: the result or the error is posted.                                 *)
Told(t) ==
  /\ t \in tasks /\ t.stage = "ran"
  /\ tasks' = (tasks \ {t}) \cup {[t EXCEPT !.stage = "told"]}
  /\ events' = Append(events, Event(t, t.kind))
  /\ UNCHANGED submitted

(* run: the finally clause.                                                *)
Ended(t) ==
  /\ t \in tasks /\ t.stage = "told"
  /\ tasks' = tasks \ {t}
  /\ events' = Append(events, Event(t, "finished"))
  /\ UNCHANGED submitted

Delivered(kind) == events # <<>> /\ Head(events).kind = kind

Of(name) == Head(events).call.name = name

(* Calls whose "finished" the page has yet to see.                         *)
UnderWay(names) ==
  Cardinality({t \in tasks : t.call.name \in names})
  + Cardinality({i \in DOMAIN events :
                   events[i].kind = "finished" /\ events[i].call.name \in names})

(* Nothing under way and nothing to handle.                                *)
Quiet == tasks = {} /\ events = <<>>
=============================================================================
