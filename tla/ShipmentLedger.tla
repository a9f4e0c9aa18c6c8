--------------------------- MODULE ShipmentLedger ---------------------------
(***************************************************************************)
(* What the shipment services promise, as one atomic step per service      *)
(* call: the book of shipments, in the order of their numbers.  Every      *)
(* entry of a shipment's trail is a lawful move, a flagged override, a     *)
(* problem report or a recovery the report allows; at most one problem is  *)
(* open, exactly while the shipment stands at PROBLEM; an archived         *)
(* shipment is frozen until it is restored.  Module Shipments, where the   *)
(* calls of several threads interleave, is shown to implement this.        *)
(***************************************************************************)
EXTENDS Naturals, Sequences, ShipmentWorkflow

VARIABLE book    \* book[n]: the shipment with number n

(* A trail entry: the status entered and whether by administrator override. *)
Entered(status, override) == [to |-> status, override |-> override]

(* How many unresolved problems captured each status.                      *)
NothingOpen == [captured \in Statuses |-> 0]
OneOpen(status) == [NothingOpen EXCEPT ![status] = 1]

(* notes: the control weighings and SMS events, which carry no version.    *)
FirstEntry == [trail |-> <<Entered("RECEIVED", FALSE)>>, archived |-> FALSE,
               version |-> 1, open |-> NothingOpen, notes |-> 0]

StatusOf(shipment) == shipment.trail[Len(shipment.trail)].to

Init == book = <<>>

Receive == book' = Append(book, FirstEntry)

(* Every change but a note needs an operational shipment and takes one     *)
(* step of the version.                                                    *)
Change(n, changed) ==
  /\ ~book[n].archived
  /\ book' = [book EXCEPT ![n] = [changed EXCEPT !.version = book[n].version + 1]]

Enter(n, status, override, open) ==
  Change(n, [book[n] EXCEPT !.trail = Append(@, Entered(status, override)),
                            !.open = open])

Edit(n) == Change(n, book[n])

Move(n) ==
  \E target \in Statuses \ {"PROBLEM", StatusOf(book[n])}, override \in BOOLEAN :
    /\ StatusOf(book[n]) # "PROBLEM"
    /\ override <=> ~can_transition(StatusOf(book[n]), target)
    /\ Enter(n, target, override, NothingOpen)

Report(n) ==
  /\ can_transition(StatusOf(book[n]), "PROBLEM")
  /\ Enter(n, "PROBLEM", FALSE, OneOpen(StatusOf(book[n])))

Resolve(n) ==
  \E previous, target \in Statuses :
    /\ StatusOf(book[n]) = "PROBLEM"
    /\ book[n].open = OneOpen(previous)
    /\ can_recover(previous, target)
    /\ Enter(n, target, FALSE, NothingOpen)

Archive(n) == Change(n, [book[n] EXCEPT !.archived = TRUE])

Restore(n) ==
  /\ book[n].archived
  /\ book' = [book EXCEPT ![n].archived = FALSE, ![n].version = @ + 1]

(* The services read the archive flag before they take the write lock, so  *)
(* a note may still land on a shipment archived in between.                *)
Note(n) == book' = [book EXCEPT ![n].notes = @ + 1]

Next ==
  \/ Receive
  \/ \E n \in DOMAIN book :
       \/ Edit(n) \/ Move(n) \/ Report(n) \/ Resolve(n)
       \/ Archive(n) \/ Restore(n) \/ Note(n)

Spec == Init /\ [][Next]_book
=============================================================================
