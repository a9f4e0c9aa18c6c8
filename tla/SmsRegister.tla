---------------------------- MODULE SmsRegister -----------------------------
(***************************************************************************)
(* The register of SMS events: ShipmentSmsService, its validation and its  *)
(* two lists.                                                              *)
(*                                                                         *)
(* record_sms reads the shipment and the clock, and takes the write lock   *)
(* only with its INSERT; a list is a SELECT of the total and a SELECT of   *)
(* the page.  Shipments are archived and edited meanwhile.                 *)
(*                                                                         *)
(* The phone stands for the recipient fields that the list of all searches *)
(* and an edit changes.                                                    *)
(*                                                                         *)
(* Left out: the check of the actor (module Clients), the search for a     *)
(* shipment number, which never changes, and what a text says beyond the   *)
(* classes that the validation tells apart.                                *)
(***************************************************************************)
EXTENDS Integers, Sequences, FiniteSets, SequencesExt

CONSTANTS
  Threads,      \* calls of record_sms at the same time
  Shipments,    \* ids of shipments, integers
  Phones,       \* phone numbers that are valid
  Requests,     \* the arguments record_sms is called with
  MaxPage,      \* MAX_SMS_PAGE_SIZE
  MaxEvents,    \* bound: no call begins with this many events
  MaxClock      \* bound: the last clock value

SmsSenderType == {"WAREHOUSE", "COURIER", "SYSTEM"}
SmsSendStatus == {"RECORDED", "PENDING", "SENT", "FAILED", "DELIVERED"}
(* One message type with a template stands for the five of the code.       *)
SmsMessageType == {"TEMPLATE", "CUSTOM"}

Free == "free"
None == "none"
Never == 0
NoUser == 0
ThisUser == 1

(* The classes of an entered text; "blank" is empty or only spaces.        *)
Texts == {"plain", "blank", "html", "too long", "control"}

Request == [shipment : Shipments, sender : SmsSenderType, type : SmsMessageType,
            phone : Phones \cup {None, "bad"}, text : Texts \cup {None},
            status : SmsSendStatus, delay : {None, "before", "after"},
            error : Texts \cup {None}]

(* What the parameters must be.                                            *)
SmsAssumption ==
  /\ Free \notin Threads
  /\ Shipments \subseteq Int \ {Never} /\ IsFiniteSet(Shipments)
  /\ {None, "bad"} \cap Phones = {}
  /\ Requests \subseteq Request
  /\ MaxPage \in Nat \ {0} /\ MaxClock \in Nat \ {0}

VARIABLES
  archived,   \* shipments that are archived
  phone,      \* the recipient phone of each shipment
  events,     \* the shipment_sms_events table
  audits,     \* entity ids of the SHIPMENT_SMS_RECORDED audit events
  lock,       \* the thread that holds the write lock
  call,       \* record_sms in each thread
  list,       \* one list call; edited is history: the shipments whose recipient
              \* was edited between its two SELECTs, if it searches by recipient
  clock       \* the wall clock, never set back

vars == <<archived, phone, events, audits, lock, call, list, clock>>

Idle == [pc |-> "idle"]

Init ==
  /\ archived = {} /\ phone \in [Shipments -> Phones]
  /\ events = <<>> /\ audits = <<>> /\ lock = Free
  /\ call = [t \in Threads |-> Idle] /\ list = Idle
  /\ clock = 1

(* ----------------------------- validation ------------------------------ *)

(* default_sms_text, and the empty text where there is no template.        *)
ResolvedText(request) ==
  IF request.text # None THEN request.text
  ELSE IF request.type = "TEMPLATE" THEN "plain" ELSE "blank"

(* _optional_text: a blank text becomes NULL.                              *)
OptionalText(text) == IF text = "blank" THEN None ELSE text

(* The entity, and what __post_init__ makes of its texts.  A delivery time *)
(* is before or not before the time of sending, the present.               *)
Event(request, now) ==
  [shipment |-> request.shipment, sender |-> request.sender,
   user |-> IF request.sender = "SYSTEM" THEN NoUser ELSE ThisUser,
   phone |-> IF request.phone = None THEN phone[request.shipment] ELSE request.phone,
   type |-> request.type, text |-> ResolvedText(request), status |-> request.status,
   sent |-> now,
   delivered |-> CASE request.delay = None -> Never
                   [] request.delay = "before" -> now - 1
                   [] request.delay = "after" -> now + 1,
   error |-> OptionalText(request.error)]

Delivered(request) == request.delay # None

(* Variant: only a missing delivery time is refused.                       *)
ValidUnlessMissing(request) ==
  /\ request.phone # "bad"
  /\ ResolvedText(request) = "plain"
  /\ request.error \in {None, "plain", "blank", "html"}
  /\ request.delay # "before"
  /\ request.status = "DELIVERED" => Delivered(request)
  /\ request.status = "FAILED" => OptionalText(request.error) # None

(* validate_sms_event.  A "before" delivery is refused whatever the status *)
(* is; HTML is refused in the message, not in the error.                   *)
validate_sms_event(request) ==
  /\ request.phone # "bad"
  /\ ResolvedText(request) = "plain"
  /\ request.error \in {None, "plain", "blank", "html"}
  /\ request.delay # "before"
  /\ (request.status = "DELIVERED") = Delivered(request)
  /\ request.status = "FAILED" => OptionalText(request.error) # None

(* The CHECK constraints of ShipmentSmsEventModel.                         *)
Checks(e) ==
  /\ (e.sender = "SYSTEM") = (e.user = NoUser)
  /\ e.phone # "bad"
  /\ e.text \notin {"blank", "too long"}
  /\ IF e.status = "DELIVERED" THEN e.delivered # Never /\ e.delivered >= e.sent
                               ELSE e.delivered = Never
  /\ e.error # "too long"
  /\ e.status = "FAILED" => e.error \notin {None, "blank"}

(* ------------------------------ recording ------------------------------ *)

(* Up to the flush: the shipment as it is now, and the present.            *)
record_sms(t) ==
  /\ call[t].pc = "idle" /\ Len(events) < MaxEvents
  /\ \E request \in Requests :
       /\ request.shipment \notin archived
       /\ validate_sms_event(request)
       /\ call' = [call EXCEPT ![t] = [pc |-> "flush", event |-> Event(request, clock)]]
  /\ UNCHANGED <<archived, phone, events, audits, lock, list, clock>>

(* SqlAlchemyShipmentSmsRepository.add: the INSERT takes the lock.         *)
add(t) ==
  /\ call[t].pc = "flush" /\ lock = Free
  /\ Checks(call[t].event)
  /\ lock' = t
  /\ call' = [call EXCEPT ![t].pc = "commit"]
  /\ UNCHANGED <<archived, phone, events, audits, list, clock>>

(* Variant: the audit event takes the next number before the commit.       *)
AuditedFirst(t) ==
  /\ audits' = Append(audits, Len(events) + 1)
  /\ events' \in {events, Append(events, call[t].event)}

Stored(t) ==
  /\ audits' = Append(audits, Len(events) + 1)
  /\ events' = Append(events, call[t].event)

commit(t) ==
  /\ call[t].pc = "commit"
  /\ Stored(t)
  /\ call' = [call EXCEPT ![t] = Idle] /\ lock' = Free
  /\ UNCHANGED <<archived, phone, list, clock>>

(* Variant: the transaction is left open.                                  *)
FailWithoutRollback(t) ==
  /\ call[t].pc # "idle"
  /\ call' = [call EXCEPT ![t] = Idle]
  /\ UNCHANGED <<archived, phone, events, audits, lock, list, clock>>

(* Busy time-out, failed statement or commit, death of the process.        *)
Fail(t) ==
  /\ call[t].pc # "idle"
  /\ call' = [call EXCEPT ![t] = Idle]
  /\ lock' = IF lock = t THEN Free ELSE lock
  /\ UNCHANGED <<archived, phone, events, audits, list, clock>>

(* ------------------------------- the lists ----------------------------- *)

(* The filter on the status stands for the three enum filters.             *)
Query == [shipment : Shipments \cup {Never}, search : Phones \cup {None},
          status : SmsSendStatus \cup {None}, date_from : 0..MaxClock,
          offset : Nat, limit : 1..MaxPage]

(* _typed_filters: the events a query admits; date_from 0 is no filter.    *)
Matching(query, s) ==
  {i \in DOMAIN events : /\ events[i].shipment = s
                         /\ query.status \in {None, events[i].status}
                         /\ events[i].sent >= query.date_from}

(* Variant: events sent at the same time have no order of their own.       *)
LaterByTime(i, j) == events[i].sent > events[j].sent \/ (events[i].sent = events[j].sent /\ i < j)

(* ORDER BY sent_at DESC, id DESC.                                         *)
Later(i, j) == events[i].sent > events[j].sent \/ (events[i].sent = events[j].sent /\ i > j)

(* The rows of a SELECT with an ORDER BY that leaves no two of them equal. *)
InOrder(rows, Before(_, _)) ==
  CHOOSE seq \in SetToSeqs(rows) :
    \A i, j \in DOMAIN seq : i < j => Before(seq[i], seq[j])

(* list_for_shipment, without its window.                                  *)
History(query, s) == InOrder(Matching(query, s), Later)

(* latest_id and sms_count, the subqueries of list_shipments.              *)
latest_id(query, s) ==
  CHOOSE i \in Matching(query, s) :
    \A j \in Matching(query, s) \ {i} :
      events[i].sent > events[j].sent \/ (events[i].sent = events[j].sent /\ i > j)

Summary(query, s) ==
  [shipment |-> s, last |-> latest_id(query, s), count |-> Cardinality(Matching(query, s))]

(* shipment_filters, with the recipient as it is stored now.               *)
Selected(query) ==
  {s \in Shipments : Matching(query, s) # {} /\ query.search \in {None, phone[s]}}

(* list_shipments, without its window: by the last event, then by id.      *)
Summaries(query) ==
  LET Before(a, b) ==
        \/ events[a.last].sent > events[b.last].sent
        \/ events[a.last].sent = events[b.last].sent /\ a.shipment < b.shipment
  IN  InOrder({Summary(query, s) : s \in Selected(query)}, Before)

Rows(query) ==
  IF query.shipment = Never THEN Summaries(query) ELSE History(query, query.shipment)

Window(rows, query) ==
  SubSeq(rows, query.offset + 1, Min({query.offset + query.limit, Len(rows)}))

(* _validate_query; offset is (page - 1) * page_size.  Only the list of    *)
(* all has a search.                                                       *)
Queries ==
  {query \in
     {[shipment |-> s, search |-> search, status |-> status, date_from |-> 0,
       offset |-> (page - 1) * size, limit |-> size] :
        s \in Shipments \cup {Never}, search \in Phones \cup {None},
        status \in {None, "RECORDED"}, page \in 1..2, size \in {1, MaxPage}} :
   query.shipment = Never \/ query.search = None}

(* Variant: the page is selected before the total.                         *)
CountLast ==
  \/ /\ list.pc = "idle"
     /\ \E query \in Queries :
          list' = [pc |-> "page", query |-> query, items |-> Window(Rows(query), query), total |-> 0,
                   edited |-> {}]
     /\ UNCHANGED <<archived, phone, events, audits, lock, call, clock>>
  \/ /\ list.pc = "page"
     /\ list' = [list EXCEPT !.pc = "done", !.total = Len(Rows(list.query))]
     /\ UNCHANGED <<archived, phone, events, audits, lock, call, clock>>

(* list_sms_for_shipment and list_shipments_with_sms: the total, then the  *)
(* page.                                                                   *)
List ==
  \/ /\ list.pc = "idle"
     /\ \E query \in Queries :
          list' = [pc |-> "page", query |-> query, total |-> Len(Rows(query)), items |-> <<>>,
                   edited |-> {}]
     /\ UNCHANGED <<archived, phone, events, audits, lock, call, clock>>
  \/ /\ list.pc = "page"
     /\ list' = [list EXCEPT !.pc = "done", !.items = Window(Rows(list.query), list.query)]
     /\ UNCHANGED <<archived, phone, events, audits, lock, call, clock>>

CloseList ==
  /\ list.pc = "done"
  /\ list' = Idle
  /\ UNCHANGED <<archived, phone, events, audits, lock, call, clock>>

(* ----------------------- the rest of the program ----------------------- *)

Searching == list.pc = "page" /\ list.query.search # None

(* ShipmentService archives, restores or edits a shipment (committed).     *)
ChangeShipment ==
  /\ lock = Free
  /\ \E s \in Shipments :
       \/ /\ archived' \in {archived \cup {s}, archived \ {s}}
          /\ UNCHANGED <<phone, list>>
       \/ /\ \E p \in Phones : phone' = [phone EXCEPT ![s] = p]
          /\ list' = IF Searching THEN [list EXCEPT !.edited = @ \cup {s}] ELSE list
          /\ UNCHANGED archived
  /\ UNCHANGED <<events, audits, lock, call, clock>>

Tick ==
  /\ clock < MaxClock
  /\ clock' = clock + 1
  /\ UNCHANGED <<archived, phone, events, audits, lock, call, list>>

Record(t) ==
  \/ record_sms(t) \/ add(t) \/ commit(t) \/ Fail(t)

Next ==
  \/ \E t \in Threads : Record(t)
  \/ List \/ CloseList \/ ChangeShipment \/ Tick

Spec == Init /\ [][Next]_vars

(* ------------------------------ properties ----------------------------- *)

TypeOK ==
  /\ archived \subseteq Shipments /\ phone \in [Shipments -> Phones]
  /\ clock \in 1..MaxClock
  /\ lock \in Threads \cup {Free}
  /\ \A t \in Threads : call[t].pc = "commit" <=> lock = t
  /\ \A i \in DOMAIN events : events[i].phone \in Phones /\ events[i].sent \in 1..clock

(* Whatever passes validate_sms_event passes the CHECKs of the table: no   *)
(* event is lost to an integrity error.                                    *)
NoRefusedWrite == \A t \in Threads : call[t].pc = "flush" => Checks(call[t].event)

(* Each event has its audit event, whatever fails in between, and none     *)
(* speaks of an event that is not there.                                   *)
AuditPerEvent == audits = [i \in 1..Len(events) |-> i]

(* The total and the page are two SELECTs.  Events are only ever added and *)
(* stay as they are, so the page has at least the rows that the total      *)
(* promises for it; only of a search by recipient may there be fewer, by   *)
(* no more than the shipments whose recipient was edited in between.       *)
PageKeepsPromise ==
  list.pc = "done" =>
    \/ Len(list.items) = list.query.limit
    \/ list.query.offset + Len(list.items) + Cardinality(list.edited) >= list.total

(* The two lists agree on every shipment: the summary shows the event that *)
(* its history shows first, and counts as many.  Events are committed in   *)
(* another order than that of their times.                                 *)
ListsAgree ==
  \A status \in {None, "RECORDED"}, from \in {0, MaxClock}, s \in Shipments :
    LET query == [status |-> status, date_from |-> from]
        history == History(query, s)
    IN history # <<>> => /\ Summary(query, s).last = Head(history)
                         /\ Summary(query, s).count = Len(history)

=============================================================================
