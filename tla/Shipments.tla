----------------------------- MODULE Shipments ------------------------------
(***************************************************************************)
(* ShipmentService over SQLite: the calls of several pool threads (and of  *)
(* several running copies of the application) interleave statement by      *)
(* statement.                                                              *)
(*                                                                         *)
(* A call reads outside any transaction, each SELECT seeing the committed  *)
(* database of its own moment.  Its first INSERT or UPDATE takes the       *)
(* database's single write lock (or gives up with DatabaseBusyError), and  *)
(* from then on its writes collect in a draft nobody else sees, until      *)
(* commit() publishes the draft or any exception drops it.                 *)
(*                                                                         *)
(* Abstractions: a shipment carries only what the properties tell apart    *)
(* (recipient, payment and service columns change only together with the   *)
(* version, so the version stands for them); a text is "none", "short" (at *)
(* most STATUS_REASON_MAX_LENGTH) or "long" (more, yet at most             *)
(* PROBLEM_DESCRIPTION_MAX_LENGTH); the current-actor check of module      *)
(* _actor.py may refuse any call (Deny) and is modelled by module Users.   *)
(* save() re-reads the row it is about to update; a version it finds       *)
(* changed makes it raise the error that the guarded UPDATE raises, so the *)
(* two are the one guard of FlushShipment.                                 *)
(***************************************************************************)
EXTENDS Naturals, Sequences, FiniteSets, ShipmentWorkflow

CONSTANTS
  Workers,      \* threads that run service calls
  NoWorker,     \* the write lock is free
  Clients,      \* rows of the clients table
  NoClient,     \* a shipment or request without a sender client
  Operations,   \* the service calls the environment makes
  Targets,      \* statuses asked for by change_status and resolve_problem
  Texts,        \* lengths of the reasons and descriptions it passes
  MaxNumber,    \* SHIPMENT_NUMBER_MAX_VALUE
  MaxVersion,   \* bound: no further versioned call on a shipment at this version
  MaxChecks,    \* bound: no further weighing of a shipment with this many checks
  MaxClock      \* bound: the last clock value

OperationNames == {"create_shipment", "update_shipment", "change_status",
                   "archive_shipment", "restore_shipment", "report_problem",
                   "resolve_problem", "record_control_weight"}

ASSUME WorkersAssumption == NoWorker \notin Workers
ASSUME ClientsAssumption == NoClient \notin Clients
ASSUME OperationsAssumption == Operations \subseteq OperationNames
ASSUME TargetsAssumption == Targets \subseteq Statuses
ASSUME TextsAssumption == Texts \subseteq {"none", "short", "long"}
ASSUME BoundsAssumption == {MaxNumber, MaxVersion, MaxChecks, MaxClock} \subseteq Nat \ {0}

VARIABLES
  ledger,       \* committed tables: shipment number -> the rows about it
  next_value,   \* committed row of shipment_number_sequences
  active,       \* committed clients.active flags
  clock,        \* the wall clock, never set back
  lock,         \* the worker whose transaction holds the write lock
  pc,           \* what each worker does next
  request,      \* the call each worker is running
  tx            \* what each worker's call holds in memory and in its draft

vars == <<ledger, next_value, active, clock, lock, pc, request, tx>>

Never == 0      \* a NULL timestamp; the clock starts at 1
ServiceDefault == "DEFAULT"   \* resolve_problem without a recovery_status

(* -------------------------------- rows --------------------------------- *)

Row == [status: Statuses, archived: BOOLEAN, version: Nat,
        sorted_at: Nat, dispatched_at: Nat]
HistoryEntry == [old_status: Statuses, new_status: Statuses, at: Nat,
                 override: BOOLEAN]
Problem == [previous_status: Statuses, reported_at: Nat, resolved_at: Nat]
Shipment == [row: Row, client: Clients \cup {NoClient}, history: Seq(HistoryEntry),
             problems: Seq(Problem), checks: Nat, audits: Nat]

FirstRow == [status |-> "RECEIVED", archived |-> FALSE, version |-> 1,
             sorted_at |-> Never, dispatched_at |-> Never]
NoEntry == [old_status |-> "RECEIVED", new_status |-> "RECEIVED", at |-> Never,
            override |-> FALSE]
Received(client) == [row |-> FirstRow, client |-> client, history |-> <<>>,
                     problems |-> <<>>, checks |-> 0, audits |-> 0]

(* What a call carries: the entity to save, the history entry to add, the  *)
(* row number of the problem to resolve, the writes still to do, and the   *)
(* uncommitted rows of its shipment.                                       *)
Tables == {"number", "insert", "shipment", "problem", "resolution",
           "history", "check", "audit"}
Tx == [row: Row, entry: HistoryEntry, problem: Nat, todo: Seq(Tables),
       draft: Shipment]
Blank == [row |-> FirstRow, entry |-> NoEntry, problem |-> 0, todo |-> <<>>,
          draft |-> Received(NoClient)]

Request == [op: OperationNames \cup {"none"}, number: Nat, expected: Nat,
            target: Statuses \cup {ServiceDefault}, override: BOOLEAN,
            text: {"none", "short", "long"}, client: Clients \cup {NoClient}]
NoRequest == [op |-> "none", number |-> 0, expected |-> 0,
              target |-> ServiceDefault, override |-> FALSE, text |-> "none",
              client |-> NoClient]

TypeOK ==
  /\ next_value \in Nat
  /\ ledger \in [DOMAIN ledger -> Shipment]
  /\ DOMAIN ledger \subseteq Nat
  /\ active \in [Clients -> BOOLEAN]
  /\ clock \in Nat
  /\ lock \in Workers \cup {NoWorker}
  /\ pc \in [Workers -> {"idle", "read", "problem", "write"}]
  /\ request \in [Workers -> Request]
  /\ tx \in [Workers -> Tx]

Init ==
  /\ ledger = <<>>
  /\ next_value = 1
  /\ active = [c \in Clients |-> TRUE]
  /\ clock = 1
  /\ lock = NoWorker
  /\ pc = [w \in Workers |-> "idle"]
  /\ request = [w \in Workers |-> NoRequest]
  /\ tx = [w \in Workers |-> Blank]

(* ------------------------------ one call ------------------------------- *)

(* The UI passes the version it displayed: current, or as stale as the     *)
(* editor that stayed open.                                                *)
Ask(w, r) ==
  /\ pc[w] = "idle"
  /\ r.op \in Operations
  /\ pc' = [pc EXCEPT ![w] = "read"]
  /\ request' = [request EXCEPT ![w] = r]
  /\ UNCHANGED <<ledger, next_value, active, clock, lock, tx>>

AskVersioned(w, r) ==
  \E n \in DOMAIN ledger :
    /\ ledger[n].row.version < MaxVersion
    /\ \E v \in 1 .. ledger[n].row.version :
         Ask(w, [r EXCEPT !.number = n, !.expected = v])

SubmitCreate(w) ==
  \E c \in Clients \cup {NoClient} :
    Ask(w, [NoRequest EXCEPT !.op = "create_shipment", !.client = c])

SubmitPlain(w) ==
  \E op \in {"update_shipment", "archive_shipment", "restore_shipment"} :
    AskVersioned(w, [NoRequest EXCEPT !.op = op])

SubmitStatus(w) ==
  \E t \in Targets, o \in BOOLEAN, x \in Texts :
    AskVersioned(w, [NoRequest EXCEPT !.op = "change_status", !.target = t,
                                      !.override = o, !.text = x])

SubmitReport(w) ==
  \E x \in Texts : AskVersioned(w, [NoRequest EXCEPT !.op = "report_problem", !.text = x])

SubmitResolve(w) ==
  \E t \in Targets \cup {ServiceDefault}, x \in Texts :
    AskVersioned(w, [NoRequest EXCEPT !.op = "resolve_problem", !.target = t, !.text = x])

SubmitCheck(w) ==
  \E n \in DOMAIN ledger :
    /\ ledger[n].checks < MaxChecks
    /\ Ask(w, [NoRequest EXCEPT !.op = "record_control_weight", !.number = n])

(* Variant: __exit__ closes the session without a rollback.                *)
ReturnHoldingLock(w) ==
  /\ pc' = [pc EXCEPT ![w] = "idle"]
  /\ request' = [request EXCEPT ![w] = NoRequest]
  /\ tx' = [tx EXCEPT ![w] = Blank]
  /\ UNCHANGED <<ledger, next_value, active, clock, lock>>

(* The unit of work ends without commit: __exit__ rolls back and closes.   *)
Return(w) ==
  /\ pc' = [pc EXCEPT ![w] = "idle"]
  /\ request' = [request EXCEPT ![w] = NoRequest]
  /\ tx' = [tx EXCEPT ![w] = Blank]
  /\ lock' = IF lock = w THEN NoWorker ELSE lock
  /\ UNCHANGED <<ledger, next_value, active, clock>>

Reading(w, op) == pc[w] = "read" /\ request[w].op = op

StoredRow(w) == ledger[request[w].number].row

(* The reads are done and every check passed: what is left is to write.    *)
Prepare(w, row, entry, problem, todo) ==
  /\ pc' = [pc EXCEPT ![w] = "write"]
  /\ tx' = [tx EXCEPT ![w] = [Blank EXCEPT !.row = row, !.entry = entry,
                                           !.problem = problem, !.todo = todo]]
  /\ UNCHANGED <<ledger, next_value, active, clock, lock, request>>

(* Variants: the check is missing.                                         *)
ArchiveUnchecked(row) == TRUE
VersionUnchecked(row, r) == TRUE

require_operational(row) == ~row.archived

require_expected_version(row, r) == row.version = r.expected

(* Variant: every entry into the status stamps it anew.                    *)
StampAgain(row, target, now) ==
  [row EXCEPT !.status = target,
              !.sorted_at = IF target = "SORTING" THEN now ELSE @,
              !.dispatched_at = IF target = "DISPATCHED" THEN now ELSE @]

apply_status(row, target, now) ==
  [row EXCEPT
     !.status = target,
     !.sorted_at = IF target = "SORTING" /\ @ = Never THEN now ELSE @,
     !.dispatched_at = IF target = "DISPATCHED" /\ @ = Never THEN now ELSE @]

StatusEntry(old, new, override) ==
  [old_status |-> old, new_status |-> new, at |-> clock, override |-> override]

OpenProblems(problems) == {i \in DOMAIN problems : problems[i].resolved_at = Never}

(* ------------------------- the service methods ------------------------- *)

(* The sender client is read, and found active, before the first write.    *)
create_shipment(w) ==
  /\ Reading(w, "create_shipment")
  /\ IF request[w].client \in Clients => active[request[w].client]
     THEN Prepare(w, FirstRow, NoEntry, 0, <<"number", "insert", "audit">>)
     ELSE Return(w)

(* No version check, and no version step: a weighing only adds a row.  The *)
(* shipment may lack a declared weight.                                    *)
record_control_weight(w) ==
  /\ Reading(w, "record_control_weight")
  /\ \E declared \in BOOLEAN :
     IF declared /\ require_operational(StoredRow(w))
     THEN Prepare(w, StoredRow(w), NoEntry, 0, <<"check", "audit">>)
     ELSE Return(w)

update_shipment(w) ==
  /\ Reading(w, "update_shipment")
  /\ IF /\ require_operational(StoredRow(w))
        /\ require_expected_version(StoredRow(w), request[w])
     THEN Prepare(w, StoredRow(w), NoEntry, 0, <<"shipment", "audit">>)
     ELSE Return(w)

(* Variants: an override leaves an open problem behind; an override needs  *)
(* no reason.                                                              *)
OverrideProblem(w) ==
  LET row == StoredRow(w)
      r == request[w]
  IN /\ Reading(w, "change_status")
     /\ IF /\ require_operational(row)
           /\ r.target \notin {row.status, "PROBLEM"}
           /\ require_expected_version(row, r)
           /\ r.override
        THEN Prepare(w, apply_status(row, r.target, clock),
                     StatusEntry(row.status, r.target, TRUE),
                     0, <<"shipment", "history", "audit">>)
        ELSE Return(w)

OverrideWithoutReason(w) ==
  LET row == StoredRow(w)
      r == request[w]
  IN /\ Reading(w, "change_status")
     /\ IF /\ require_operational(row)
           /\ r.target \notin {row.status, "PROBLEM"}
           /\ require_expected_version(row, r)
           /\ row.status # "PROBLEM"
           /\ r.override
        THEN Prepare(w, apply_status(row, r.target, clock),
                     StatusEntry(row.status, r.target, TRUE),
                     0, <<"shipment", "history", "audit">>)
        ELSE Return(w)

(* A request for the status the shipment already has returns unchanged     *)
(* before the version is looked at.  An override needs a reason, and only  *)
(* an unlawful move is recorded as one.                                    *)
change_status(w) ==
  LET row == StoredRow(w)
      r == request[w]
      valid == can_transition(row.status, r.target)
      is_override == ~valid /\ r.override
  IN /\ Reading(w, "change_status")
     /\ IF /\ require_operational(row)
           /\ row.status # r.target
           /\ r.target # "PROBLEM"
           /\ require_expected_version(row, r)
           /\ row.status # "PROBLEM"
           /\ r.text # "long"
           /\ is_override => r.text # "none"
           /\ valid \/ r.override
        THEN Prepare(w, apply_status(row, r.target, clock),
                     StatusEntry(row.status, r.target, is_override),
                     0, <<"shipment", "history", "audit">>)
        ELSE Return(w)

(* Archiving and restoring are allowed in every status.                    *)
set_archived(w) ==
  LET row == StoredRow(w)
      archive == request[w].op = "archive_shipment"
  IN /\ pc[w] = "read"
     /\ request[w].op \in {"archive_shipment", "restore_shipment"}
     /\ IF /\ require_expected_version(row, request[w])
           /\ row.archived # archive
        THEN Prepare(w, [row EXCEPT !.archived = archive], NoEntry, 0,
                     <<"shipment", "audit">>)
        ELSE Return(w)

(* report_problem and resolve_problem read the shipment first and the open *)
(* problem in a later SELECT, which may see a later database.              *)
ReadForProblem(w) ==
  LET row == StoredRow(w)
      resolving == request[w].op = "resolve_problem"
  IN /\ pc[w] = "read"
     /\ request[w].op \in {"report_problem", "resolve_problem"}
     /\ IF /\ require_operational(row)
           /\ require_expected_version(row, request[w])
           /\ resolving => row.status = "PROBLEM" /\ request[w].text # "long"
        THEN /\ pc' = [pc EXCEPT ![w] = "problem"]
             /\ tx' = [tx EXCEPT ![w].row = row]
             /\ UNCHANGED <<ledger, next_value, active, clock, lock, request>>
        ELSE Return(w)

(* The description of the report becomes the reason of the history entry.  *)
report_problem(w) ==
  LET row == tx[w].row
  IN /\ pc[w] = "problem"
     /\ request[w].op = "report_problem"
     /\ IF /\ OpenProblems(ledger[request[w].number].problems) = {}
           /\ can_transition(row.status, "PROBLEM")
        THEN Prepare(w, apply_status(row, "PROBLEM", clock),
                     StatusEntry(row.status, "PROBLEM", FALSE),
                     0, <<"shipment", "problem", "history", "audit">>)
        ELSE Return(w)

(* Variant: the recovery status is taken as it comes.                      *)
RecoverAnywhere(w) ==
  /\ pc[w] = "problem"
  /\ request[w].op = "resolve_problem"
  /\ \E p \in OpenProblems(ledger[request[w].number].problems) :
       Prepare(w, apply_status(tx[w].row, request[w].target, clock),
               StatusEntry("PROBLEM", request[w].target, FALSE),
               p, <<"resolution", "shipment", "history", "audit">>)

resolve_problem(w) ==
  LET row == tx[w].row
      problems == ledger[request[w].number].problems
      Resolved(p, target) ==
        Prepare(w, apply_status(row, target, clock),
                StatusEntry("PROBLEM", target, FALSE),
                p, <<"resolution", "shipment", "history", "audit">>)
  IN /\ pc[w] = "problem"
     /\ request[w].op = "resolve_problem"
     /\ \/ /\ OpenProblems(problems) = {}
           /\ Return(w)
        \/ \E p \in OpenProblems(problems) :
             LET previous == problems[p].previous_status
                 target == IF request[w].target = ServiceDefault
                           THEN previous ELSE request[w].target
             IN IF can_recover(previous, target) THEN Resolved(p, target)
                                                 ELSE Return(w)

(* --------------------------- the transaction --------------------------- *)

(* The first write takes the lock and starts from the database committed   *)
(* by then; the later ones continue the draft.                             *)
Draft(w) == IF lock = w THEN tx[w].draft ELSE ledger[request[w].number]

Writing(w, table) ==
  /\ pc[w] = "write"
  /\ tx[w].todo # <<>>
  /\ Head(tx[w].todo) = table
  /\ lock \in {w, NoWorker}

Written(w, draft) ==
  /\ lock' = w
  /\ tx' = [tx EXCEPT ![w].draft = draft, ![w].todo = Tail(@)]
  /\ UNCHANGED <<ledger, next_value, active, clock, pc>>

(* Variant: the number is taken in a transaction of its own.               *)
AllocateOutside(w) ==
  /\ Writing(w, "number")
  /\ next_value <= MaxNumber
  /\ request' = [request EXCEPT ![w].number = next_value]
  /\ next_value' = next_value + 1
  /\ lock' = w
  /\ tx' = [tx EXCEPT ![w].draft = Received(request[w].client), ![w].todo = Tail(@)]
  /\ UNCHANGED <<ledger, active, clock, pc>>

(* One UPDATE hands out the next number, unless the capacity is used up.   *)
allocate(w) ==
  /\ Writing(w, "number")
  /\ IF next_value <= MaxNumber
     THEN /\ request' = [request EXCEPT ![w].number = next_value]
          /\ Written(w, Received(request[w].client))
     ELSE Return(w)

(* tracking_number_normalized is unique.                                   *)
UniqueNumber(w) == request[w].number \notin DOMAIN ledger

FlushInsert(w) ==
  /\ Writing(w, "insert")
  /\ IF UniqueNumber(w)
     THEN Written(w, tx[w].draft) /\ UNCHANGED request
     ELSE Return(w)

(* Variant: no version_id_col, the UPDATE matches by id alone.             *)
FlushUnguarded(w) ==
  /\ Writing(w, "shipment")
  /\ Written(w, [Draft(w) EXCEPT !.row = [tx[w].row EXCEPT !.version = @ + 1]])
  /\ UNCHANGED request

(* UPDATE shipments ... WHERE id = ? AND version = ?, from version_id_col. *)
FlushShipment(w) ==
  /\ Writing(w, "shipment")
  /\ IF Draft(w).row.version = tx[w].row.version
     THEN /\ Written(w, [Draft(w) EXCEPT !.row = [tx[w].row EXCEPT !.version = @ + 1]])
          /\ UNCHANGED request
     ELSE Return(w)

(* The partial unique index admits one unresolved problem a shipment.      *)
NoneOpen(w) == OpenProblems(Draft(w).problems) = {}

add_problem(w) ==
  /\ Writing(w, "problem")
  /\ IF NoneOpen(w)
     THEN /\ Written(w, [Draft(w) EXCEPT !.problems =
                 Append(@, [previous_status |-> tx[w].entry.old_status,
                            reported_at |-> tx[w].entry.at, resolved_at |-> Never])])
          /\ UNCHANGED request
     ELSE Return(w)

(* CHECK resolution_consistent: not resolved before it was reported.       *)
ResolutionConsistent(w) ==
  tx[w].entry.at >= Draft(w).problems[tx[w].problem].reported_at

save_problem(w) ==
  /\ Writing(w, "resolution")
  /\ IF ResolutionConsistent(w)
     THEN /\ Written(w, [Draft(w) EXCEPT
                 !.problems[tx[w].problem].resolved_at = tx[w].entry.at])
          /\ UNCHANGED request
     ELSE Return(w)

(* CHECKs status_changed, override_reason_required and reason_length, on   *)
(* the entry and the reason that is stored with it.                        *)
HistoryChecks(w) ==
  /\ tx[w].entry.old_status # tx[w].entry.new_status
  /\ tx[w].entry.override => request[w].text # "none"
  /\ request[w].text # "long"

add_history(w) ==
  /\ Writing(w, "history")
  /\ IF HistoryChecks(w)
     THEN /\ Written(w, [Draft(w) EXCEPT !.history = Append(@, tx[w].entry)])
          /\ UNCHANGED request
     ELSE Return(w)

add_weight_check(w) ==
  /\ Writing(w, "check")
  /\ Written(w, [Draft(w) EXCEPT !.checks = @ + 1])
  /\ UNCHANGED request

add_audit(w) ==
  /\ Writing(w, "audit")
  /\ Written(w, [Draft(w) EXCEPT !.audits = @ + 1])
  /\ UNCHANGED request

commit(w) ==
  LET n == request[w].number
  IN /\ pc[w] = "write"
     /\ tx[w].todo = <<>>
     /\ ledger' = [m \in DOMAIN ledger \cup {n} |->
                     IF m = n THEN tx[w].draft ELSE ledger[m]]
     /\ next_value' = IF request[w].op = "create_shipment" THEN n + 1 ELSE next_value
     /\ lock' = NoWorker
     /\ pc' = [pc EXCEPT ![w] = "idle"]
     /\ request' = [request EXCEPT ![w] = NoRequest]
     /\ tx' = [tx EXCEPT ![w] = Blank]
     /\ UNCHANGED <<active, clock>>

(* busy_timeout passed while another transaction held the lock.            *)
Busy(w) ==
  /\ pc[w] = "write"
  /\ lock \notin {w, NoWorker}
  /\ Return(w)

(* ----------------------------- environment ----------------------------- *)

(* require_current_actor refuses the call.                                 *)
Deny(w) ==
  /\ pc[w] = "read"
  /\ Return(w)

(* Variant: each statement is committed as it is executed.                 *)
FailAfterAutocommit(w) ==
  /\ lock = w
  /\ ledger' = [m \in DOMAIN ledger \cup {request[w].number} |->
                  IF m = request[w].number THEN tx[w].draft ELSE ledger[m]]
  /\ lock' = NoWorker
  /\ pc' = [pc EXCEPT ![w] = "idle"]
  /\ request' = [request EXCEPT ![w] = NoRequest]
  /\ tx' = [tx EXCEPT ![w] = Blank]
  /\ UNCHANGED <<next_value, active, clock>>

(* A statement or the commit of an open transaction fails (disk full).     *)
Fail(w) ==
  /\ lock = w
  /\ Return(w)

(* The process dies: what was not committed is gone.                       *)
Crash ==
  /\ \E w \in Workers : pc[w] # "idle"
  /\ pc' = [w \in Workers |-> "idle"]
  /\ request' = [w \in Workers |-> NoRequest]
  /\ tx' = [w \in Workers |-> Blank]
  /\ lock' = NoWorker
  /\ UNCHANGED <<ledger, next_value, active, clock>>

Tick ==
  /\ clock < MaxClock
  /\ clock' = clock + 1
  /\ UNCHANGED <<ledger, next_value, active, lock, pc, request, tx>>

(* ClientService._set_active in a transaction of its own.                  *)
set_active ==
  /\ lock = NoWorker
  /\ \E c \in Clients : active' = [active EXCEPT ![c] = ~@]
  /\ UNCHANGED <<ledger, next_value, clock, lock, pc, request, tx>>

(* ---------------------------- specification ---------------------------- *)

Submit(w) ==
  \/ SubmitCreate(w) \/ SubmitPlain(w) \/ SubmitStatus(w)
  \/ SubmitReport(w) \/ SubmitResolve(w) \/ SubmitCheck(w)

Service(w) ==
  \/ create_shipment(w) \/ record_control_weight(w) \/ update_shipment(w)
  \/ change_status(w) \/ set_archived(w) \/ ReadForProblem(w)
  \/ report_problem(w) \/ resolve_problem(w)

Write(w) ==
  \/ allocate(w) \/ FlushInsert(w) \/ FlushShipment(w) \/ add_problem(w)
  \/ save_problem(w) \/ add_history(w) \/ add_weight_check(w) \/ add_audit(w)

(* What a worker's thread does by itself, once it has a call.              *)
Run(w) == Service(w) \/ Write(w) \/ commit(w) \/ Busy(w)

Next ==
  \/ \E w \in Workers : Submit(w) \/ Run(w) \/ Deny(w) \/ Fail(w)
  \/ Crash \/ Tick \/ set_active

Spec == Init /\ [][Next]_vars

(* A pool thread that has a call keeps running it, and SQLite gives it the *)
(* free lock or times it out; nobody has to make a call.                   *)
FairSpec == Spec /\ \A w \in Workers : WF_vars(Run(w))

(* ----------------------------- properties ------------------------------ *)

(* The history of every shipment starts at RECEIVED, each entry starts     *)
(* where the one before ended and not earlier, and the last one ends at    *)
(* the shipment's status: concurrent status changes never fork or skip.    *)
HistoryIsChain ==
  \A n \in DOMAIN ledger :
    LET history == ledger[n].history
        Before(i) == IF i = 1 THEN "RECEIVED" ELSE history[i-1].new_status
    IN /\ \A i \in DOMAIN history :
            /\ history[i].old_status = Before(i)
            /\ i > 1 => history[i-1].at <= history[i].at
       /\ ledger[n].row.status = Before(Len(history) + 1)

(* A shipment stands at PROBLEM exactly while one problem is unresolved,   *)
(* and that problem captured the status the last entry left.               *)
ProblemMatchesStatus ==
  \A n \in DOMAIN ledger :
    LET s == ledger[n]
        open == OpenProblems(s.problems)
    IN IF s.row.status = "PROBLEM"
       THEN \E p \in open :
              /\ open = {p}
              /\ s.problems[p].previous_status = s.history[Len(s.history)].old_status
       ELSE open = {}

(* sorted_at and dispatched_at hold the moment of the first entry into the *)
(* status, whatever happened to the shipment since, or nothing if it never *)
(* was there.                                                              *)
StampsMatchHistory ==
  \A n \in DOMAIN ledger :
    LET history == ledger[n].history
        First(status, at) ==
          \/ /\ at = Never
             /\ \A i \in DOMAIN history : history[i].new_status # status
          \/ \E i \in DOMAIN history :
               /\ history[i].new_status = status
               /\ history[i].at = at
               /\ \A j \in 1 .. i-1 : history[j].new_status # status
    IN /\ First("SORTING", ledger[n].row.sorted_at)
       /\ First("DISPATCHED", ledger[n].row.dispatched_at)

(* Audit events are neither lost nor doubled: one for the creation and for *)
(* every version since, one for every weighing.                            *)
AuditComplete ==
  \A n \in DOMAIN ledger : ledger[n].audits = ledger[n].row.version + ledger[n].checks

(* Numbers are handed out without gap or repetition: the committed         *)
(* shipments hold exactly the numbers below next_value, so a number taken  *)
(* by a call that failed is handed out again, and no other one is.         *)
NumbersInOrder == DOMAIN ledger = 1 .. next_value - 1

(* What the validation of a call admits, the database accepts: no CHECK    *)
(* and no unique index refuses a write the call still has to do.           *)
NoRefusedWrite ==
  \A w \in Workers :
    /\ Writing(w, "insert") => UniqueNumber(w)
    /\ Writing(w, "problem") /\ Draft(w).row.version = tx[w].row.version + 1 => NoneOpen(w)
    /\ Writing(w, "resolution") => ResolutionConsistent(w)
    /\ Writing(w, "history") => HistoryChecks(w)

(* A commit publishes a change of the version its caller displayed, never  *)
(* of one committed in between: no editor overwrites another's work.       *)
NoStaleOverwrite ==
  [][\A w \in Workers, n \in DOMAIN ledger :
       commit(w) /\ ledger'[n].row # ledger[n].row
         => /\ request[w].number = n
            /\ request[w].expected = ledger[n].row.version
            /\ ledger'[n].row.version = request[w].expected + 1]_vars

(* An archived shipment does not change, in any of its tables, until it is *)
(* restored.                                                               *)
ArchivedFrozen ==
  [][\A n \in DOMAIN ledger :
       ledger[n].row.archived /\ ledger'[n] # ledger[n]
         => /\ ~ledger'[n].row.archived
            /\ ledger'[n].row.status = ledger[n].row.status
            /\ ledger'[n].history = ledger[n].history
            /\ ledger'[n].problems = ledger[n].problems
            /\ ledger'[n].checks = ledger[n].checks]_vars

(* Inactive clients cannot be used for new shipments.                      *)
ClientActiveAtIntake ==
  [][\A n \in DOMAIN ledger' \ DOMAIN ledger :
       ledger'[n].client \in Clients => active[ledger'[n].client]]_vars

(* Every call comes back, with a result or an error, and a call that is    *)
(* back no longer holds the write lock.                                    *)
CallsReturn ==
  \A w \in Workers :
    (pc[w] # "idle" \/ lock = w) ~> (pc[w] = "idle" /\ lock # w)

(* ------------------------------ refinement ----------------------------- *)

EntryView(entry) == [to |-> entry.new_status, override |-> entry.override]

Trail(history) ==
  [i \in 1 .. Len(history) + 1 |->
     IF i = 1 THEN [to |-> "RECEIVED", override |-> FALSE] ELSE EntryView(history[i-1])]

Open(problems) ==
  [captured \in Statuses |->
     Cardinality({p \in OpenProblems(problems) : problems[p].previous_status = captured})]

ShipmentView(s) ==
  [trail |-> Trail(s.history), archived |-> s.row.archived, version |-> s.row.version,
   open |-> Open(s.problems), notes |-> s.checks]

Book == [n \in DOMAIN ledger |-> ShipmentView(ledger[n])]

Ledger == INSTANCE ShipmentLedger WITH book <- Book

(* Whatever the threads, the crashes and the time-outs do, the committed   *)
(* database moves only by the atomic lawful steps of ShipmentLedger.       *)
LedgerSpec == Ledger!Spec
=============================================================================
