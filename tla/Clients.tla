------------------------------ MODULE Clients -------------------------------
(***************************************************************************)
(* The contract clients: calls of ClientService on the clients table.  An  *)
(* account may have several calls under way: a session is shared by all    *)
(* pages and pool threads, and a user may have signed in at several desks. *)
(*                                                                         *)
(* A call checks its actor, reads the client, reads it again in save, and  *)
(* takes the write lock only with its INSERT or UPDATE.  The three reads   *)
(* see whatever is committed by then.  The UPDATE names only the columns   *)
(* whose wanted value differs from the second read; no version guards it.  *)
(*                                                                         *)
(* Left out: the texts of the columns other than the code (one value       *)
(* stands for all of them), timestamps, and the reads that only display.   *)
(***************************************************************************)
EXTENDS Integers, Sequences, FiniteSets

CONSTANTS
  Threads,       \* calls at the same time
  Accounts,      \* users in whose sessions they are made
  Codes,         \* client codes as stored, spaces and case included
  Canonical(_),  \* normalize_client_code
  Details,       \* values of the other text columns
  Days,          \* contract dates; 0 is NULL
  MaxClients,    \* bound: rows of the table
  MaxCommits     \* bound: audit events

ASSUME DaysAssumption == Days \subseteq Nat
ASSUME BoundsAssumption == {MaxClients, MaxCommits} \subseteq Nat

VARIABLES
  clients,     \* the clients table
  audits,      \* the audit events of clients
  lock,        \* the thread that holds the write lock, if any
  call,        \* what each thread is doing
  message,     \* what the page shows of the last call that ended
  authorized,  \* accounts that are current and may manage clients
  admitted     \* history: calls past the check when their account lost the right

vars == <<clients, audits, lock, call, message, authorized, admitted>>

Free == "free"
NoDate == 0

ASSUME ThreadsAssumption == Free \notin Threads

Client == [code : Codes, normalized : {Canonical(c) : c \in Codes}, details : Details,
           contract_start : Days, contract_end : Days, active : BOOLEAN]

(* ValidatedClientFields, as the form sends them before validation: Bad    *)
(* stands for a text that is missing, too long, not an address and so on.  *)
Bad == "bad"
Form == [code : Codes, details : Details \cup {Bad}, contract_start : Days, contract_end : Days]

DatesOrdered(r) ==
  NoDate \in {r.contract_start, r.contract_end} \/ r.contract_end >= r.contract_start

validate_client_fields(form) ==
  form.details # Bad /\ DatesOrdered(form)

(* Client.__post_init__: the normalized code is computed from the code.    *)
NewClient(form, active) ==
  [code |-> form.code, normalized |-> Canonical(form.code), details |-> form.details,
   contract_start |-> form.contract_start, contract_end |-> form.contract_end,
   active |-> active]

Actions == {"CLIENT_CREATED", "CLIENT_UPDATED", "CLIENT_ACTIVATED", "CLIENT_DEACTIVATED"}

(* translate_error: an error without a message of its own is "unexpected". *)
Messages == {"none", "refused", "busy", "unexpected"}

(* The local state of a call: read and seen are its two reads, wanted is   *)
(* the entity it saves, draft the row in its transaction.  quiet is        *)
(* history: nobody else has committed since the call began.                *)
Idle == [pc |-> "idle", action |-> "CLIENT_CREATED", id |-> 0]

Init ==
  /\ clients = <<>> /\ audits = <<>> /\ lock = Free
  /\ call = [t \in Threads |-> Idle] /\ message = "none"
  /\ authorized = Accounts /\ admitted = {}

At(t, pc) == call[t].pc = pc

Answer(t, answer) ==
  /\ call' = [call EXCEPT ![t] = Idle]
  /\ message' = answer
  /\ lock' = IF lock = t THEN Free ELSE lock
  /\ admitted' = admitted \ {t}

(* ------------------------------ the calls ------------------------------ *)

(* create_client validates first, outside the transaction.                 *)
create_client(t, a, form) ==
  /\ At(t, "idle")
  /\ Len(clients) < MaxClients
  /\ validate_client_fields(form)
  /\ call' = [call EXCEPT ![t] =
       [pc |-> "actor", action |-> "CLIENT_CREATED", id |-> 0, by |-> a, quiet |-> TRUE,
        form |-> form]]
  /\ UNCHANGED <<clients, audits, lock, message, authorized, admitted>>

update_client(t, a, id, form) ==
  /\ At(t, "idle")
  /\ call' = [call EXCEPT ![t] =
       [pc |-> "actor", action |-> "CLIENT_UPDATED", id |-> id, by |-> a, quiet |-> TRUE,
        form |-> form]]
  /\ UNCHANGED <<clients, audits, lock, message, authorized, admitted>>

(* activate_client and deactivate_client.                                  *)
set_active(t, a, id, active) ==
  /\ At(t, "idle")
  /\ call' = [call EXCEPT ![t] =
       [pc |-> "actor", id |-> id, by |-> a, quiet |-> TRUE,
        action |-> IF active THEN "CLIENT_ACTIVATED" ELSE "CLIENT_DEACTIVATED"]]
  /\ UNCHANGED <<clients, audits, lock, message, authorized, admitted>>

(* Variant: the session alone is believed.                                 *)
ActorBelieved(t) ==
  /\ At(t, "actor")
  /\ call' = [call EXCEPT ![t].pc = "read"]
  /\ UNCHANGED <<clients, audits, lock, message, authorized, admitted>>

(* The account is read once, before anything else.                         *)
require_current_actor(t) ==
  /\ At(t, "actor")
  /\ IF call[t].by \in authorized
     THEN call' = [call EXCEPT ![t].pc = "read"] /\ UNCHANGED <<lock, message, admitted>>
     ELSE Answer(t, "refused")
  /\ UNCHANGED <<clients, audits, authorized>>

Save(t, wanted) ==
  /\ call' = [call EXCEPT ![t] =
       [pc |-> "save", action |-> @.action, id |-> @.id, by |-> @.by, quiet |-> @.quiet,
        wanted |-> wanted]]
  /\ UNCHANGED <<lock, message, admitted>>

(* Variant: the new entity gets the default of its active field.           *)
EditedAnew(existing, form) == NewClient(form, TRUE)

(* The entity update_client builds.                                        *)
Edited(existing, form) == NewClient(form, existing.active)

(* The first read and what follows from it: the entity to save.            *)
ReadClient(t) ==
  /\ At(t, "read")
  /\ CASE call[t].action = "CLIENT_CREATED" -> Save(t, NewClient(call[t].form, TRUE))
       [] call[t].action = "CLIENT_UPDATED" ->
            IF validate_client_fields(call[t].form)
            THEN Save(t, Edited(clients[call[t].id], call[t].form))
            ELSE Answer(t, "refused")
       [] OTHER ->
            LET active == call[t].action = "CLIENT_ACTIVATED"
            IN IF clients[call[t].id].active # active
               THEN Save(t, [clients[call[t].id] EXCEPT !.active = active])
               ELSE Answer(t, "refused")
  /\ UNCHANGED <<clients, audits, authorized>>

(* save reads the row again, into the object it is going to change.        *)
ReadAgain(t) ==
  /\ At(t, "save") /\ call[t].id # 0
  /\ call' = [call EXCEPT ![t] =
       [pc |-> "update", action |-> @.action, id |-> @.id, by |-> @.by, quiet |-> @.quiet,
        wanted |-> @.wanted, seen |-> clients[@.id]]]
  /\ UNCHANGED <<clients, audits, lock, message, authorized, admitted>>

(* ----------------------------- the writes ------------------------------ *)

(* The UPDATE of the columns that differ from the second read.             *)
Updated(stored, seen, wanted) ==
  [column \in DOMAIN stored |->
     IF wanted[column] = seen[column] THEN stored[column] ELSE wanted[column]]

(* Variant: the code is looked up by the service when it reads.            *)
Unreserved(row, id) == FALSE

Reserved(row, id) ==
  \E i \in DOMAIN clients : i # id /\ clients[i].normalized = row.normalized

Written(t, row, id) ==
  /\ lock' = t
  /\ call' = [call EXCEPT ![t] =
       [pc |-> "commit", action |-> @.action, id |-> id, by |-> @.by, quiet |-> @.quiet,
        wanted |-> @.wanted, draft |-> row]]
  /\ UNCHANGED <<message, admitted>>

(* A write that finds the lock taken waits; after the busy time-out it     *)
(* raises an error that _flush does not translate.                         *)
LockTimeOut(t) ==
  /\ At(t, "update") \/ (At(t, "save") /\ call[t].id = 0)
  /\ lock # Free
  /\ Answer(t, "unexpected")
  /\ UNCHANGED <<clients, audits, authorized>>

(* SqlAlchemyClientRepository.add.                                         *)
add(t) ==
  /\ At(t, "save") /\ call[t].id = 0 /\ lock = Free
  /\ LET row == call[t].wanted IN
       IF Reserved(row, 0) THEN Answer(t, "refused")
                           ELSE Written(t, row, Len(clients) + 1)
  /\ UNCHANGED <<clients, audits, authorized>>

(* Variant: the table has no CHECK on the contract dates.                  *)
SaveUnchecked(t) ==
  /\ At(t, "update") /\ lock = Free
  /\ LET row == Updated(clients[call[t].id], call[t].seen, call[t].wanted) IN
       IF Reserved(row, call[t].id) THEN Answer(t, "refused") ELSE Written(t, row, call[t].id)
  /\ UNCHANGED <<clients, audits, authorized>>

(* SqlAlchemyClientRepository.save, from its flush on.                     *)
save(t) ==
  /\ At(t, "update") /\ lock = Free
  /\ LET row == Updated(clients[call[t].id], call[t].seen, call[t].wanted) IN
       CASE Reserved(row, call[t].id) -> Answer(t, "refused")
         [] ~Reserved(row, call[t].id) /\ ~DatesOrdered(row) -> Answer(t, "unexpected")
         [] OTHER -> Written(t, row, call[t].id)
  /\ UNCHANGED <<clients, audits, authorized>>

Disturbed(u, t) ==
  IF u # t /\ call[u].pc # "idle" THEN [call[u] EXCEPT !.quiet = FALSE] ELSE call[u]

(* Variant: the audit event has a transaction of its own, which may fail.  *)
AuditApart(event) == audits' \in {audits, Append(audits, event)}

AuditAdded(event) == audits' = Append(audits, event)

(* The audit event joins the transaction, and the commit succeeds.         *)
commit(t) ==
  /\ At(t, "commit")
  /\ Len(audits) < MaxCommits
  /\ LET id == call[t].id IN
       /\ clients' = IF id > Len(clients) THEN Append(clients, call[t].draft)
                     ELSE [clients EXCEPT ![id] = call[t].draft]
       /\ AuditAdded([action |-> call[t].action, id |-> id])
  /\ call' = [u \in Threads |-> IF u = t THEN Idle ELSE Disturbed(u, t)]
  /\ lock' = Free /\ message' = "none"
  /\ admitted' = admitted \ {t}
  /\ UNCHANGED authorized

(* Variant: the transaction is left open.                                  *)
FailWithoutRollback(t) ==
  /\ call[t].pc # "idle"
  /\ call' = [call EXCEPT ![t] = Idle] /\ message' = "unexpected"
  /\ UNCHANGED <<clients, audits, lock, authorized, admitted>>

(* A statement or the commit fails, or the process dies: rolled back.      *)
Fail(t) ==
  /\ call[t].pc # "idle"
  /\ Answer(t, "unexpected")
  /\ UNCHANGED <<clients, audits, authorized>>

PastCheck(t) == call[t].pc \notin {"idle", "actor"}

(* An administrator deactivates, archives, demotes or resets the account.  *)
Revoke(a) ==
  /\ a \in authorized
  /\ authorized' = authorized \ {a}
  /\ admitted' = admitted \cup {t \in Threads : PastCheck(t) /\ call[t].by = a}
  /\ UNCHANGED <<clients, audits, lock, call, message>>

(* It is activated, restored or promoted; its sessions are current again.  *)
Restore(a) ==
  /\ a \in Accounts \ authorized
  /\ authorized' = authorized \cup {a}
  /\ admitted' = {t \in admitted : call[t].by # a}
  /\ UNCHANGED <<clients, audits, lock, call, message>>

Step(t) ==
  \/ require_current_actor(t) \/ ReadClient(t) \/ ReadAgain(t)
  \/ LockTimeOut(t) \/ add(t) \/ save(t) \/ commit(t)

Request(t) ==
  \E a \in Accounts :
    \/ \E form \in Form : create_client(t, a, form)
    \/ \E id \in DOMAIN clients :
         \/ \E form \in Form : update_client(t, a, id, form)
         \/ \E active \in BOOLEAN : set_active(t, a, id, active)

Next ==
  \/ \E t \in Threads : Request(t) \/ Step(t) \/ Fail(t)
  \/ \E a \in Accounts : Revoke(a) \/ Restore(a)

Spec == Init /\ [][Next]_vars

(* ------------------------------ properties ----------------------------- *)

Busy == {t \in Threads : call[t].pc # "idle"}

TypeOK ==
  /\ clients \in Seq(Client)
  /\ audits \in Seq([action : Actions, id : Nat \ {0}])
  /\ lock \in Threads \cup {Free} /\ message \in Messages
  /\ \A t \in Threads : call[t].pc = "commit" <=> lock = t
  /\ authorized \subseteq Accounts /\ admitted \subseteq Threads

(* No two clients hold the same reserved code, and no contract ends before *)
(* it begins, whichever columns an UPDATE happens to name.                 *)
RowsLawful ==
  /\ \A i, j \in DOMAIN clients : clients[i].normalized = clients[j].normalized => i = j
  /\ \A i \in DOMAIN clients : DatesOrdered(clients[i])

(* Each client has one CLIENT_CREATED event, before all its other events   *)
(* and in the order of the ids, and no event speaks of a client that is    *)
(* not there, whatever fails in between.                                   *)
CreatedOnce ==
  /\ \A k \in DOMAIN audits : audits[k].id \in DOMAIN clients
  /\ \A i \in DOMAIN clients : \E k \in DOMAIN audits :
       /\ audits[k] = [action |-> "CLIENT_CREATED", id |-> i]
       /\ \A l \in DOMAIN audits \ {k} :
            /\ audits[l].id = i => l > k /\ audits[l].action # "CLIENT_CREATED"
            /\ audits[l].action = "CLIENT_CREATED" => (l < k <=> audits[l].id < i)

(* A call that no other commit disturbed stores what was asked of it, and  *)
(* all of it: an edit keeps the active flag, a switch keeps the rest.      *)
QuietCallsExact ==
  [][\A t \in Threads :
       commit(t) /\ call[t].quiet =>
         /\ clients'[call[t].id] = call[t].wanted
         /\ call[t].action \in {"CLIENT_ACTIVATED", "CLIENT_DEACTIVATED"} =>
              [clients'[call[t].id] EXCEPT !.active = TRUE]
                = [clients[call[t].id] EXCEPT !.active = TRUE]
         /\ call[t].action = "CLIENT_UPDATED" =>
              clients'[call[t].id].active = clients[call[t].id].active]_vars

(* The actor is checked before the write lock is taken, so an account that *)
(* loses its rights can still commit, from several pages and desks at      *)
(* once.  It commits the calls that were past the check at that moment,    *)
(* each of them once, and no other, until it gets its rights back.         *)
OnlyAdmittedCommitLate ==
  [][\A t \in Threads :
       commit(t) /\ call[t].by \notin authorized => t \in admitted]_vars
=============================================================================
