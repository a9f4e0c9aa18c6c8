--------------------------- MODULE RegistersProofs ---------------------------
(***************************************************************************)
(* Proofs about Clients and MCRegisters for any number of calls at the     *)
(* same time, any codes, canonical forms, texts and dates, and whatever    *)
(* the four parts of MCRegisters are bounded by.                           *)
(*                                                                         *)
(* What a call knows is typed by how far it is (CallOK).  A call holds the *)
(* write lock from its INSERT or UPDATE to its end, so that the row it is  *)
(* about to commit stays as lawful as it was when it was written.  Of a    *)
(* call that no commit disturbed, both reads are still exact.              *)
(*                                                                         *)
(* A behaviour of MCRegisters is one of Clients beside one of SmsRegister: *)
(* what SmsRegisterProofs proves holds of both instances of that module.   *)
(***************************************************************************)
EXTENDS MCRegisters, SequenceTheorems, TLAPS

Forms == [pc : {"actor", "read"}, action : {"CLIENT_CREATED", "CLIENT_UPDATED"},
          id : Nat, by : Accounts, quiet : BOOLEAN, form : Form]
Switches == [pc : {"actor", "read"}, action : {"CLIENT_ACTIVATED", "CLIENT_DEACTIVATED"},
             id : Nat, by : Accounts, quiet : BOOLEAN]
Saves == [pc : {"save"}, action : Actions, id : Nat, by : Accounts, quiet : BOOLEAN,
          wanted : Client]
Updates == [pc : {"update"}, action : Actions, id : Nat \ {0}, by : Accounts, quiet : BOOLEAN,
            wanted : Client, seen : Client]
Commits == [pc : {"commit"}, action : Actions, id : Nat, by : Accounts, quiet : BOOLEAN,
            wanted : Client, draft : Client]

Calls == {Idle} \cup Forms \cup Switches \cup Saves \cup Updates \cup Commits

(* A call names a row that exists, or is going to create one.              *)
Named(c) ==
  /\ c.pc # "commit" => IF c.action = "CLIENT_CREATED" THEN c.id = 0 ELSE c.id \in DOMAIN clients
  /\ c.pc = "commit" =>
       IF c.action = "CLIENT_CREATED" THEN c.id = Len(clients) + 1 ELSE c.id \in DOMAIN clients

(* What a call is going to commit is lawful.                               *)
Lawful(c) ==
  /\ c.pc \in {"actor", "read"} /\ c.action = "CLIENT_CREATED" => validate_client_fields(c.form)
  /\ c.pc = "save" /\ c.action = "CLIENT_CREATED" => DatesOrdered(c.wanted)
  /\ c.pc = "commit" => DatesOrdered(c.draft) /\ ~Reserved(c.draft, c.id)

(* The entity differs from the row in what was asked for, and no more.     *)
Exact(c) ==
  /\ c.action = "CLIENT_UPDATED" => c.wanted.active = clients[c.id].active
  /\ c.action \in {"CLIENT_ACTIVATED", "CLIENT_DEACTIVATED"} =>
       [c.wanted EXCEPT !.active = TRUE] = [clients[c.id] EXCEPT !.active = TRUE]

Undisturbed(c) ==
  c.pc # "idle" /\ c.quiet =>
    /\ c.pc \in {"save", "update", "commit"} => Exact(c)
    /\ c.pc = "update" => c.seen = clients[c.id]
    /\ c.pc = "commit" => c.draft = c.wanted

CallOK(c) == c \in Calls /\ Named(c) /\ Lawful(c) /\ Undisturbed(c)

(* A call past the check is of an account that has its rights, or was past *)
(* the check when they were lost.                                          *)
Admitted ==
  \A t \in Threads : PastCheck(t) => call[t].by \in authorized \/ t \in admitted

Inv ==
  /\ TypeOK /\ RowsLawful /\ CreatedOnce /\ Admitted
  /\ DOMAIN call = Threads
  /\ \A t \in Threads : CallOK(call[t])

LEMMA Rows ==
  ASSUME clients \in Seq(Client)
  PROVE  /\ Len(clients) \in Nat /\ DOMAIN clients = 1..Len(clients)
         /\ \A i \in DOMAIN clients : clients[i] \in Client
BY LenProperties, ElementOfSeq

LEMMA InitInv == Init => Inv
<1> SUFFICES ASSUME Init PROVE Inv
  OBVIOUS
<1>1. clients \in Seq(Client) /\ audits \in Seq([action : Actions, id : Nat \ {0}])
      /\ Len(clients) = 0 /\ DOMAIN clients = {}
  BY EmptySeq, LenProperties DEF Init
<1>2. TypeOK /\ RowsLawful /\ Admitted
  BY <1>1, ThreadsAssumption DEF Init, TypeOK, RowsLawful, Admitted, PastCheck, Idle, Messages
<1>4. CreatedOnce
  <2>1. DOMAIN clients = {} /\ DOMAIN audits = {}
    BY DEF Init
  <2> QED
    BY <2>1 DEF CreatedOnce
<1>3. CallOK(Idle)
  BY DEF CallOK, Calls, Idle, Named, Lawful, Undisturbed
<1> QED
  BY <1>2, <1>3, <1>4 DEF Init, Inv

(* The UPDATE makes a client of three clients; if the row is as it was     *)
(* seen, it makes the one that was wanted.                                 *)
LEMMA UpdatedClient ==
  ASSUME NEW stored \in Client, NEW seen \in Client, NEW wanted \in Client
  PROVE  /\ Updated(stored, seen, wanted) \in Client
         /\ seen = stored => Updated(stored, seen, wanted) = wanted
<1>1. /\ DOMAIN stored = {"code", "normalized", "details",
                          "contract_start", "contract_end", "active"}
      /\ DOMAIN wanted = DOMAIN stored
  BY DEF Client
<1> DEFINE row == Updated(stored, seen, wanted)
<1>2. \A column \in DOMAIN stored :
        row[column] = IF wanted[column] = seen[column] THEN stored[column] ELSE wanted[column]
  BY DEF Updated
<1>3. row = [code |-> row.code, normalized |-> row.normalized, details |-> row.details,
             contract_start |-> row.contract_start, contract_end |-> row.contract_end,
             active |-> row.active]
  BY <1>1 DEF Updated
<1>4. /\ row.code \in Codes /\ row.normalized \in {Canonical(c) : c \in Codes}
      /\ row.details \in Details /\ row.contract_start \in Days /\ row.contract_end \in Days
  BY <1>1, <1>2 DEF Client
<1>5. row.active \in BOOLEAN
  BY <1>1, <1>2 DEF Client
<1>6. row \in Client
  <2> HIDE DEF row
  <2> QED
    BY <1>3, <1>4, <1>5 DEF Client
<1>7. ASSUME seen = stored PROVE row = wanted
  <2>1. \A column \in DOMAIN stored : row[column] = wanted[column]
    BY <1>2, <1>7
  <2> QED
    BY <1>1, <2>1 DEF Updated, Client
<1> QED
  BY <1>6, <1>7

LEMMA SameRows ==
  ASSUME NEW c, CallOK(c), clients' = clients
  PROVE  CallOK(c)'
BY DEF CallOK, Named, Lawful, Reserved, Undisturbed, Exact

(* A step of one call that commits nothing: what must be shown of it.      *)
LEMMA Local ==
  ASSUME Inv, NEW t \in Threads, NEW c, CallOK(c),
         call' = [call EXCEPT ![t] = c],
         clients' = clients, audits' = audits, authorized' = authorized,
         admitted' \in {admitted, admitted \ {t}},
         message' \in Messages,
         lock' = IF c.pc = "commit" THEN t ELSE IF lock = t THEN Free ELSE lock,
         c.pc = "commit" => lock \in {Free, t},
         c.pc \notin {"idle", "actor"} => c.by \in authorized \/ t \in admitted'
  PROVE  Inv'
<1>1. DOMAIN call' = Threads /\ \A u \in Threads : call'[u] = IF u = t THEN c ELSE call[u]
  BY DEF Inv
<1>2. \A u \in Threads : CallOK(call'[u])
  BY <1>1 DEF Inv
<1>3. \A u \in Threads : CallOK(call[u])'
  BY <1>2, SameRows
<1>4. \A u \in Threads : call[u].pc = "commit" <=> lock = u
  BY DEF Inv, TypeOK
<1>5. \A u \in Threads : call'[u].pc = "commit" <=> lock' = u
  <2> TAKE u \in Threads
  <2>1. CASE u = t
    BY <1>1, <2>1, ThreadsAssumption
  <2>2. CASE u # t
    <3>1. lock' = u <=> lock = u
      BY <2>2, ThreadsAssumption
    <3> QED
      BY <1>1, <1>4, <2>2, <3>1
  <2> QED
    BY <2>1, <2>2
<1>6. TypeOK'
  BY <1>5 DEF Inv, TypeOK
<1>7. RowsLawful' /\ CreatedOnce'
  BY DEF Inv, RowsLawful, CreatedOnce
<1>8. Admitted'
  <2> SUFFICES ASSUME NEW u \in Threads, PastCheck(u)'
               PROVE  call'[u].by \in authorized \/ u \in admitted'
    BY DEF Admitted
  <2>1. CASE u = t
    BY <1>1, <2>1 DEF PastCheck
  <2>2. CASE u # t
    BY <1>1, <2>2 DEF PastCheck, Inv, Admitted
  <2> QED
    BY <2>1, <2>2
<1> QED
  BY <1>1, <1>3, <1>6, <1>7, <1>8 DEF Inv

LEMMA IdleOK == CallOK(Idle)
BY DEF CallOK, Calls, Idle, Named, Lawful, Undisturbed

(* A call that answers has nothing left.                                   *)
LEMMA AnswerStep ==
  ASSUME Inv, NEW t \in Threads, NEW answer \in Messages, Answer(t, answer),
         UNCHANGED <<clients, audits, authorized>>
  PROVE  Inv'
<1>1. CallOK(Idle) /\ Idle.pc = "idle"
  BY IdleOK DEF Idle
<1>2. /\ call' = [call EXCEPT ![t] = Idle]
      /\ message' \in Messages
      /\ lock' = IF lock = t THEN Free ELSE lock
      /\ admitted' = admitted \ {t}
  BY DEF Answer
<1> QED
  BY <1>1, <1>2, Local

(* Only a call that commits holds the lock.                                *)
LEMMA Unlocked ==
  ASSUME Inv, NEW t \in Threads, call[t].pc # "commit"
  PROVE  lock # t /\ lock = IF lock = t THEN Free ELSE lock
BY DEF Inv, TypeOK

LEMMA RequestStep == ASSUME Inv, NEW t \in Threads, Request(t) PROVE Inv'
<1>1. call[t].pc = "idle" /\ UNCHANGED <<clients, audits, lock, message, authorized, admitted>>
  BY DEF Request, create_client, update_client, set_active, At
<1>2. PICK a \in Accounts :
        \/ \E form \in Form : create_client(t, a, form)
        \/ \E id \in DOMAIN clients, form \in Form : update_client(t, a, id, form)
        \/ \E id \in DOMAIN clients, active \in BOOLEAN : set_active(t, a, id, active)
  BY DEF Request
<1>3. PICK c : /\ call' = [call EXCEPT ![t] = c] /\ c.pc = "actor" /\ CallOK(c)
  <2>1. CASE \E form \in Form : create_client(t, a, form)
    <3>1. PICK form \in Form : create_client(t, a, form)
      BY <2>1
    <3>2. CallOK([pc |-> "actor", action |-> "CLIENT_CREATED", id |-> 0, by |-> a,
                  quiet |-> TRUE, form |-> form])
      BY <3>1 DEF create_client, CallOK, Calls, Forms, Named, Lawful, Undisturbed
    <3> QED
      BY <3>1, <3>2 DEF create_client
  <2>2. CASE \E id \in DOMAIN clients, form \in Form : update_client(t, a, id, form)
    <3>1. PICK id \in DOMAIN clients, form \in Form : update_client(t, a, id, form)
      BY <2>2
    <3>2. id \in Nat
      BY Rows DEF Inv, TypeOK
    <3>3. CallOK([pc |-> "actor", action |-> "CLIENT_UPDATED", id |-> id, by |-> a,
                  quiet |-> TRUE, form |-> form])
      BY <3>2 DEF CallOK, Calls, Forms, Named, Lawful, Undisturbed
    <3> QED
      BY <3>1, <3>3 DEF update_client
  <2>3. CASE \E id \in DOMAIN clients, active \in BOOLEAN : set_active(t, a, id, active)
    <3>1. PICK id \in DOMAIN clients, active \in BOOLEAN : set_active(t, a, id, active)
      BY <2>3
    <3>2. id \in Nat
      BY Rows DEF Inv, TypeOK
    <3>3. PICK action \in {"CLIENT_ACTIVATED", "CLIENT_DEACTIVATED"} :
            action = IF active THEN "CLIENT_ACTIVATED" ELSE "CLIENT_DEACTIVATED"
      OBVIOUS
    <3>4. CallOK([pc |-> "actor", id |-> id, by |-> a, quiet |-> TRUE, action |-> action])
      BY <3>2 DEF CallOK, Calls, Switches, Named, Lawful, Undisturbed
    <3> QED
      BY <3>1, <3>3, <3>4 DEF set_active
  <2> QED
    BY <1>2, <2>1, <2>2, <2>3
<1> QED
  BY <1>1, <1>3, Unlocked, Local DEF Inv, TypeOK

LEMMA ActorStep == ASSUME Inv, NEW t \in Threads, require_current_actor(t) PROVE Inv'
<1>1. call[t].pc = "actor" /\ CallOK(call[t]) /\ UNCHANGED <<clients, audits, authorized>>
  BY DEF require_current_actor, At, Inv
<1>2. CASE call[t].by \in authorized
  <2>1. call[t] \in Forms \cup Switches
    BY <1>1 DEF CallOK, Calls, Idle, Saves, Updates, Commits
  <2>2. PICK c : c = [call[t] EXCEPT !.pc = "read"]
    OBVIOUS
  <2>3. c \in Forms \cup Switches /\ c.pc = "read" /\ c.action = call[t].action /\ c.id = call[t].id
        /\ c.by = call[t].by /\ (c.action = "CLIENT_CREATED" => c.form = call[t].form)
    BY <2>1, <2>2 DEF Forms, Switches
  <2>4. CallOK(c)
    BY <1>1, <2>3 DEF CallOK, Calls, Named, Lawful, Undisturbed
  <2>5. call' = [call EXCEPT ![t] = c] /\ UNCHANGED <<lock, message, admitted>>
    BY <1>2, <2>2 DEF require_current_actor
  <2> QED
    BY <1>1, <1>2, <2>3, <2>4, <2>5, Unlocked, Local DEF Inv, TypeOK
<1>3. CASE call[t].by \notin authorized
  BY <1>1, <1>3, AnswerStep DEF require_current_actor, Messages
<1> QED
  BY <1>2, <1>3

(* The entity that a call asks to save.                                    *)
LEMMA SaveStep ==
  ASSUME Inv, NEW t \in Threads, call[t].pc = "read", NEW wanted \in Client, Save(t, wanted),
         UNCHANGED <<clients, audits, authorized>>,
         call[t].action = "CLIENT_CREATED" => DatesOrdered(wanted),
         call[t].action = "CLIENT_UPDATED" => wanted.active = clients[call[t].id].active,
         call[t].action \in {"CLIENT_ACTIVATED", "CLIENT_DEACTIVATED"} =>
           [wanted EXCEPT !.active = TRUE] = [clients[call[t].id] EXCEPT !.active = TRUE]
  PROVE  Inv'
<1>1. /\ CallOK(call[t]) /\ call[t] \in Forms \cup Switches
      /\ call[t].by \in authorized \/ t \in admitted
  BY DEF Inv, CallOK, Calls, Idle, Saves, Updates, Commits, Admitted, PastCheck
<1>2. /\ call[t].action \in Actions /\ call[t].id \in Nat /\ call[t].quiet \in BOOLEAN
      /\ call[t].by \in Accounts
  BY <1>1 DEF Forms, Switches, Actions
<1>3. PICK c : c = [pc |-> "save", action |-> call[t].action, id |-> call[t].id,
                    by |-> call[t].by, quiet |-> call[t].quiet, wanted |-> wanted]
  OBVIOUS
<1>4. c \in Saves
  BY <1>2, <1>3 DEF Saves
<1>5. /\ c.pc = "save" /\ c.action = call[t].action /\ c.id = call[t].id /\ c.wanted = wanted
      /\ c.by = call[t].by
  BY <1>3
<1>6. CallOK(c)
  BY <1>1, <1>4, <1>5 DEF CallOK, Calls, Named, Lawful, Undisturbed, Exact
<1>7. call' = [call EXCEPT ![t] = c] /\ UNCHANGED <<lock, message, admitted>>
  BY <1>3 DEF Save
<1> QED
  BY <1>1, <1>5, <1>6, <1>7, Unlocked, Local DEF Inv, TypeOK

LEMMA ValidClient ==
  ASSUME NEW form \in Form, validate_client_fields(form), NEW active \in BOOLEAN
  PROVE  /\ NewClient(form, active) \in Client
         /\ DatesOrdered(NewClient(form, active))
         /\ NewClient(form, active).active = active
BY DEF validate_client_fields, DatesOrdered, NewClient, Client, Form

LEMMA SwitchedClient ==
  ASSUME NEW client \in Client, NEW active \in BOOLEAN,
         NEW switched, switched = [client EXCEPT !.active = active]
  PROVE  /\ switched \in Client
         /\ [switched EXCEPT !.active = TRUE] = [client EXCEPT !.active = TRUE]
BY DEF Client

LEMMA ReadStep == ASSUME Inv, NEW t \in Threads, ReadClient(t) PROVE Inv'
<1>1. /\ call[t].pc = "read" /\ CallOK(call[t]) /\ call[t] \in Forms \cup Switches
      /\ UNCHANGED <<clients, audits, authorized>>
  BY DEF ReadClient, At, Inv, CallOK, Calls, Idle, Saves, Updates, Commits
<1>2. CASE call[t].action = "CLIENT_CREATED"
  <2>1. call[t].form \in Form /\ validate_client_fields(call[t].form)
    BY <1>1, <1>2 DEF CallOK, Lawful, Forms, Switches
  <2>2. Save(t, NewClient(call[t].form, TRUE))
    BY <1>2 DEF ReadClient
  <2> QED
    BY <1>1, <1>2, <2>1, <2>2, ValidClient, SaveStep
<1>3. CASE call[t].action = "CLIENT_UPDATED"
  <2>1. call[t].form \in Form /\ call[t].id \in DOMAIN clients
    BY <1>1, <1>3 DEF CallOK, Named, Forms, Switches
  <2>2. clients[call[t].id] \in Client
    BY <2>1, Rows DEF Inv, TypeOK
  <2>3. clients[call[t].id].active \in BOOLEAN
    BY <2>2 DEF Client
  <2>4. CASE validate_client_fields(call[t].form)
    <3>1. Save(t, NewClient(call[t].form, clients[call[t].id].active))
      BY <1>3, <2>4 DEF ReadClient, Edited
    <3> QED
      BY <1>1, <1>3, <2>1, <2>3, <2>4, <3>1, ValidClient, SaveStep
  <2>5. CASE ~validate_client_fields(call[t].form)
    BY <1>1, <1>3, <2>5, AnswerStep DEF ReadClient, Messages
  <2> QED
    BY <2>4, <2>5
<1>4. CASE call[t].action \in {"CLIENT_ACTIVATED", "CLIENT_DEACTIVATED"}
  <2>1. call[t].id \in DOMAIN clients
    BY <1>1, <1>4 DEF CallOK, Named
  <2>2. PICK client \in Client : client = clients[call[t].id]
    BY <2>1, Rows DEF Inv, TypeOK
  <2>3. PICK active \in BOOLEAN : active = (call[t].action = "CLIENT_ACTIVATED")
    OBVIOUS
  <2>4. \/ Save(t, [client EXCEPT !.active = active])
        \/ Answer(t, "refused")
    BY <1>4, <2>2, <2>3 DEF ReadClient
  <2>5. CASE Save(t, [client EXCEPT !.active = active])
    <3>1. PICK switched : switched = [client EXCEPT !.active = active]
      OBVIOUS
    <3>2. /\ switched \in Client
          /\ [switched EXCEPT !.active = TRUE] = [client EXCEPT !.active = TRUE]
      BY <3>1, SwitchedClient
    <3> QED
      BY <1>1, <1>4, <2>2, <2>5, <3>1, <3>2, SaveStep
  <2>6. CASE Answer(t, "refused")
    BY <1>1, <2>6, AnswerStep DEF Messages
  <2> QED
    BY <2>4, <2>5, <2>6
<1> QED
  BY <1>1, <1>2, <1>3, <1>4 DEF Forms, Switches

LEMMA ReadAgainStep == ASSUME Inv, NEW t \in Threads, ReadAgain(t) PROVE Inv'
<1>1. /\ call[t].pc = "save" /\ CallOK(call[t]) /\ call[t].id # 0
      /\ call[t].by \in authorized \/ t \in admitted
      /\ UNCHANGED <<clients, audits, lock, message, authorized, admitted>>
  BY DEF ReadAgain, At, Inv, Admitted, PastCheck
<1>2. call[t] \in Saves
  BY <1>1 DEF CallOK, Calls, Idle, Forms, Switches, Updates, Commits
<1>3. call[t].action # "CLIENT_CREATED" /\ call[t].id \in DOMAIN clients
  BY <1>1 DEF CallOK, Named
<1>4. clients[call[t].id] \in Client
  BY <1>3, Rows DEF Inv, TypeOK
<1>5. PICK c : c = [pc |-> "update", action |-> call[t].action, id |-> call[t].id,
                    by |-> call[t].by, quiet |-> call[t].quiet, wanted |-> call[t].wanted,
                    seen |-> clients[call[t].id]]
  OBVIOUS
<1>6. c \in Updates
  BY <1>1, <1>2, <1>4, <1>5 DEF Saves, Updates
<1>7. /\ c.pc = "update" /\ c.action = call[t].action /\ c.id = call[t].id
      /\ c.quiet = call[t].quiet /\ c.wanted = call[t].wanted /\ c.seen = clients[c.id]
      /\ c.by = call[t].by
  BY <1>5
<1>8. CallOK(c)
  BY <1>1, <1>3, <1>6, <1>7 DEF CallOK, Calls, Named, Lawful, Undisturbed, Exact
<1>9. call' = [call EXCEPT ![t] = c]
  BY <1>5 DEF ReadAgain
<1> QED
  BY <1>1, <1>7, <1>8, <1>9, Unlocked, Local DEF Inv, TypeOK

(* What add and save have written waits for its commit.                    *)
LEMMA WrittenStep ==
  ASSUME Inv, NEW t \in Threads, call[t] \in Saves \cup Updates, lock = Free,
         NEW row \in Client, NEW id \in Nat, Written(t, row, id),
         UNCHANGED <<clients, audits, authorized>>,
         ~Reserved(row, id), DatesOrdered(row),
         IF call[t].action = "CLIENT_CREATED" THEN id = Len(clients) + 1
                                              ELSE id = call[t].id,
         call[t].quiet => row = call[t].wanted
  PROVE  Inv'
<1>1. /\ CallOK(call[t]) /\ call[t].action \in Actions /\ call[t].quiet \in BOOLEAN
      /\ call[t].wanted \in Client /\ call[t].pc \in {"save", "update"}
      /\ call[t].by \in Accounts /\ (call[t].by \in authorized \/ t \in admitted)
  BY DEF Inv, Admitted, PastCheck, Saves, Updates
<1>2. PICK c : c = [pc |-> "commit", action |-> call[t].action, id |-> id,
                    by |-> call[t].by, quiet |-> call[t].quiet, wanted |-> call[t].wanted, draft |-> row]
  OBVIOUS
<1>3. c \in Commits
  BY <1>1, <1>2 DEF Commits
<1>4. /\ c.pc = "commit" /\ c.action = call[t].action /\ c.id = id
      /\ c.quiet = call[t].quiet /\ c.wanted = call[t].wanted /\ c.draft = row
      /\ c.by = call[t].by
  BY <1>2
<1>5. Named(c) /\ Lawful(c)
  BY <1>1, <1>4 DEF CallOK, Named, Lawful
<1>6. Undisturbed(c)
  BY <1>1, <1>4 DEF CallOK, Undisturbed, Exact, Actions
<1>7. CallOK(c)
  BY <1>3, <1>5, <1>6 DEF CallOK, Calls
<1>8. call' = [call EXCEPT ![t] = c] /\ lock' = t /\ UNCHANGED <<message, admitted>>
  BY <1>2 DEF Written
<1> QED
  BY <1>1, <1>4, <1>7, <1>8, Local DEF Inv, TypeOK

LEMMA AddStep == ASSUME Inv, NEW t \in Threads, add(t) PROVE Inv'
<1>1. /\ call[t].pc = "save" /\ call[t].id = 0 /\ lock = Free /\ CallOK(call[t])
      /\ UNCHANGED <<clients, audits, authorized>>
  BY DEF add, At, Inv
<1>2. call[t] \in Saves /\ call[t].wanted \in Client
  BY <1>1 DEF CallOK, Calls, Idle, Forms, Switches, Saves, Updates, Commits
<1>3. Len(clients) \in Nat /\ DOMAIN clients = 1..Len(clients)
  BY Rows DEF Inv, TypeOK
<1>4. call[t].action = "CLIENT_CREATED"
  BY <1>1, <1>3 DEF CallOK, Named
<1>5. CASE Reserved(call[t].wanted, 0)
  BY <1>1, <1>5, AnswerStep DEF add, Messages
<1>6. CASE ~Reserved(call[t].wanted, 0)
  <2>1. Written(t, call[t].wanted, Len(clients) + 1)
    BY <1>6 DEF add
  <2>2. ~Reserved(call[t].wanted, Len(clients) + 1)
    BY <1>3, <1>6 DEF Reserved
  <2>3. DatesOrdered(call[t].wanted)
    BY <1>1, <1>4 DEF CallOK, Lawful
  <2> QED
    BY <1>1, <1>2, <1>3, <1>4, <2>1, <2>2, <2>3, WrittenStep
<1> QED
  BY <1>5, <1>6

LEMMA SavedStep == ASSUME Inv, NEW t \in Threads, save(t) PROVE Inv'
<1>1. /\ call[t].pc = "update" /\ lock = Free /\ CallOK(call[t])
      /\ UNCHANGED <<clients, audits, authorized>>
  BY DEF save, At, Inv
<1>2. call[t] \in Updates /\ call[t].wanted \in Client /\ call[t].seen \in Client
      /\ call[t].id \in Nat \ {0}
  BY <1>1 DEF CallOK, Calls, Idle, Forms, Switches, Saves, Updates, Commits
<1>3. call[t].action # "CLIENT_CREATED" /\ call[t].id \in DOMAIN clients
  BY <1>1, <1>2 DEF CallOK, Named
<1>4. PICK row \in Client : /\ row = Updated(clients[call[t].id], call[t].seen, call[t].wanted)
                            /\ call[t].quiet => row = call[t].wanted
  <2>1. clients[call[t].id] \in Client
    BY <1>3, Rows DEF Inv, TypeOK
  <2>2. call[t].quiet => call[t].seen = clients[call[t].id]
    BY <1>1 DEF CallOK, Undisturbed
  <2> QED
    BY <1>2, <2>1, <2>2, UpdatedClient
<1>5. CASE Reserved(row, call[t].id)
  BY <1>1, <1>4, <1>5, AnswerStep DEF save, Messages
<1>6. CASE ~Reserved(row, call[t].id) /\ ~DatesOrdered(row)
  BY <1>1, <1>4, <1>6, AnswerStep DEF save, Messages
<1>7. CASE ~Reserved(row, call[t].id) /\ DatesOrdered(row)
  <2>1. Written(t, row, call[t].id)
    BY <1>4, <1>7 DEF save
  <2> QED
    BY <1>1, <1>2, <1>3, <1>4, <1>7, <2>1, WrittenStep
<1> QED
  BY <1>5, <1>6, <1>7

LEMMA FailStep ==
  ASSUME Inv, NEW t \in Threads, Fail(t) \/ LockTimeOut(t)
  PROVE  Inv'
BY AnswerStep DEF Fail, LockTimeOut, Messages

LEMMA RevokeStep == ASSUME Inv, NEW a \in Accounts, Revoke(a) \/ Restore(a) PROVE Inv'
<1>1. /\ UNCHANGED clients /\ UNCHANGED audits /\ UNCHANGED lock /\ UNCHANGED call
      /\ UNCHANGED message
  BY DEF Revoke, Restore
<1>2. \A u \in Threads : CallOK(call[u])'
  BY <1>1 DEF Inv, CallOK, Named, Lawful, Reserved, Undisturbed, Exact
<1>3. /\ authorized' \subseteq Accounts /\ admitted' \subseteq Threads
      /\ \A u \in Threads : PastCheck(u) => call[u].by \in authorized' \/ u \in admitted'
  <2>1. CASE Revoke(a)
    BY <2>1 DEF Revoke, Inv, TypeOK, Admitted
  <2>2. CASE Restore(a)
    BY <2>2 DEF Restore, Inv, TypeOK, Admitted
  <2> QED
    BY <2>1, <2>2
<1>4. Admitted'
  BY <1>1, <1>3 DEF Admitted, PastCheck
<1> QED
  BY <1>1, <1>2, <1>3, <1>4 DEF Inv, TypeOK, RowsLawful, CreatedOnce

(* ------------------------------- the commit ---------------------------- *)

(* The table after the commit of t: its draft is a row, the others stay.   *)
LEMMA CommittedRows ==
  ASSUME Inv, NEW t \in Threads, commit(t)
  PROVE  /\ clients' \in Seq(Client)
         /\ call[t].id \in DOMAIN clients'
         /\ DOMAIN clients' = DOMAIN clients \cup {call[t].id}
         /\ Len(clients') >= Len(clients)
         /\ \A i \in DOMAIN clients' :
              clients'[i] = IF i = call[t].id THEN call[t].draft ELSE clients[i]
<1>1. CallOK(call[t]) /\ call[t].pc = "commit" /\ call[t] \in Commits /\ call[t].draft \in Client
  BY DEF Inv, commit, At, CallOK, Calls, Idle, Forms, Switches, Saves, Updates, Commits
<1>2. clients \in Seq(Client) /\ Len(clients) \in Nat /\ DOMAIN clients = 1..Len(clients)
  BY Rows DEF Inv, TypeOK
<1>3. CASE call[t].id = Len(clients) + 1
  <2>1. clients' = Append(clients, call[t].draft)
    BY <1>2, <1>3 DEF commit
  <2>2. clients' \in Seq(Client) /\ Len(clients') = Len(clients) + 1
        /\ (\A i \in 1..Len(clients) : clients'[i] = clients[i])
        /\ clients'[Len(clients) + 1] = call[t].draft
    BY <1>1, <1>2, <2>1, AppendProperties
  <2>3. DOMAIN clients' = 1..(Len(clients) + 1)
    BY <2>2, LenProperties
  <2>4. 1..(Len(clients) + 1) = 1..Len(clients) \cup {call[t].id}
    BY <1>2, <1>3
  <2>5. \A i \in 1..Len(clients) : i # call[t].id
    BY <1>2, <1>3
  <2>6. \A i \in DOMAIN clients' :
          clients'[i] = IF i = call[t].id THEN call[t].draft ELSE clients[i]
    BY <1>3, <2>2, <2>3, <2>4, <2>5
  <2>7. Len(clients') >= Len(clients)
    BY <1>2, <2>2
  <2>8. DOMAIN clients' = DOMAIN clients \cup {call[t].id}
    BY <1>2, <2>3, <2>4
  <2> QED
    BY <2>2, <2>6, <2>7, <2>8
<1>4. CASE call[t].id \in DOMAIN clients
  <2>. ~(call[t].id > Len(clients))
    BY <1>2, <1>4
  <2>1. clients' = [clients EXCEPT ![call[t].id] = call[t].draft]
    BY DEF commit
  <2>2. clients' \in Seq(Client) /\ Len(clients') = Len(clients)
        /\ \A i \in 1..Len(clients) :
             clients'[i] = IF i = call[t].id THEN call[t].draft ELSE clients[i]
    BY <1>1, <1>2, <1>4, <2>1, ExceptSeq
  <2>3. DOMAIN clients' = 1..Len(clients)
    BY <2>2, LenProperties
  <2> QED
    BY <1>2, <1>4, <2>2, <2>3
<1> QED
  BY <1>1, <1>3, <1>4 DEF CallOK, Named

LEMMA CommitLawful == ASSUME Inv, NEW t \in Threads, commit(t) PROVE RowsLawful'
<1>1. DatesOrdered(call[t].draft) /\ ~Reserved(call[t].draft, call[t].id)
  BY DEF Inv, commit, At, CallOK, Lawful
<1>2. /\ DOMAIN clients' = DOMAIN clients \cup {call[t].id}
      /\ \A i \in DOMAIN clients' :
           clients'[i] = IF i = call[t].id THEN call[t].draft ELSE clients[i]
  BY CommittedRows
<1>3. ASSUME NEW i \in DOMAIN clients' PROVE DatesOrdered(clients'[i])
  BY <1>1, <1>2 DEF Inv, RowsLawful
<1>4. ASSUME NEW i \in DOMAIN clients', NEW j \in DOMAIN clients',
             clients'[i].normalized = clients'[j].normalized
      PROVE  i = j
  BY <1>1, <1>2, <1>4 DEF Inv, RowsLawful, Reserved
<1> QED
  BY <1>3, <1>4 DEF RowsLawful

(* The commit of t leaves the other calls what they were, but disturbed.   *)
LEMMA CommitOthers ==
  ASSUME Inv, NEW t \in Threads, commit(t), NEW u \in Threads
  PROVE  CallOK(call[u])' /\ (u # t => call'[u].pc = call[u].pc)
<1>1. call'[u] = IF u = t THEN Idle ELSE Disturbed(u, t)
  BY DEF commit
<1>2. CASE u = t \/ call[u].pc = "idle"
  <2>1. call'[u] = Idle
    BY <1>1, <1>2 DEF Disturbed, Inv, CallOK, Calls, Forms, Switches, Saves, Updates, Commits
  <2> QED
    BY <1>2, <2>1 DEF CallOK, Calls, Idle, Named, Lawful, Undisturbed
<1>3. CASE u # t /\ call[u].pc # "idle"
  <2>1. CallOK(call[u]) /\ call[u].pc # "commit"
    BY <1>3 DEF Inv, TypeOK, commit, At
  <2>2. call[u] \in Forms \cup Switches \cup Saves \cup Updates
    BY <1>3, <2>1 DEF CallOK, Calls, Idle, Commits
  <2>3. PICK c : c = [call[u] EXCEPT !.quiet = FALSE]
    OBVIOUS
  <2>4. /\ c \in Forms \cup Switches \cup Saves \cup Updates
        /\ c.pc = call[u].pc /\ c.action = call[u].action /\ c.id = call[u].id /\ ~c.quiet
        /\ c.pc \in {"actor", "read"} /\ c.action = "CLIENT_CREATED" => c.form = call[u].form
        /\ c.pc = "save" => c.wanted = call[u].wanted
    BY <2>2, <2>3 DEF Forms, Switches, Saves, Updates
  <2>5. DOMAIN clients \subseteq DOMAIN clients'
    BY CommittedRows
  <2>6. Named(c)' /\ Lawful(c)' /\ Undisturbed(c)'
    BY <2>1, <2>4, <2>5 DEF CallOK, Named, Lawful, Undisturbed
  <2>7. call'[u] = c
    BY <1>1, <1>3, <2>3 DEF Disturbed
  <2> QED
    BY <2>4, <2>6, <2>7 DEF CallOK, Calls
<1> QED
  BY <1>2, <1>3

(* The commit of t adds its audit event behind all the others: the first   *)
(* of a client it creates, and not the first of any other.                 *)
LEMMA CommitCreated == ASSUME Inv, NEW t \in Threads, commit(t) PROVE CreatedOnce'
<1> DEFINE e == [action |-> call[t].action, id |-> call[t].id]
           n == Len(audits) + 1
<1>1. /\ CallOK(call[t]) /\ call[t].pc = "commit" /\ audits' = Append(audits, e)
  BY DEF Inv, commit, At, AuditAdded
<1>2. /\ clients \in Seq(Client) /\ Len(clients) \in Nat /\ DOMAIN clients = 1..Len(clients)
  BY Rows DEF Inv, TypeOK
<1>3. /\ Len(audits) \in Nat /\ DOMAIN audits = 1..Len(audits) /\ DOMAIN audits' = 1..n
      /\ audits'[n] = e /\ \A k \in DOMAIN audits : audits'[k] = audits[k]
  <2>1. audits \in Seq([action : Actions, id : Nat \ {0}])
    BY DEF Inv, TypeOK
  <2>2. call[t] \in Commits /\ call[t].id # 0
    BY <1>1, <1>2 DEF CallOK, Calls, Named, Idle, Forms, Switches, Saves, Updates
  <2>3. e \in [action : Actions, id : Nat \ {0}]
    BY <2>2 DEF Commits
  <2> HIDE DEF e
  <2> QED
    BY <1>1, <2>1, <2>3, AppendProperties, LenProperties
<1>4. DOMAIN clients' = DOMAIN clients \cup {e.id}
  BY CommittedRows
<1>5. /\ e.id \in Nat
      /\ IF e.action = "CLIENT_CREATED" THEN e.id \notin DOMAIN clients /\ e.id > Len(clients)
                                        ELSE e.id \in DOMAIN clients
  BY <1>1, <1>2 DEF CallOK, Named
<1> HIDE DEF e
<1>6. \A k \in DOMAIN audits' : k = n \/ (k \in DOMAIN audits /\ k < n)
  BY <1>3
<1>7. \A k \in DOMAIN audits : audits[k].id \in DOMAIN clients
  BY DEF Inv, CreatedOnce
<1>8. \A k \in DOMAIN audits' : audits'[k].id \in DOMAIN clients'
  BY <1>3, <1>4, <1>6, <1>7
<1>9. ASSUME NEW i \in DOMAIN clients'
      PROVE  \E k \in DOMAIN audits' :
               /\ audits'[k] = [action |-> "CLIENT_CREATED", id |-> i]
               /\ \A l \in DOMAIN audits' \ {k} :
                    /\ audits'[l].id = i => l > k /\ audits'[l].action # "CLIENT_CREATED"
                    /\ audits'[l].action = "CLIENT_CREATED" => (l < k <=> audits'[l].id < i)
  <2>1. CASE i \in DOMAIN clients
    <3>1. PICK k \in DOMAIN audits :
            /\ audits[k] = [action |-> "CLIENT_CREATED", id |-> i]
            /\ \A l \in DOMAIN audits \ {k} :
                 /\ audits[l].id = i => l > k /\ audits[l].action # "CLIENT_CREATED"
                 /\ audits[l].action = "CLIENT_CREATED" => (l < k <=> audits[l].id < i)
      BY <2>1 DEF Inv, CreatedOnce
    <3>2. k \in DOMAIN audits' /\ audits'[k] = [action |-> "CLIENT_CREATED", id |-> i]
          /\ k < n /\ k \in Nat /\ n \in Nat
      BY <1>3, <3>1
    <3>3. e.id = i => e.action # "CLIENT_CREATED"
      BY <1>5, <2>1
    <3>4. e.action = "CLIENT_CREATED" => ~(n < k) /\ ~(e.id < i)
      BY <1>2, <1>5, <2>1, <3>2
    <3>5. ASSUME NEW l \in DOMAIN audits' \ {k}
          PROVE  /\ audits'[l].id = i => l > k /\ audits'[l].action # "CLIENT_CREATED"
                 /\ audits'[l].action = "CLIENT_CREATED" => (l < k <=> audits'[l].id < i)
      <4>1. CASE l = n
        BY <1>3, <3>2, <3>3, <3>4, <4>1
      <4>2. CASE l \in DOMAIN audits
        BY <1>3, <3>1, <4>2
      <4> QED
        BY <1>6, <4>1, <4>2
    <3> QED
      BY <3>2, <3>5
  <2>2. CASE i \notin DOMAIN clients
    <3>1. i = e.id /\ e.action = "CLIENT_CREATED"
      BY <1>4, <1>5, <2>2
    <3>2. audits'[n] = [action |-> "CLIENT_CREATED", id |-> i] /\ n \in DOMAIN audits'
      BY <1>3, <3>1 DEF e
    <3>3. ASSUME NEW l \in DOMAIN audits' \ {n}
          PROVE  /\ audits'[l].id # i /\ l < n /\ audits'[l].id < i
      <4>1. l \in DOMAIN audits /\ l < n
        BY <1>6
      <4>2. audits'[l].id \in 1..Len(clients)
        BY <1>2, <1>3, <1>7, <4>1
      <4>3. i > Len(clients) /\ i \in Int
        <5>1. clients' \in Seq(Client)
          BY CommittedRows
        <5> QED
          BY <1>5, <3>1, <5>1, LenProperties
      <4> QED
        BY <1>2, <4>1, <4>2, <4>3
    <3> QED
      BY <3>2, <3>3
  <2> QED
    BY <2>1, <2>2
<1> QED
  BY <1>8, <1>9 DEF CreatedOnce

LEMMA CommitStep == ASSUME Inv, NEW t \in Threads, commit(t) PROVE Inv'
<1>1. /\ call[t].pc = "commit" /\ CallOK(call[t]) /\ lock = t
      /\ lock' = Free /\ message' = "none" /\ UNCHANGED authorized
      /\ DOMAIN call' = Threads /\ call'[t] = Idle
  BY DEF Inv, TypeOK, commit, At
<1>2. \A u \in Threads : CallOK(call[u])' /\ (u # t => call'[u].pc = call[u].pc)
  BY CommitOthers
<1>3. \A u \in Threads : call'[u].pc # "commit"
  <2>1. \A u \in Threads : call[u].pc = "commit" <=> lock = u
    BY DEF Inv, TypeOK
  <2>2. Idle.pc # "commit"
    BY DEF Idle
  <2>3. ASSUME NEW u \in Threads PROVE call'[u].pc # "commit"
    <3>1. CASE u = t
      BY <1>1, <2>2, <3>1
    <3>2. CASE u # t
      BY <1>1, <1>2, <2>1, <3>2
    <3> QED BY <3>1, <3>2
  <2> QED
    BY <2>3
<1>4. audits' \in Seq([action : Actions, id : Nat \ {0}])
  <2>1. call[t] \in Commits
    BY <1>1 DEF CallOK, Calls, Idle, Forms, Switches, Saves, Updates
  <2>2. call[t].id # 0
    <3>1. Len(clients) \in Nat /\ DOMAIN clients = 1..Len(clients)
      BY Rows DEF Inv, TypeOK
    <3> QED
      BY <1>1, <3>1 DEF CallOK, Named
  <2>3. [action |-> call[t].action, id |-> call[t].id] \in [action : Actions, id : Nat \ {0}]
    BY <2>1, <2>2 DEF Commits
  <2> QED
    BY <2>3, AppendProperties DEF Inv, TypeOK, commit, AuditAdded
<1>5. admitted' = admitted \ {t} /\ Admitted'
  <2>1. admitted' = admitted \ {t}
    BY DEF commit
  <2>2. ASSUME NEW u \in Threads, PastCheck(u)'
        PROVE  call'[u].by \in authorized' \/ u \in admitted'
    <3>1. u # t /\ PastCheck(u)
      BY <1>1, <1>2, <2>2 DEF PastCheck, Idle
    <3>2. call'[u] = [call[u] EXCEPT !.quiet = FALSE]
      BY <3>1 DEF commit, Disturbed, PastCheck
    <3>3. call'[u].by = call[u].by
      BY <3>2
    <3> QED
      BY <1>1, <2>1, <3>1, <3>3 DEF Inv, Admitted
  <2> QED
    BY <2>1, <2>2 DEF Admitted
<1>6. TypeOK'
  BY <1>1, <1>3, <1>4, <1>5, CommittedRows, ThreadsAssumption DEF Inv, TypeOK, Messages
<1> QED
  BY <1>1, <1>2, <1>5, <1>6, CommitLawful, CommitCreated DEF Inv

LEMMA NextInv == Inv /\ [Next]_vars => Inv'
<1> SUFFICES ASSUME Inv, [Next]_vars
             PROVE  Inv'
  OBVIOUS
<1>1. CASE UNCHANGED vars
  <2>1. /\ UNCHANGED clients /\ UNCHANGED audits /\ UNCHANGED lock /\ UNCHANGED call
        /\ UNCHANGED message /\ UNCHANGED admitted /\ UNCHANGED authorized
    BY <1>1 DEF vars
  <2>2. \A u \in Threads : CallOK(call[u])'
    BY <2>1 DEF Inv, CallOK, Named, Lawful, Reserved, Undisturbed, Exact
  <2> QED
    BY <2>1, <2>2 DEF Inv, TypeOK, RowsLawful, CreatedOnce, Admitted, PastCheck
<1> QED
  BY <1>1, RequestStep, ActorStep, ReadStep, ReadAgainStep, AddStep, SavedStep, FailStep,
     RevokeStep, CommitStep DEF Next, Step

(* Calls, rows and the account's rights fit together in every reachable    *)
(* state of the calls of ClientService: Inv is inductive.                  *)
THEOREM InvHolds == Spec => []Inv
<1>1. Init => Inv
  BY InitInv
<1>2. Inv /\ [Next]_vars => Inv'
  BY NextInv
<1> QED
  BY <1>1, <1>2, PTL DEF Spec

(* Rows, audit events and the write lock are what the tables and SQLite    *)
(* admit: one writer, from its first write to its end.                     *)
THEOREM TypeCorrect == Spec => []TypeOK
<1>1. Inv => TypeOK
  BY DEF Inv
<1> QED
  BY <1>1, InvHolds, PTL

(* However calls of ClientService interleave, no two clients hold the same *)
(* reserved code and no contract ends before it begins.                    *)
THEOREM RowsStayLawful == Spec => []RowsLawful
<1>1. Inv => RowsLawful
  BY DEF Inv
<1> QED
  BY <1>1, InvHolds, PTL

(* What an account commits after losing its rights are the calls that were *)
(* past require_current_actor at that moment, whatever number of pages,    *)
(* desks and processes it is signed in at.                                 *)
THEOREM LateCommitsWereAdmitted == Spec => OnlyAdmittedCommitLate
<1>1. ASSUME Inv, NEW t \in Threads, commit(t), call[t].by \notin authorized
      PROVE  t \in admitted
  BY <1>1 DEF Inv, Admitted, PastCheck, commit, At
<1>2. Inv /\ [Next]_vars =>
        [\A t \in Threads : commit(t) /\ call[t].by \notin authorized => t \in admitted]_vars
  BY <1>1
<1> QED
  BY <1>2, InvHolds, PTL DEF Spec, OnlyAdmittedCommitLate

(* A call of ClientService during which nobody else commits does exactly   *)
(* what was asked of it.                                                   *)
THEOREM QuietCallsAreExact == Spec => QuietCallsExact
<1> DEFINE Exactly(t) ==
      /\ clients'[call[t].id] = call[t].wanted
      /\ call[t].action \in {"CLIENT_ACTIVATED", "CLIENT_DEACTIVATED"} =>
           [clients'[call[t].id] EXCEPT !.active = TRUE]
             = [clients[call[t].id] EXCEPT !.active = TRUE]
      /\ call[t].action = "CLIENT_UPDATED" =>
           clients'[call[t].id].active = clients[call[t].id].active
<1>1. ASSUME Inv, NEW t \in Threads, commit(t), call[t].quiet
      PROVE  Exactly(t)
  <2>1. /\ CallOK(call[t]) /\ call[t].pc = "commit"
        /\ call[t].draft = call[t].wanted /\ Exact(call[t])
    BY <1>1 DEF Inv, commit, At, CallOK, Undisturbed
  <2>2. clients'[call[t].id] = call[t].draft
    BY <1>1, CommittedRows
  <2> QED
    BY <2>1, <2>2 DEF Exact
<1>2. Inv /\ [Next]_vars =>
        [\A t \in Threads : commit(t) /\ call[t].quiet => Exactly(t)]_vars
  BY <1>1
<1> QED
  BY <1>2, InvHolds, PTL DEF Spec, QuietCallsExact

(* ----------------------- the two SMS registers ------------------------- *)

AnyProofs == INSTANCE SmsRegisterProofs WITH
  audits <- sms_audits, lock <- sms_lock, call <- sms_call,
  Threads <- AnyThreads, Phones <- AnyPhones, Shipments <- AnyShipments,
  Requests <- AnyRequests, MaxPage <- AnyPage, MaxEvents <- AnyEvents, MaxClock <- AnyClock

ListsProofs == INSTANCE SmsRegisterProofs WITH
  audits <- sms_audits, lock <- sms_lock, call <- sms_call,
  Phones <- ListPhones, Shipments <- ListShipments, Requests <- ListRequests,
  MaxPage <- ListPage, MaxEvents <- ListEvents, MaxClock <- ListClock

(* AnyRequest and AnyProofs are one module with the same parameters, and   *)
(* so is each operator of the one and the other.                           *)
LEMMA AnySequences ==
  ASSUME NEW S
  PROVE  /\ AnyRequest!Cardinality(S) = AnyProofs!Cardinality(S)
         /\ AnyRequest!SetToSeqs(S) = AnyProofs!SetToSeqs(S)
<1>1. ASSUME NEW T PROVE AnyRequest!Cardinality(T) = AnyProofs!Cardinality(T)
  BY DEF AnyRequest!Cardinality, AnyProofs!Cardinality
<1> QED
  BY <1>1 DEF AnyRequest!SetToSeqs, AnyProofs!SetToSeqs

LEMMA AnyMatching ==
  ASSUME NEW q, NEW s
  PROVE  AnyRequest!Matching(q, s) = AnyProofs!Matching(q, s)
BY DEF AnyRequest!Matching, AnyProofs!Matching, AnyRequest!None, AnyProofs!None

LEMMA AnyHistory ==
  ASSUME NEW q, NEW s
  PROVE  /\ AnyRequest!History(q, s) = AnyProofs!History(q, s)
         /\ AnyRequest!Summary(q, s) = AnyProofs!Summary(q, s)
<1>1. AnyRequest!History(q, s) = AnyProofs!History(q, s)
  <2>1. AnyRequest!SetToSeqs(AnyRequest!Matching(q, s))
          = AnyProofs!SetToSeqs(AnyProofs!Matching(q, s))
    BY AnyMatching, AnySequences
  <2> QED
    BY <2>1
       DEF AnyRequest!History, AnyProofs!History, AnyRequest!InOrder, AnyProofs!InOrder,
           AnyRequest!Later, AnyProofs!Later
<1>2. AnyRequest!Summary(q, s) = AnyProofs!Summary(q, s)
  BY AnyMatching, AnySequences
     DEF AnyRequest!Summary, AnyProofs!Summary, AnyRequest!latest_id, AnyProofs!latest_id
<1> QED
  BY <1>1, <1>2

LEMMA AnyRows ==
  ASSUME NEW q
  PROVE  AnyRequest!Rows(q) = AnyProofs!Rows(q)
<1> DEFINE S == {AnyRequest!Summary(q, s) : s \in AnyRequest!Selected(q)}
           T == {AnyProofs!Summary(q, s) : s \in AnyProofs!Selected(q)}
           Before(a, b) ==
             \/ events[a.last].sent > events[b.last].sent
             \/ events[a.last].sent = events[b.last].sent /\ a.shipment < b.shipment
<1>1. S = T
  <2>1. AnyRequest!Selected(q) = AnyProofs!Selected(q)
    BY AnyMatching DEF AnyRequest!Selected, AnyProofs!Selected, AnyRequest!None, AnyProofs!None
  <2> QED
    BY <2>1, AnyHistory
<1>2. AnyRequest!Summaries(q) =
        CHOOSE seq \in AnyRequest!SetToSeqs(S) :
          \A i, j \in DOMAIN seq : i < j => Before(seq[i], seq[j])
  BY DEF AnyRequest!Summaries, AnyRequest!InOrder
<1>3. AnyProofs!Summaries(q) =
        CHOOSE seq \in AnyProofs!SetToSeqs(T) :
          \A i, j \in DOMAIN seq : i < j => Before(seq[i], seq[j])
  BY DEF AnyProofs!Summaries, AnyProofs!InOrder
<1> HIDE DEF S, T, Before
<1>4. AnyRequest!SetToSeqs(S) = AnyProofs!SetToSeqs(T)
  BY <1>1, AnySequences
<1>5. AnyRequest!Summaries(q) = AnyProofs!Summaries(q)
  BY <1>2, <1>3, <1>4
<1> QED
  BY <1>5, AnyHistory DEF AnyRequest!Rows, AnyProofs!Rows, AnyRequest!Never, AnyProofs!Never

LEMMA AnyRecord ==
  ASSUME NEW t
  PROVE  AnyRequest!Record(t) = AnyProofs!Record(t)
<1>1. AnyRequest!record_sms(t) = AnyProofs!record_sms(t)
  BY DEF AnyRequest!record_sms, AnyProofs!record_sms, AnyRequest!validate_sms_event,
         AnyProofs!validate_sms_event, AnyRequest!ResolvedText, AnyProofs!ResolvedText,
         AnyRequest!OptionalText, AnyProofs!OptionalText, AnyRequest!Delivered,
         AnyProofs!Delivered, AnyRequest!Event, AnyProofs!Event, AnyRequest!None,
         AnyProofs!None, AnyRequest!Never, AnyProofs!Never, AnyRequest!NoUser,
         AnyProofs!NoUser, AnyRequest!ThisUser, AnyProofs!ThisUser
<1>2. AnyRequest!add(t) = AnyProofs!add(t)
  BY DEF AnyRequest!add, AnyProofs!add, AnyRequest!Checks, AnyProofs!Checks, AnyRequest!None,
         AnyProofs!None, AnyRequest!Never, AnyProofs!Never, AnyRequest!NoUser,
         AnyProofs!NoUser, AnyRequest!Free, AnyProofs!Free
<1>3. AnyRequest!commit(t) = AnyProofs!commit(t) /\ AnyRequest!Fail(t) = AnyProofs!Fail(t)
  BY DEF AnyRequest!commit, AnyProofs!commit, AnyRequest!Stored, AnyProofs!Stored,
         AnyRequest!Fail, AnyProofs!Fail, AnyRequest!Idle, AnyProofs!Idle, AnyRequest!Free,
         AnyProofs!Free
<1> QED
  BY <1>1, <1>2, <1>3 DEF AnyRequest!Record, AnyProofs!Record

LEMMA AnyNext == AnyRequest!Init = AnyProofs!Init /\ AnyRequest!Next = AnyProofs!Next
<1>1. AnyRequest!Init = AnyProofs!Init
  BY DEF AnyRequest!Init, AnyProofs!Init, AnyRequest!Idle, AnyProofs!Idle, AnyRequest!Free,
         AnyProofs!Free
<1>2. AnyRequest!Queries = AnyProofs!Queries
  BY DEF AnyRequest!Queries, AnyProofs!Queries, AnyRequest!Never, AnyProofs!Never,
         AnyRequest!None, AnyProofs!None
<1>3. \A rows, q : AnyRequest!Window(rows, q) = AnyProofs!Window(rows, q)
  BY DEF AnyRequest!Window, AnyProofs!Window, AnyRequest!Min, AnyProofs!Min
<1>4. AnyRequest!List = AnyProofs!List
  BY <1>2, <1>3, AnyRows DEF AnyRequest!List, AnyProofs!List
<1>5. AnyRequest!CloseList = AnyProofs!CloseList /\ AnyRequest!Tick = AnyProofs!Tick
      /\ AnyRequest!ChangeShipment = AnyProofs!ChangeShipment
  BY DEF AnyRequest!CloseList, AnyProofs!CloseList, AnyRequest!Tick, AnyProofs!Tick,
         AnyRequest!ChangeShipment, AnyProofs!ChangeShipment, AnyRequest!Searching,
         AnyProofs!Searching, AnyRequest!Idle, AnyProofs!Idle, AnyRequest!None, AnyProofs!None,
         AnyRequest!Free, AnyProofs!Free
<1> QED
  BY <1>1, <1>4, <1>5, AnyRecord DEF AnyRequest!Next, AnyProofs!Next

(* So are Lists and ListsProofs.                                           *)
LEMMA ListSequences ==
  ASSUME NEW S
  PROVE  /\ Lists!Cardinality(S) = ListsProofs!Cardinality(S)
         /\ Lists!SetToSeqs(S) = ListsProofs!SetToSeqs(S)
<1>1. ASSUME NEW T PROVE Lists!Cardinality(T) = ListsProofs!Cardinality(T)
  BY DEF Lists!Cardinality, ListsProofs!Cardinality
<1> QED
  BY <1>1 DEF Lists!SetToSeqs, ListsProofs!SetToSeqs

LEMMA ListMatching ==
  ASSUME NEW q, NEW s
  PROVE  Lists!Matching(q, s) = ListsProofs!Matching(q, s)
BY DEF Lists!Matching, ListsProofs!Matching, Lists!None, ListsProofs!None

LEMMA ListHistory ==
  ASSUME NEW q, NEW s
  PROVE  /\ Lists!History(q, s) = ListsProofs!History(q, s)
         /\ Lists!Summary(q, s) = ListsProofs!Summary(q, s)
<1>1. Lists!History(q, s) = ListsProofs!History(q, s)
  <2>1. Lists!SetToSeqs(Lists!Matching(q, s))
          = ListsProofs!SetToSeqs(ListsProofs!Matching(q, s))
    BY ListMatching, ListSequences
  <2> QED
    BY <2>1
       DEF Lists!History, ListsProofs!History, Lists!InOrder, ListsProofs!InOrder, Lists!Later,
           ListsProofs!Later
<1>2. Lists!Summary(q, s) = ListsProofs!Summary(q, s)
  BY ListMatching, ListSequences
     DEF Lists!Summary, ListsProofs!Summary, Lists!latest_id, ListsProofs!latest_id
<1> QED
  BY <1>1, <1>2

LEMMA ListRows ==
  ASSUME NEW q
  PROVE  Lists!Rows(q) = ListsProofs!Rows(q)
<1> DEFINE S == {Lists!Summary(q, s) : s \in Lists!Selected(q)}
           T == {ListsProofs!Summary(q, s) : s \in ListsProofs!Selected(q)}
           Before(a, b) ==
             \/ events[a.last].sent > events[b.last].sent
             \/ events[a.last].sent = events[b.last].sent /\ a.shipment < b.shipment
<1>1. S = T
  <2>1. Lists!Selected(q) = ListsProofs!Selected(q)
    BY ListMatching DEF Lists!Selected, ListsProofs!Selected, Lists!None, ListsProofs!None
  <2> QED
    BY <2>1, ListHistory
<1>2. Lists!Summaries(q) =
        CHOOSE seq \in Lists!SetToSeqs(S) :
          \A i, j \in DOMAIN seq : i < j => Before(seq[i], seq[j])
  BY DEF Lists!Summaries, Lists!InOrder
<1>3. ListsProofs!Summaries(q) =
        CHOOSE seq \in ListsProofs!SetToSeqs(T) :
          \A i, j \in DOMAIN seq : i < j => Before(seq[i], seq[j])
  BY DEF ListsProofs!Summaries, ListsProofs!InOrder
<1> HIDE DEF S, T, Before
<1>4. Lists!SetToSeqs(S) = ListsProofs!SetToSeqs(T)
  BY <1>1, ListSequences
<1>5. Lists!Summaries(q) = ListsProofs!Summaries(q)
  BY <1>2, <1>3, <1>4
<1> QED
  BY <1>5, ListHistory DEF Lists!Rows, ListsProofs!Rows, Lists!Never, ListsProofs!Never

LEMMA ListRecord ==
  ASSUME NEW t
  PROVE  Lists!Record(t) = ListsProofs!Record(t)
<1>1. Lists!record_sms(t) = ListsProofs!record_sms(t)
  BY DEF Lists!record_sms, ListsProofs!record_sms, Lists!validate_sms_event,
         ListsProofs!validate_sms_event, Lists!ResolvedText, ListsProofs!ResolvedText,
         Lists!OptionalText, ListsProofs!OptionalText, Lists!Delivered, ListsProofs!Delivered,
         Lists!Event, ListsProofs!Event, Lists!None, ListsProofs!None, Lists!Never,
         ListsProofs!Never, Lists!NoUser, ListsProofs!NoUser, Lists!ThisUser,
         ListsProofs!ThisUser
<1>2. Lists!add(t) = ListsProofs!add(t)
  BY DEF Lists!add, ListsProofs!add, Lists!Checks, ListsProofs!Checks, Lists!None,
         ListsProofs!None, Lists!Never, ListsProofs!Never, Lists!NoUser, ListsProofs!NoUser,
         Lists!Free, ListsProofs!Free
<1>3. Lists!commit(t) = ListsProofs!commit(t) /\ Lists!Fail(t) = ListsProofs!Fail(t)
  BY DEF Lists!commit, ListsProofs!commit, Lists!Stored, ListsProofs!Stored, Lists!Fail,
         ListsProofs!Fail, Lists!Idle, ListsProofs!Idle, Lists!Free, ListsProofs!Free
<1> QED
  BY <1>1, <1>2, <1>3 DEF Lists!Record, ListsProofs!Record

LEMMA ListNext == Lists!Init = ListsProofs!Init /\ Lists!Next = ListsProofs!Next
<1>1. Lists!Init = ListsProofs!Init
  BY DEF Lists!Init, ListsProofs!Init, Lists!Idle, ListsProofs!Idle, Lists!Free, ListsProofs!Free
<1>2. Lists!Queries = ListsProofs!Queries
  BY DEF Lists!Queries, ListsProofs!Queries, Lists!Never, ListsProofs!Never, Lists!None,
         ListsProofs!None
<1>3. \A rows, q : Lists!Window(rows, q) = ListsProofs!Window(rows, q)
  BY DEF Lists!Window, ListsProofs!Window, Lists!Min, ListsProofs!Min
<1>4. Lists!List = ListsProofs!List
  BY <1>2, <1>3, ListRows DEF Lists!List, ListsProofs!List
<1>5. Lists!CloseList = ListsProofs!CloseList /\ Lists!Tick = ListsProofs!Tick
      /\ Lists!ChangeShipment = ListsProofs!ChangeShipment
  BY DEF Lists!CloseList, ListsProofs!CloseList, Lists!Tick, ListsProofs!Tick,
         Lists!ChangeShipment, ListsProofs!ChangeShipment, Lists!Searching,
         ListsProofs!Searching, Lists!Idle, ListsProofs!Idle, Lists!None, ListsProofs!None,
         Lists!Free, ListsProofs!Free
<1> QED
  BY <1>1, <1>4, <1>5, ListRecord DEF Lists!Next, ListsProofs!Next

(* --------------------------- the composition --------------------------- *)

(* The bounds and values of a part are some of those of Clients.           *)
LEMMA CodesSteps == CodesOnly!Init = Init /\ (CodesOnly!Next => Next)
<1>1. CodesOnly!Init = Init
  BY DEF CodesOnly!Init, Init, CodesOnly!Idle, Idle, CodesOnly!Free, Free
<1>2. ASSUME NEW t \in Threads, CodesOnly!Request(t) PROVE Request(t)
  <2>1. CodesOnly!Form \subseteq Form
    BY PartsAssumption DEF CodesOnly!Form, Form, CodesOnly!Bad, Bad
  <2>2. ASSUME NEW a, NEW form, CodesOnly!create_client(t, a, form) PROVE create_client(t, a, form)
    BY <2>2, PartsAssumption, BoundsAssumption
       DEF CodesOnly!create_client, create_client, CodesOnly!validate_client_fields,
           validate_client_fields, CodesOnly!DatesOrdered, DatesOrdered, CodesOnly!NoDate,
           NoDate, CodesOnly!Bad, Bad, CodesOnly!At, At
  <2>3. \A a, id, form : CodesOnly!update_client(t, a, id, form) => update_client(t, a, id, form)
    BY DEF CodesOnly!update_client, update_client, CodesOnly!At, At
  <2>4. \A a, id, active : CodesOnly!set_active(t, a, id, active) => set_active(t, a, id, active)
    BY DEF CodesOnly!set_active, set_active, CodesOnly!At, At
  <2> QED
    BY <1>2, <2>1, <2>2, <2>3, <2>4 DEF CodesOnly!Request, Request
<1>3. ASSUME NEW t \in Threads, CodesOnly!Step(t) PROVE Step(t)
  <2>1. CodesOnly!require_current_actor(t) => require_current_actor(t)
    BY DEF CodesOnly!require_current_actor, require_current_actor, CodesOnly!Answer, Answer,
           CodesOnly!Idle, Idle, CodesOnly!Free, Free, CodesOnly!At, At
  <2>2. CodesOnly!ReadClient(t) => ReadClient(t)
    BY DEF CodesOnly!ReadClient, ReadClient, CodesOnly!Save, Save, CodesOnly!Edited, Edited,
           CodesOnly!NewClient, NewClient, CodesOnly!validate_client_fields,
           validate_client_fields, CodesOnly!DatesOrdered, DatesOrdered, CodesOnly!NoDate,
           NoDate, CodesOnly!Bad, Bad, CodesOnly!Answer, Answer, CodesOnly!Idle, Idle,
           CodesOnly!Free, Free, CodesOnly!At, At
  <2>3. CodesOnly!ReadAgain(t) => ReadAgain(t)
    BY DEF CodesOnly!ReadAgain, ReadAgain, CodesOnly!At, At
  <2>4. CodesOnly!LockTimeOut(t) => LockTimeOut(t)
    BY DEF CodesOnly!LockTimeOut, LockTimeOut, CodesOnly!Answer, Answer, CodesOnly!Idle, Idle,
           CodesOnly!Free, Free, CodesOnly!At, At
  <2>5. CodesOnly!add(t) => add(t)
    BY DEF CodesOnly!add, add, CodesOnly!Reserved, Reserved, CodesOnly!Written, Written,
           CodesOnly!Answer, Answer, CodesOnly!Idle, Idle, CodesOnly!Free, Free, CodesOnly!At,
           At
  <2>6. CodesOnly!save(t) => save(t)
    BY DEF CodesOnly!save, save, CodesOnly!Updated, Updated, CodesOnly!Reserved, Reserved,
           CodesOnly!Written, Written, CodesOnly!DatesOrdered, DatesOrdered, CodesOnly!NoDate,
           NoDate, CodesOnly!Answer, Answer, CodesOnly!Idle, Idle, CodesOnly!Free, Free,
           CodesOnly!At, At
  <2>7. CodesOnly!commit(t) => commit(t)
    BY PartsAssumption, BoundsAssumption
       DEF CodesOnly!commit, commit, CodesOnly!AuditAdded, AuditAdded, CodesOnly!Disturbed,
           Disturbed, CodesOnly!Idle, Idle, CodesOnly!Free, Free, CodesOnly!At, At
  <2> QED
    BY <1>3, <2>1, <2>2, <2>3, <2>4, <2>5, <2>6, <2>7 DEF CodesOnly!Step, Step
<1>4. /\ \A t : CodesOnly!Fail(t) => Fail(t)
      /\ \A a : (CodesOnly!Revoke(a) => Revoke(a)) /\ (CodesOnly!Restore(a) => Restore(a))
  BY DEF CodesOnly!Fail, Fail, CodesOnly!Revoke, Revoke, CodesOnly!Restore, Restore, CodesOnly!PastCheck,
         PastCheck, CodesOnly!Answer, Answer,
         CodesOnly!Idle, Idle, CodesOnly!Free, Free
<1> QED
  BY <1>1, <1>2, <1>3, <1>4 DEF CodesOnly!Next, Next

LEMMA ContractsSteps == ContractsOnly!Init = Init /\ (ContractsOnly!Next => Next)
<1>1. ContractsOnly!Init = Init
  BY DEF ContractsOnly!Init, Init, ContractsOnly!Idle, Idle, ContractsOnly!Free, Free
<1>2. ASSUME NEW t \in Threads, ContractsOnly!Request(t) PROVE Request(t)
  <2>1. ContractsOnly!Form \subseteq Form
    BY PartsAssumption DEF ContractsOnly!Form, Form, ContractsOnly!Bad, Bad
  <2>2. ASSUME NEW a, NEW form, ContractsOnly!create_client(t, a, form) PROVE create_client(t, a, form)
    BY <2>2, PartsAssumption, BoundsAssumption
       DEF ContractsOnly!create_client, create_client, ContractsOnly!validate_client_fields,
           validate_client_fields, ContractsOnly!DatesOrdered, DatesOrdered,
           ContractsOnly!NoDate, NoDate, ContractsOnly!Bad, Bad, ContractsOnly!At, At
  <2>3. \A a, id, form : ContractsOnly!update_client(t, a, id, form) => update_client(t, a, id, form)
    BY DEF ContractsOnly!update_client, update_client, ContractsOnly!At, At
  <2>4. \A a, id, active : ContractsOnly!set_active(t, a, id, active) => set_active(t, a, id, active)
    BY DEF ContractsOnly!set_active, set_active, ContractsOnly!At, At
  <2> QED
    BY <1>2, <2>1, <2>2, <2>3, <2>4 DEF ContractsOnly!Request, Request
<1>3. ASSUME NEW t \in Threads, ContractsOnly!Step(t) PROVE Step(t)
  <2>1. ContractsOnly!require_current_actor(t) => require_current_actor(t)
    BY DEF ContractsOnly!require_current_actor, require_current_actor, ContractsOnly!Answer,
           Answer, ContractsOnly!Idle, Idle, ContractsOnly!Free, Free, ContractsOnly!At, At
  <2>2. ContractsOnly!ReadClient(t) => ReadClient(t)
    BY DEF ContractsOnly!ReadClient, ReadClient, ContractsOnly!Save, Save,
           ContractsOnly!Edited, Edited, ContractsOnly!NewClient, NewClient,
           ContractsOnly!validate_client_fields, validate_client_fields,
           ContractsOnly!DatesOrdered, DatesOrdered, ContractsOnly!NoDate, NoDate,
           ContractsOnly!Bad, Bad, ContractsOnly!Answer, Answer, ContractsOnly!Idle, Idle,
           ContractsOnly!Free, Free, ContractsOnly!At, At
  <2>3. ContractsOnly!ReadAgain(t) => ReadAgain(t)
    BY DEF ContractsOnly!ReadAgain, ReadAgain, ContractsOnly!At, At
  <2>4. ContractsOnly!LockTimeOut(t) => LockTimeOut(t)
    BY DEF ContractsOnly!LockTimeOut, LockTimeOut, ContractsOnly!Answer, Answer,
           ContractsOnly!Idle, Idle, ContractsOnly!Free, Free, ContractsOnly!At, At
  <2>5. ContractsOnly!add(t) => add(t)
    BY DEF ContractsOnly!add, add, ContractsOnly!Reserved, Reserved, ContractsOnly!Written,
           Written, ContractsOnly!Answer, Answer, ContractsOnly!Idle, Idle, ContractsOnly!Free,
           Free, ContractsOnly!At, At
  <2>6. ContractsOnly!save(t) => save(t)
    BY DEF ContractsOnly!save, save, ContractsOnly!Updated, Updated, ContractsOnly!Reserved,
           Reserved, ContractsOnly!Written, Written, ContractsOnly!DatesOrdered, DatesOrdered,
           ContractsOnly!NoDate, NoDate, ContractsOnly!Answer, Answer, ContractsOnly!Idle,
           Idle, ContractsOnly!Free, Free, ContractsOnly!At, At
  <2>7. ContractsOnly!commit(t) => commit(t)
    BY PartsAssumption, BoundsAssumption
       DEF ContractsOnly!commit, commit, ContractsOnly!AuditAdded, AuditAdded,
           ContractsOnly!Disturbed, Disturbed, ContractsOnly!Idle, Idle, ContractsOnly!Free,
           Free, ContractsOnly!At, At
  <2> QED
    BY <1>3, <2>1, <2>2, <2>3, <2>4, <2>5, <2>6, <2>7 DEF ContractsOnly!Step, Step
<1>4. /\ \A t : ContractsOnly!Fail(t) => Fail(t)
      /\ \A a : (ContractsOnly!Revoke(a) => Revoke(a)) /\ (ContractsOnly!Restore(a) => Restore(a))
  BY DEF ContractsOnly!Fail, Fail, ContractsOnly!Revoke, Revoke, ContractsOnly!Restore, Restore, ContractsOnly!PastCheck,
         PastCheck, ContractsOnly!Answer, Answer,
         ContractsOnly!Idle, Idle, ContractsOnly!Free, Free
<1> QED
  BY <1>1, <1>2, <1>3, <1>4 DEF ContractsOnly!Next, Next

(* A behaviour of MCRegisters shows the clients a behaviour of Clients.    *)
LEMMA ClientsBehave == RegistersSpec => Spec
<1>1. RegistersInit => Init
  BY DEF RegistersInit
<1>2. [RegistersNext]_<<vars, sms, part>> => [Next]_vars
  BY CodesSteps, ContractsSteps DEF RegistersNext
<1> QED
  BY <1>1, <1>2, PTL DEF RegistersSpec, Spec

(* The register of SMS events is that of the part.                         *)
SmsPart ==
  /\ part \in {"codes", "contracts", "requests", "lists"}
  /\ part = "lists" => ListsProofs!SmsInv
  /\ part # "lists" => AnyProofs!SmsInv

LEMMA AssumptionsHold == AnyProofs!SmsAssumption /\ ListsProofs!SmsAssumption
<1>1. AnyRequest!SmsAssumption = AnyProofs!SmsAssumption
  BY DEF AnyRequest!SmsAssumption, AnyProofs!SmsAssumption, AnyRequest!Request,
         AnyProofs!Request, AnyRequest!IsFiniteSet, AnyProofs!IsFiniteSet, AnyRequest!Texts,
         AnyProofs!Texts, AnyRequest!SmsSenderType, AnyProofs!SmsSenderType,
         AnyRequest!SmsSendStatus, AnyProofs!SmsSendStatus, AnyRequest!SmsMessageType,
         AnyProofs!SmsMessageType, AnyRequest!None, AnyProofs!None, AnyRequest!Never,
         AnyProofs!Never, AnyRequest!Free, AnyProofs!Free
<1>2. Lists!SmsAssumption = ListsProofs!SmsAssumption
  BY DEF Lists!SmsAssumption, ListsProofs!SmsAssumption, Lists!Request, ListsProofs!Request,
         Lists!IsFiniteSet, ListsProofs!IsFiniteSet, Lists!Texts, ListsProofs!Texts,
         Lists!SmsSenderType, ListsProofs!SmsSenderType, Lists!SmsSendStatus,
         ListsProofs!SmsSendStatus, Lists!SmsMessageType, ListsProofs!SmsMessageType,
         Lists!None, ListsProofs!None, Lists!Never, ListsProofs!Never, Lists!Free,
         ListsProofs!Free
<1> QED
  BY <1>1, <1>2, PartsAssumption

LEMMA SmsPartHolds == RegistersSpec => []SmsPart
<1>1. RegistersInit => SmsPart
  BY AnyNext, ListNext, AssumptionsHold, AnyProofs!SmsInit, ListsProofs!SmsInit
     DEF RegistersInit, SmsPart
<1>2. ASSUME SmsPart, [RegistersNext]_<<vars, sms, part>> PROVE SmsPart'
  <2>1. CASE part = "requests" /\ AnyRequest!Next /\ UNCHANGED <<vars, part>>
    <3>1. AnyProofs!SmsInv'
      <4>1. AnyProofs!Next /\ AnyProofs!SmsInv
        BY <1>2, <2>1, AnyNext DEF SmsPart
      <4> QED
        BY <4>1, AssumptionsHold, AnyProofs!SmsStep
    <3> QED
      BY <1>2, <2>1, <3>1 DEF SmsPart
  <2>2. CASE part = "lists" /\ Lists!Next /\ UNCHANGED <<vars, part>>
    <3>1. ListsProofs!SmsInv'
      <4>1. ListsProofs!Next /\ ListsProofs!SmsInv
        BY <1>2, <2>2, ListNext DEF SmsPart
      <4> QED
        BY <4>1, AssumptionsHold, ListsProofs!SmsStep
    <3> QED
      BY <1>2, <2>2, <3>1 DEF SmsPart
  <2>3. CASE UNCHANGED <<sms, part>>
    <3>1. UNCHANGED AnyProofs!vars /\ UNCHANGED ListsProofs!vars
      BY <2>3 DEF sms, AnyProofs!vars, ListsProofs!vars
    <3>2. AnyProofs!SmsInv => AnyProofs!SmsInv'
      BY <3>1, AssumptionsHold, AnyProofs!SmsStep
    <3>3. ListsProofs!SmsInv => ListsProofs!SmsInv'
      BY <3>1, AssumptionsHold, ListsProofs!SmsStep
    <3> QED
      BY <1>2, <2>3, <3>2, <3>3 DEF SmsPart
  <2> QED
    BY <1>2, <2>1, <2>2, <2>3 DEF RegistersNext
<1> QED
  BY <1>1, <1>2, PTL DEF RegistersSpec

(* What the invariants of the two registers say of their instances.        *)
LEMMA AnyConsistent ==
  ASSUME AnyProofs!SmsInv
  PROVE  /\ AnyRequest!TypeOK /\ AnyRequest!NoRefusedWrite
         /\ Lists!AuditPerEvent /\ Lists!PageKeepsPromise
<1>1. AnyProofs!TypeOK /\ AnyProofs!AuditPerEvent
  BY DEF AnyProofs!SmsInv
<1>2. AnyProofs!NoRefusedWrite /\ AnyProofs!PageKeepsPromise
  BY AssumptionsHold, AnyProofs!SmsSafe
<1>3. Lists!PageKeepsPromise
  <2>1. \A S : Lists!Cardinality(S) = AnyProofs!Cardinality(S)
    BY DEF Lists!Cardinality, AnyProofs!Cardinality
  <2> QED
    BY <1>2, <2>1 DEF Lists!PageKeepsPromise, AnyProofs!PageKeepsPromise
<1> QED
  BY <1>1, <1>2, <1>3
     DEF AnyRequest!TypeOK, AnyProofs!TypeOK, AnyRequest!NoRefusedWrite, AnyProofs!NoRefusedWrite,
         AnyRequest!Checks, AnyProofs!Checks, AnyRequest!None, AnyProofs!None, AnyRequest!Never,
         AnyProofs!Never, AnyRequest!NoUser, AnyProofs!NoUser, AnyRequest!Free, AnyProofs!Free,
         Lists!AuditPerEvent, AnyProofs!AuditPerEvent

LEMMA ListsConsistent ==
  ASSUME ListsProofs!SmsInv
  PROVE  /\ Lists!TypeOK /\ Lists!ListsAgree
         /\ Lists!AuditPerEvent /\ Lists!PageKeepsPromise
<1>1. ListsProofs!TypeOK /\ ListsProofs!AuditPerEvent
  BY DEF ListsProofs!SmsInv
<1>2. ListsProofs!ListsAgree /\ ListsProofs!PageKeepsPromise
  BY AssumptionsHold, ListsProofs!SmsSafe
<1>3. Lists!ListsAgree
  BY <1>2, ListHistory DEF Lists!ListsAgree, ListsProofs!ListsAgree, Lists!None, ListsProofs!None
<1>4. Lists!PageKeepsPromise
  BY <1>2, ListSequences DEF Lists!PageKeepsPromise, ListsProofs!PageKeepsPromise
<1> QED
  BY <1>1, <1>3, <1>4
     DEF Lists!TypeOK, ListsProofs!TypeOK, Lists!Free, ListsProofs!Free, Lists!AuditPerEvent,
         ListsProofs!AuditPerEvent

(* Whatever fails, times out or dies between two INSERTs, each client has  *)
(* its one CLIENT_CREATED event before all its others, and each SMS event  *)
(* its one audit event; no accepted SMS is refused by the table; a page    *)
(* falls short of its total only by shipments whose recipient was edited   *)
(* while it was searched for; history and summary of a shipment agree.     *)
THEOREM RegistersAreConsistent == RegistersSpec => []RegistersConsistent
<1>1. Inv /\ SmsPart => RegistersConsistent
  BY AnyConsistent, ListsConsistent DEF Inv, SmsPart, RegistersConsistent
<1> QED
  BY <1>1, ClientsBehave, InvHolds, SmsPartHolds, PTL

(* What is proved of Clients holds of every part of MCRegisters.           *)
THEOREM ClientsStayCorrect ==
  RegistersSpec => []RowsLawful /\ QuietCallsExact /\ OnlyAdmittedCommitLate
BY ClientsBehave, RowsStayLawful, QuietCallsAreExact, LateCommitsWereAdmitted, PTL
=============================================================================
