--------------------------- MODULE ShipmentsProofs ---------------------------
(***************************************************************************)
(* Proofs about Shipments for any number of workers, clients and numbers   *)
(* and any bounds.                                                         *)
(*                                                                         *)
(* The inductive invariant adds to the types what ties a call to its       *)
(* transaction: the number it works on, the writes it still has to do and  *)
(* the lock.  Every action is first shown to be one of a few shapes (a     *)
(* call made, refused, prepared, a write, a commit), and each part of the  *)
(* invariant then follows from the shape.                                  *)
(*                                                                         *)
(* The second part says more of a committed shipment: its history, its     *)
(* problems and its time stamps agree with its status; which writes the    *)
(* database may refuse; what may happen to an archived shipment; and that  *)
(* the services implement ShipmentLedger.                                  *)
(*                                                                         *)
(* A service method plans its row, its history entry and its problem from  *)
(* what it read, long before it commits.  Planned says what the plan owes  *)
(* to the shipment: for good, as far as it rests on what never changes,    *)
(* and as long as nobody has stepped the version since (Fresh) for the     *)
(* rest.  The guarded UPDATE makes sure that only a fresh plan commits.    *)
(***************************************************************************)
EXTENDS Shipments, FiniteSetTheorems, SequenceTheorems, TLAPS

(* The writes of each service method, in their order.                      *)
Plan(op) ==
  CASE op = "create_shipment"                         -> <<"number", "insert", "audit">>
    [] op = "record_control_weight"                   -> <<"check", "audit">>
    [] op \in {"update_shipment", "archive_shipment",
               "restore_shipment"}                    -> <<"shipment", "audit">>
    [] op = "change_status"                           -> <<"shipment", "history", "audit">>
    [] op = "report_problem"                          -> <<"shipment", "problem", "history", "audit">>
    [] op = "resolve_problem"                         -> <<"resolution", "shipment", "history", "audit">>

(* What may be left of them once the first is done.                        *)
Rest(op) ==
  CASE op = "create_shipment"                         -> {<<"insert", "audit">>, <<"audit">>, <<>>}
    [] op = "record_control_weight"                   -> {<<"audit">>, <<>>}
    [] op \in {"update_shipment", "archive_shipment",
               "restore_shipment"}                    -> {<<"audit">>, <<>>}
    [] op = "change_status"                           -> {<<"history", "audit">>, <<"audit">>, <<>>}
    [] op = "report_problem"                          ->
         {<<"problem", "history", "audit">>, <<"history", "audit">>, <<"audit">>, <<>>}
    [] op = "resolve_problem"                         ->
         {<<"shipment", "history", "audit">>, <<"history", "audit">>, <<"audit">>, <<>>}

(* A call between its submission and its end.                              *)
CallOK(w) ==
  /\ request[w].op \in OperationNames
  /\ request[w].op # "create_shipment" => request[w].number \in DOMAIN ledger
  /\ request[w].op = "change_status" => request[w].target \in Statuses
  /\ request[w].op = "create_shipment" /\ lock = w => request[w].number = next_value
  /\ pc[w] = "problem" => request[w].op \in {"report_problem", "resolve_problem"}

(* Before its first write a call holds no lock and has every write to do.  *)
WritesOK(w) ==
  /\ lock = w => pc[w] = "write"
  /\ pc[w] = "write" => IF lock = w THEN tx[w].todo \in Rest(request[w].op)
                                    ELSE tx[w].todo = Plan(request[w].op)

Calls == \A w \in Workers : (pc[w] # "idle" => CallOK(w)) /\ WritesOK(w)

Inv == TypeOK /\ NumbersInOrder /\ next_value >= 1 /\ Calls

(* ------------------------------- shapes -------------------------------- *)

Asked(w) ==
  /\ pc[w] = "idle"
  /\ pc' = [pc EXCEPT ![w] = "read"]
  /\ \E r \in Request :
       /\ r.op \in OperationNames
       /\ r.op # "create_shipment" => r.number \in DOMAIN ledger
       /\ r.op = "change_status" => r.target \in Statuses
       /\ request' = [request EXCEPT ![w] = r]
  /\ UNCHANGED <<ledger, next_value, active, clock, lock, tx>>

SecondRead(w) ==
  /\ pc[w] = "read"
  /\ request[w].op \in {"report_problem", "resolve_problem"}
  /\ pc' = [pc EXCEPT ![w] = "problem"]
  /\ \E row \in Row : tx' = [tx EXCEPT ![w].row = row]
  /\ UNCHANGED <<ledger, next_value, active, clock, lock, request>>

Prepared(w) ==
  /\ pc[w] \in {"read", "problem"}
  /\ \E row \in Row, entry \in HistoryEntry, problem \in Nat :
       Prepare(w, row, entry, problem, Plan(request[w].op))

Wrote(w) ==
  /\ pc[w] = "write"
  /\ lock \in {w, NoWorker}
  /\ tx[w].todo # <<>>
  /\ \E draft \in Shipment : Written(w, draft)
  /\ IF Head(tx[w].todo) = "number"
     THEN request' = [request EXCEPT ![w].number = next_value]
     ELSE request' = request

Elsewhere ==
  /\ UNCHANGED <<ledger, next_value, lock, pc, request, tx>>
  /\ clock' \in {clock, clock + 1}
  /\ active' \in [Clients -> BOOLEAN]

LEMMA StoredShipment ==
  ASSUME TypeOK, NEW n \in DOMAIN ledger
  PROVE  /\ ledger[n] \in Shipment
         /\ ledger[n].row \in Row
         /\ ledger[n].problems \in Seq(Problem)
  BY DEF TypeOK, Shipment

LEMMA AskedVersioned ==
  ASSUME Inv, NEW w \in Workers, NEW r \in Request, AskVersioned(w, r),
         r.op \in OperationNames, r.op = "change_status" => r.target \in Statuses
  PROVE  Asked(w)
<1>1. PICK n \in DOMAIN ledger : \E v \in 1 .. ledger[n].row.version :
        Ask(w, [r EXCEPT !.number = n, !.expected = v])
  BY DEF AskVersioned
<1>2. PICK v \in 1 .. ledger[n].row.version : Ask(w, [r EXCEPT !.number = n, !.expected = v])
  BY <1>1
<1>3. n \in Nat /\ v \in Nat
  BY <1>1, <1>2, StoredShipment DEF Inv, TypeOK, Row
<1> DEFINE q == [r EXCEPT !.number = n, !.expected = v]
<1>4. q \in Request /\ q.op = r.op /\ q.number = n /\ q.target = r.target
  BY <1>3 DEF Request
<1> HIDE DEF q
<1>5. Ask(w, q)
  BY <1>2 DEF q
<1> QED
  BY <1>4, <1>5 DEF Ask, Asked

LEMMA AskedShape ==
  ASSUME Inv, NEW w \in Workers, Submit(w)
  PROVE  Asked(w)
<1>1. NoRequest \in Request
  BY DEF NoRequest, Request
<1>2. CASE SubmitCreate(w)
  BY <1>1, <1>2 DEF SubmitCreate, Ask, Asked, NoRequest, Request, OperationNames
<1>3. CASE SubmitPlain(w)
  <2>1. PICK op \in {"update_shipment", "archive_shipment", "restore_shipment"} :
          AskVersioned(w, [NoRequest EXCEPT !.op = op])
    BY <1>3 DEF SubmitPlain
  <2> QED
    BY <2>1, AskedVersioned DEF NoRequest, Request, OperationNames
<1>4. CASE SubmitStatus(w)
  <2>1. PICK t \in Targets, o \in BOOLEAN, x \in Texts :
          AskVersioned(w, [NoRequest EXCEPT !.op = "change_status", !.target = t,
                                            !.override = o, !.text = x])
    BY <1>4 DEF SubmitStatus
  <2> QED
    BY <2>1, AskedVersioned, TargetsAssumption, TextsAssumption
    DEF NoRequest, Request, OperationNames
<1>5. CASE SubmitReport(w)
  <2>1. PICK x \in Texts :
          AskVersioned(w, [NoRequest EXCEPT !.op = "report_problem", !.text = x])
    BY <1>5 DEF SubmitReport
  <2> QED
    BY <2>1, AskedVersioned, TextsAssumption DEF NoRequest, Request, OperationNames
<1>6. CASE SubmitResolve(w)
  <2>1. PICK t \in Targets \cup {ServiceDefault}, x \in Texts :
          AskVersioned(w, [NoRequest EXCEPT !.op = "resolve_problem", !.target = t, !.text = x])
    BY <1>6 DEF SubmitResolve
  <2> QED
    BY <2>1, AskedVersioned, TargetsAssumption, TextsAssumption
    DEF NoRequest, Request, OperationNames
<1>7. CASE SubmitCheck(w)
  <2>1. PICK n \in DOMAIN ledger :
          Ask(w, [NoRequest EXCEPT !.op = "record_control_weight", !.number = n])
    BY <1>7 DEF SubmitCheck
  <2>2. n \in Nat
    BY <2>1 DEF Inv, TypeOK
  <2> QED
    BY <2>1, <2>2 DEF Ask, Asked, NoRequest, Request, OperationNames
<1> QED
  BY <1>2, <1>3, <1>4, <1>5, <1>6, <1>7 DEF Submit

LEMMA StatusTypes ==
  ASSUME TypeOK, NEW row \in Row, NEW old \in Statuses, NEW new \in Statuses,
         NEW override \in BOOLEAN
  PROVE  /\ apply_status(row, new, clock) \in Row
         /\ StatusEntry(old, new, override) \in HistoryEntry
         /\ row.status \in Statuses
  BY DEF TypeOK, apply_status, StatusEntry, Row, HistoryEntry

(* A service method refuses the call, reads on, or prepares its plan.      *)
LEMMA ServiceShape ==
  ASSUME Inv, NEW w \in Workers, Service(w)
  PROVE  Return(w) \/ SecondRead(w) \/ Prepared(w)
<1>1. FirstRow \in Row /\ NoEntry \in HistoryEntry /\ 0 \in Nat
  BY DEF FirstRow, NoEntry, Row, HistoryEntry, Statuses, Never
<1>2. request[w].op # "create_shipment" /\ pc[w] # "idle" => StoredRow(w) \in Row
  BY StoredShipment DEF Inv, Calls, CallOK, StoredRow
<1>3. CASE create_shipment(w)
  BY <1>1, <1>3 DEF create_shipment, Reading, Prepared, Plan
<1>4. CASE record_control_weight(w)
  BY <1>1, <1>2, <1>4 DEF record_control_weight, Reading, Prepared, Plan
<1>5. CASE update_shipment(w)
  BY <1>1, <1>2, <1>5 DEF update_shipment, Reading, Prepared, Plan
<1>6. CASE set_archived(w)
  <2> DEFINE archived == [StoredRow(w) EXCEPT
                            !.archived = request[w].op = "archive_shipment"]
  <2>1. archived \in Row
    BY <1>2, <1>6 DEF set_archived, Row
  <2>2. Return(w) \/ Prepare(w, archived, NoEntry, 0, <<"shipment", "audit">>)
    BY <1>6 DEF set_archived
  <2>3. Plan(request[w].op) = <<"shipment", "audit">>
    BY <1>6 DEF set_archived, Plan
  <2> QED
    BY <1>1, <1>6, <2>1, <2>2, <2>3 DEF set_archived, Prepared
<1>7. CASE change_status(w)
  <2> DEFINE row == StoredRow(w)
             target == request[w].target
             override == ~can_transition(row.status, target) /\ request[w].override
  <2>1. /\ pc[w] = "read" /\ request[w].op = "change_status"
        /\ \/ Return(w)
           \/ Prepare(w, apply_status(row, target, clock),
                      StatusEntry(row.status, target, override),
                      0, <<"shipment", "history", "audit">>)
    BY <1>7 DEF change_status, Reading
  <2>2. row \in Row /\ target \in Statuses /\ row.status \in Statuses
    BY <1>2, <2>1 DEF Inv, Calls, CallOK, Row
  <2>3. override \in BOOLEAN
    BY <2>1 DEF Inv, TypeOK, Request, can_transition
  <2>4. /\ apply_status(row, target, clock) \in Row
        /\ StatusEntry(row.status, target, override) \in HistoryEntry
    BY <2>2, <2>3, StatusTypes DEF Inv
  <2>5. Plan(request[w].op) = <<"shipment", "history", "audit">>
    BY <2>1 DEF Plan
  <2> HIDE DEF row, target, override
  <2> QED
    BY <1>1, <2>1, <2>4, <2>5 DEF Prepared
<1>8. CASE ReadForProblem(w)
  BY <1>2, <1>8 DEF ReadForProblem, SecondRead
<1>9. CASE report_problem(w)
  <2> DEFINE row == tx[w].row
  <2>1. /\ pc[w] = "problem" /\ request[w].op = "report_problem"
        /\ \/ Return(w)
           \/ Prepare(w, apply_status(row, "PROBLEM", clock),
                      StatusEntry(row.status, "PROBLEM", FALSE),
                      0, <<"shipment", "problem", "history", "audit">>)
    BY <1>9 DEF report_problem
  <2>2. row \in Row /\ row.status \in Statuses /\ "PROBLEM" \in Statuses
    BY DEF Inv, TypeOK, Tx, Row, Statuses
  <2>3. /\ apply_status(row, "PROBLEM", clock) \in Row
        /\ StatusEntry(row.status, "PROBLEM", FALSE) \in HistoryEntry
    BY <2>2, StatusTypes DEF Inv
  <2>4. Plan(request[w].op) = <<"shipment", "problem", "history", "audit">>
    BY <2>1 DEF Plan
  <2> QED
    BY <1>1, <2>1, <2>3, <2>4 DEF Prepared
<1>10. CASE resolve_problem(w)
  <2> DEFINE row == tx[w].row
             problems == ledger[request[w].number].problems
             Target(p) == IF request[w].target = ServiceDefault
                          THEN problems[p].previous_status ELSE request[w].target
  <2>1. pc[w] = "problem" /\ request[w].op = "resolve_problem"
    BY <1>10 DEF resolve_problem
  <2>2. \/ Return(w)
        \/ \E p \in OpenProblems(problems) :
             Prepare(w, apply_status(row, Target(p), clock),
                     StatusEntry("PROBLEM", Target(p), FALSE),
                     p, <<"resolution", "shipment", "history", "audit">>)
    BY <1>10 DEF resolve_problem
  <2>3. row \in Row /\ "PROBLEM" \in Statuses
    BY DEF Inv, TypeOK, Tx, Row, Statuses
  <2>4. problems \in Seq(Problem)
    BY <2>1, StoredShipment DEF Inv, Calls, CallOK
  <2>5. ASSUME NEW p \in OpenProblems(problems)
        PROVE  /\ p \in Nat
               /\ apply_status(row, Target(p), clock) \in Row
               /\ StatusEntry("PROBLEM", Target(p), FALSE) \in HistoryEntry
    <3>1. p \in 1 .. Len(problems) /\ p \in Nat /\ problems[p] \in Problem
      BY <2>4, <2>5, LenProperties, ElementOfSeq DEF OpenProblems
    <3>2. Target(p) \in Statuses
      BY <3>1 DEF Problem, Inv, TypeOK, Request
    <3>3. \A t \in Statuses : /\ apply_status(row, t, clock) \in Row
                              /\ StatusEntry("PROBLEM", t, FALSE) \in HistoryEntry
      BY <2>3, StatusTypes DEF Inv
    <3> QED
      BY <3>1, <3>2, <3>3
  <2>6. Plan(request[w].op) = <<"resolution", "shipment", "history", "audit">>
    BY <2>1 DEF Plan
  <2> HIDE DEF row, problems, Target
  <2> QED
    BY <2>1, <2>2, <2>5, <2>6 DEF Prepared
<1> QED
  BY <1>3, <1>4, <1>5, <1>6, <1>7, <1>8, <1>9, <1>10 DEF Service

(* --------------------------- the transaction --------------------------- *)

LEMMA WriterState ==
  ASSUME Inv, NEW w \in Workers, pc[w] = "write"
  PROVE  /\ request[w].op \in OperationNames
         /\ tx[w] \in Tx
         /\ lock = w => tx[w].todo \in Rest(request[w].op)
         /\ lock # w => tx[w].todo = Plan(request[w].op)
  BY DEF Inv, TypeOK, Calls, CallOK, WritesOK

LEMMA Tails ==
  /\ Head(<<"audit">>) = "audit" /\ Tail(<<"audit">>) = <<>>
  /\ Head(<<"insert", "audit">>) = "insert" /\ Tail(<<"insert", "audit">>) = <<"audit">>
  /\ Head(<<"history", "audit">>) = "history" /\ Tail(<<"history", "audit">>) = <<"audit">>
  /\ Head(<<"problem", "history", "audit">>) = "problem" /\ Tail(<<"problem", "history", "audit">>)
       = <<"history", "audit">>
  /\ Head(<<"shipment", "history", "audit">>) = "shipment" /\ Tail(<<"shipment", "history", "audit">>)
       = <<"history", "audit">>
  /\ Head(<<"number", "insert", "audit">>) = "number" /\ Tail(<<"number", "insert", "audit">>)
       = <<"insert", "audit">>
  /\ Head(<<"check", "audit">>) = "check" /\ Tail(<<"check", "audit">>) = <<"audit">>
  /\ Head(<<"shipment", "audit">>) = "shipment" /\ Tail(<<"shipment", "audit">>) = <<"audit">>
  /\ Head(<<"shipment", "problem", "history", "audit">>) = "shipment" /\ Tail(<<"shipment", "problem", "history", "audit">>)
       = <<"problem", "history", "audit">>
  /\ Head(<<"resolution", "shipment", "history", "audit">>) = "resolution" /\ Tail(<<"resolution", "shipment", "history", "audit">>)
       = <<"shipment", "history", "audit">>
  OBVIOUS

(* Only a new shipment takes a number or is inserted, number first.        *)
LEMMA PlanFacts ==
  ASSUME NEW op \in OperationNames
  PROVE  /\ Plan(op) # <<>>
         /\ Head(Plan(op)) = "number" <=> op = "create_shipment"
         /\ Head(Plan(op)) = "insert" => op = "create_shipment"
         /\ Tail(Plan(op)) \in Rest(op)
         /\ \A todo \in Rest(op) :
              todo # <<>> => /\ Head(todo) # "number"
                             /\ Tail(todo) \in Rest(op)
<1>1. CASE op = "create_shipment"
  <2>1. /\ Plan(op) = <<"number", "insert", "audit">>
        /\ Rest(op) = {<<"insert", "audit">>, <<"audit">>, <<>>}
    BY <1>1 DEF Plan, Rest
  <2>2. Plan(op) # <<>>
    BY <2>1
  <2>3. /\ Head(Plan(op)) = "number" <=> op = "create_shipment"
        /\ Head(Plan(op)) = "insert" => op = "create_shipment"
    BY <1>1, <2>1, Tails
  <2>4. Tail(Plan(op)) \in Rest(op)
    BY <2>1, Tails
  <2>5. \A todo \in Rest(op) :
          todo # <<>> => Head(todo) # "number" /\ Tail(todo) \in Rest(op)
    BY <2>1, Tails
  <2> QED
    BY <2>2, <2>3, <2>4, <2>5
<1>2. CASE op = "record_control_weight"
  <2>1. /\ Plan(op) = <<"check", "audit">>
        /\ Rest(op) = {<<"audit">>, <<>>}
    BY <1>2 DEF Plan, Rest
  <2>2. Plan(op) # <<>>
    BY <2>1
  <2>3. /\ Head(Plan(op)) = "number" <=> op = "create_shipment"
        /\ Head(Plan(op)) = "insert" => op = "create_shipment"
    BY <1>2, <2>1, Tails
  <2>4. Tail(Plan(op)) \in Rest(op)
    BY <2>1, Tails
  <2>5. \A todo \in Rest(op) :
          todo # <<>> => Head(todo) # "number" /\ Tail(todo) \in Rest(op)
    BY <2>1, Tails
  <2> QED
    BY <2>2, <2>3, <2>4, <2>5
<1>3. CASE op \in {"update_shipment", "archive_shipment", "restore_shipment"}
  <2>1. /\ Plan(op) = <<"shipment", "audit">>
        /\ Rest(op) = {<<"audit">>, <<>>}
    BY <1>3 DEF Plan, Rest
  <2>2. Plan(op) # <<>>
    BY <2>1
  <2>3. /\ Head(Plan(op)) = "number" <=> op = "create_shipment"
        /\ Head(Plan(op)) = "insert" => op = "create_shipment"
    BY <1>3, <2>1, Tails
  <2>4. Tail(Plan(op)) \in Rest(op)
    BY <2>1, Tails
  <2>5. \A todo \in Rest(op) :
          todo # <<>> => Head(todo) # "number" /\ Tail(todo) \in Rest(op)
    BY <2>1, Tails
  <2> QED
    BY <2>2, <2>3, <2>4, <2>5
<1>4. CASE op = "change_status"
  <2>1. /\ Plan(op) = <<"shipment", "history", "audit">>
        /\ Rest(op) = {<<"history", "audit">>, <<"audit">>, <<>>}
    BY <1>4 DEF Plan, Rest
  <2>2. Plan(op) # <<>>
    BY <2>1
  <2>3. /\ Head(Plan(op)) = "number" <=> op = "create_shipment"
        /\ Head(Plan(op)) = "insert" => op = "create_shipment"
    BY <1>4, <2>1, Tails
  <2>4. Tail(Plan(op)) \in Rest(op)
    BY <2>1, Tails
  <2>5. \A todo \in Rest(op) :
          todo # <<>> => Head(todo) # "number" /\ Tail(todo) \in Rest(op)
    BY <2>1, Tails
  <2> QED
    BY <2>2, <2>3, <2>4, <2>5
<1>5. CASE op = "report_problem"
  <2>1. /\ Plan(op) = <<"shipment", "problem", "history", "audit">>
        /\ Rest(op) = {<<"problem", "history", "audit">>, <<"history", "audit">>, <<"audit">>, <<>>}
    BY <1>5 DEF Plan, Rest
  <2>2. Plan(op) # <<>>
    BY <2>1
  <2>3. /\ Head(Plan(op)) = "number" <=> op = "create_shipment"
        /\ Head(Plan(op)) = "insert" => op = "create_shipment"
    BY <1>5, <2>1, Tails
  <2>4. Tail(Plan(op)) \in Rest(op)
    BY <2>1, Tails
  <2>5. \A todo \in Rest(op) :
          todo # <<>> => Head(todo) # "number" /\ Tail(todo) \in Rest(op)
    BY <2>1, Tails
  <2> QED
    BY <2>2, <2>3, <2>4, <2>5
<1>6. CASE op = "resolve_problem"
  <2>1. /\ Plan(op) = <<"resolution", "shipment", "history", "audit">>
        /\ Rest(op) = {<<"shipment", "history", "audit">>, <<"history", "audit">>, <<"audit">>, <<>>}
    BY <1>6 DEF Plan, Rest
  <2>2. Plan(op) # <<>>
    BY <2>1
  <2>3. /\ Head(Plan(op)) = "number" <=> op = "create_shipment"
        /\ Head(Plan(op)) = "insert" => op = "create_shipment"
    BY <1>6, <2>1, Tails
  <2>4. Tail(Plan(op)) \in Rest(op)
    BY <2>1, Tails
  <2>5. \A todo \in Rest(op) :
          todo # <<>> => Head(todo) # "number" /\ Tail(todo) \in Rest(op)
    BY <2>1, Tails
  <2> QED
    BY <2>2, <2>3, <2>4, <2>5
<1> QED
  BY <1>1, <1>2, <1>3, <1>4, <1>5, <1>6 DEF OperationNames

LEMMA PlanType ==
  ASSUME NEW op \in OperationNames
  PROVE  Plan(op) \in Seq(Tables)
<1>1. /\ <<"number", "insert", "audit">> \in Seq(Tables)
      /\ <<"check", "audit">> \in Seq(Tables)
      /\ <<"shipment", "audit">> \in Seq(Tables)
      /\ <<"shipment", "history", "audit">> \in Seq(Tables)
      /\ <<"shipment", "problem", "history", "audit">> \in Seq(Tables)
      /\ <<"resolution", "shipment", "history", "audit">> \in Seq(Tables)
  BY DEF Tables
<1> QED
  BY <1>1 DEF OperationNames, Plan

LEMMA DraftType ==
  ASSUME Inv, NEW w \in Workers, pc[w] = "write",
         Head(tx[w].todo) # "number"
  PROVE  Draft(w) \in Shipment
<1>1. CASE lock = w
  BY <1>1, WriterState DEF Draft, Tx
<1>2. CASE lock # w
  <2>1. request[w].op # "create_shipment"
    BY <1>2, WriterState, PlanFacts
  <2> QED
    BY <1>2, <2>1, StoredShipment DEF Draft, Inv, Calls, CallOK
<1> QED
  BY <1>1, <1>2

LEMMA WriteShape ==
  ASSUME Inv, NEW w \in Workers, Write(w)
  PROVE  Return(w) \/ Wrote(w)
<1>1. clock \in Nat /\ tx[w] \in Tx /\ next_value \in Nat
  BY DEF Inv, TypeOK
<1>2. tx[w].row \in Row /\ tx[w].entry \in HistoryEntry /\ tx[w].draft \in Shipment
  BY <1>1 DEF Tx
<1>3. ASSUME NEW table, Writing(w, table), table # "number"
      PROVE  /\ Draft(w) \in Shipment
             /\ \A draft \in Shipment : Written(w, draft) /\ UNCHANGED request => Wrote(w)
  BY <1>3, DraftType DEF Writing, Wrote
<1>4. CASE allocate(w)
  <2>1. Received(request[w].client) \in Shipment
    BY DEF Inv, TypeOK, Request, Received, Shipment, FirstRow, Row, Statuses, Never
  <2> QED
    BY <1>4, <2>1 DEF allocate, Writing, Wrote
<1>5. CASE FlushInsert(w)
  BY <1>2, <1>3, <1>5 DEF FlushInsert
<1>6. CASE FlushShipment(w)
  <2> DEFINE draft == [Draft(w) EXCEPT !.row = [tx[w].row EXCEPT !.version = @ + 1]]
  <2>1. Writing(w, "shipment") /\ (Return(w) \/ (Written(w, draft) /\ UNCHANGED request))
    BY <1>6 DEF FlushShipment
  <2>2. Draft(w) \in Shipment
    BY <1>3, <2>1
  <2>3. [tx[w].row EXCEPT !.version = @ + 1] \in Row
    BY <1>2 DEF Row
  <2>4. draft \in Shipment
    BY <2>2, <2>3 DEF Shipment
  <2> HIDE DEF draft
  <2> QED
    BY <1>3, <2>1, <2>4
<1>7. CASE add_problem(w)
  <2> DEFINE problem == [previous_status |-> tx[w].entry.old_status,
                         reported_at |-> tx[w].entry.at, resolved_at |-> Never]
             draft == [Draft(w) EXCEPT !.problems = Append(@, problem)]
  <2>1. Writing(w, "problem") /\ (Return(w) \/ (Written(w, draft) /\ UNCHANGED request))
    BY <1>7 DEF add_problem
  <2>2. Draft(w) \in Shipment
    BY <1>3, <2>1
  <2>3. problem \in Problem
    BY <1>2 DEF HistoryEntry, Problem, Never
  <2>4. Append(Draft(w).problems, problem) \in Seq(Problem)
    BY <2>2, <2>3 DEF Shipment
  <2>5. draft \in Shipment
    BY <2>2, <2>4 DEF Shipment
  <2> HIDE DEF draft
  <2> QED
    BY <1>3, <2>1, <2>5
<1>8. CASE save_problem(w)
  <2> DEFINE p == tx[w].problem
             problems == Draft(w).problems
             draft == [Draft(w) EXCEPT !.problems[p].resolved_at = tx[w].entry.at]
  <2>1. Writing(w, "resolution") /\ (Return(w) \/ (Written(w, draft) /\ UNCHANGED request))
    BY <1>8 DEF save_problem
  <2>2. Draft(w) \in Shipment
    BY <1>3, <2>1
  <2>3. problems \in Seq(Problem) /\ tx[w].entry.at \in Nat
    BY <1>2, <2>2 DEF Shipment, HistoryEntry
  <2>4. [problems EXCEPT ![p].resolved_at = tx[w].entry.at] \in Seq(Problem)
    <3>1. CASE p \in DOMAIN problems
      <4>1. p \in 1 .. Len(problems) /\ problems[p] \in Problem
        BY <2>3, <3>1, LenProperties, ElementOfSeq
      <4>2. [problems[p] EXCEPT !.resolved_at = tx[w].entry.at] \in Problem
        BY <2>3, <4>1 DEF Problem
      <4> QED
        BY <2>3, <4>1, <4>2, ExceptSeq
    <3>2. CASE p \notin DOMAIN problems
      <4>1. [problems EXCEPT ![p].resolved_at = tx[w].entry.at] = problems
        BY <2>3, <3>2
      <4> QED
        BY <2>3, <4>1
    <3> QED
      BY <3>1, <3>2
  <2>5. draft \in Shipment
    BY <2>2, <2>4 DEF Shipment
  <2> HIDE DEF draft
  <2> QED
    BY <1>3, <2>1, <2>5
<1>9. CASE add_history(w)
  <2> DEFINE draft == [Draft(w) EXCEPT !.history = Append(@, tx[w].entry)]
  <2>1. Writing(w, "history") /\ (Return(w) \/ (Written(w, draft) /\ UNCHANGED request))
    BY <1>9 DEF add_history
  <2>2. Draft(w) \in Shipment
    BY <1>3, <2>1
  <2>3. Append(Draft(w).history, tx[w].entry) \in Seq(HistoryEntry)
    BY <1>2, <2>2 DEF Shipment
  <2>4. draft \in Shipment
    BY <2>2, <2>3 DEF Shipment
  <2> HIDE DEF draft
  <2> QED
    BY <1>3, <2>1, <2>4
<1>10. CASE add_weight_check(w)
  <2>1. Draft(w) \in Shipment
    BY <1>3, <1>10 DEF add_weight_check
  <2>2. [Draft(w) EXCEPT !.checks = @ + 1] \in Shipment
    BY <2>1 DEF Shipment
  <2> QED
    BY <1>3, <1>10, <2>2 DEF add_weight_check
<1>11. CASE add_audit(w)
  <2>1. Draft(w) \in Shipment
    BY <1>3, <1>11 DEF add_audit
  <2>2. [Draft(w) EXCEPT !.audits = @ + 1] \in Shipment
    BY <2>1 DEF Shipment
  <2> QED
    BY <1>3, <1>11, <2>2 DEF add_audit
<1> QED
  BY <1>4, <1>5, <1>6, <1>7, <1>8, <1>9, <1>10, <1>11 DEF Write

LEMMA Shapes ==
  ASSUME Inv, [Next]_vars
  PROVE  \/ \E w \in Workers : \/ Asked(w) \/ Return(w) \/ SecondRead(w)
                               \/ Prepared(w) \/ Wrote(w) \/ commit(w)
         \/ Crash
         \/ Elsewhere
<1>1. ASSUME NEW w \in Workers, Run(w)
      PROVE  Return(w) \/ SecondRead(w) \/ Prepared(w) \/ Wrote(w) \/ commit(w)
  BY <1>1, ServiceShape, WriteShape DEF Run, Busy
<1>2. active \in [Clients -> BOOLEAN]
  BY DEF Inv, TypeOK
<1>3. CASE Tick \/ UNCHANGED vars
  BY <1>2, <1>3 DEF Tick, vars, Elsewhere
<1>4. CASE set_active
  BY <1>2, <1>4 DEF set_active, Elsewhere
<1> QED
  BY <1>1, <1>3, <1>4, AskedShape DEF Next, Deny, Fail

(* ---------------------------- the invariant ---------------------------- *)

LEMMA BlankTypes == Blank \in Tx /\ NoRequest \in Request
<1>1. NoEntry \in HistoryEntry /\ FirstRow \in Row
  BY DEF NoEntry, HistoryEntry, FirstRow, Row, Statuses, Never
<1>2. Received(NoClient) \in Shipment
  BY <1>1 DEF Received, Shipment
<1>3. <<>> \in Seq(Tables)
  OBVIOUS
<1>4. Blank \in Tx
  BY <1>1, <1>2, <1>3 DEF Blank, Tx
<1> QED
  BY <1>4 DEF NoRequest, Request

LEMMA TypeStep == ASSUME Inv, [Next]_vars PROVE TypeOK'
<1>1. /\ next_value \in Nat /\ clock \in Nat
      /\ ledger \in [DOMAIN ledger -> Shipment] /\ DOMAIN ledger \subseteq Nat
      /\ active \in [Clients -> BOOLEAN]
      /\ lock \in Workers \cup {NoWorker}
      /\ pc \in [Workers -> {"idle", "read", "problem", "write"}]
      /\ request \in [Workers -> Request]
      /\ tx \in [Workers -> Tx]
  BY DEF Inv, TypeOK
<1>2. ASSUME NEW w \in Workers, Asked(w) PROVE TypeOK'
  BY <1>1, <1>2 DEF Asked, TypeOK
<1>3. ASSUME NEW w \in Workers, Return(w) PROVE TypeOK'
  BY <1>1, <1>3, BlankTypes DEF Return, TypeOK
<1>4. ASSUME NEW w \in Workers, SecondRead(w) PROVE TypeOK'
  <2>1. PICK row \in Row : tx' = [tx EXCEPT ![w].row = row]
    BY <1>4 DEF SecondRead
  <2>2. [tx[w] EXCEPT !.row = row] \in Tx
    BY <1>1 DEF Tx
  <2>3. tx' \in [Workers -> Tx]
    BY <1>1, <2>1, <2>2
  <2> QED
    BY <1>1, <1>4, <2>3 DEF SecondRead, TypeOK
<1>5. ASSUME NEW w \in Workers, Prepared(w) PROVE TypeOK'
  <2>1. PICK row \in Row, entry \in HistoryEntry, problem \in Nat :
          Prepare(w, row, entry, problem, Plan(request[w].op))
    BY <1>5 DEF Prepared
  <2> DEFINE call == [Blank EXCEPT !.row = row, !.entry = entry, !.problem = problem,
                                   !.todo = Plan(request[w].op)]
  <2>2. request[w].op \in OperationNames
    BY <1>1, <1>5 DEF Inv, Calls, CallOK, Prepared
  <2>3. Plan(request[w].op) \in Seq(Tables)
    BY <2>2, PlanType
  <2>4. call \in Tx
    BY <2>3, BlankTypes DEF Tx
  <2> HIDE DEF call
  <2>5. tx' \in [Workers -> Tx]
    BY <1>1, <2>1, <2>4 DEF Prepare, call
  <2> QED
    BY <1>1, <2>1, <2>5 DEF Prepare, TypeOK
<1>6. ASSUME NEW w \in Workers, Wrote(w) PROVE TypeOK'
  <2>1. PICK draft \in Shipment : Written(w, draft)
    BY <1>6 DEF Wrote
  <2>2. Tail(tx[w].todo) \in Seq(Tables)
    BY <1>1, <1>6, HeadTailProperties DEF Wrote, Tx
  <2>3. [tx[w] EXCEPT !.draft = draft, !.todo = Tail(@)] \in Tx
    BY <1>1, <2>2 DEF Tx
  <2>4. tx' \in [Workers -> Tx]
    BY <1>1, <2>1, <2>3 DEF Written
  <2>5. request' \in [Workers -> Request]
    <3>1. [request[w] EXCEPT !.number = next_value] \in Request
      BY <1>1 DEF Request
    <3> QED
      BY <1>1, <1>6, <3>1 DEF Wrote
  <2> QED
    BY <1>1, <2>1, <2>4, <2>5 DEF Written, TypeOK
<1>7. ASSUME NEW w \in Workers, commit(w) PROVE TypeOK'
  <2> DEFINE n == request[w].number
  <2>1. n \in Nat /\ tx[w].draft \in Shipment
    BY <1>1 DEF Request, Tx
  <2>2. ledger' = [m \in DOMAIN ledger \cup {n} |-> IF m = n THEN tx[w].draft ELSE ledger[m]]
    BY <1>7 DEF commit
  <2>3. ledger' \in [DOMAIN ledger' -> Shipment] /\ DOMAIN ledger' \subseteq Nat
    BY <1>1, <2>1, <2>2
  <2>4. next_value' \in Nat
    BY <1>1, <1>7, <2>1 DEF commit
  <2> QED
    BY <1>1, <1>7, <2>3, <2>4, BlankTypes DEF commit, TypeOK
<1>8. CASE Crash
  BY <1>1, <1>8, BlankTypes DEF Crash, TypeOK
<1>9. CASE Elsewhere
  BY <1>1, <1>9 DEF Elsewhere, TypeOK
<1> QED
  BY <1>2, <1>3, <1>4, <1>5, <1>6, <1>7, <1>8, <1>9, Shapes

(* Only the holder of the lock commits, a new number or one of the ledger. *)
LEMMA CommitFacts ==
  ASSUME Inv, NEW w \in Workers, commit(w)
  PROVE  /\ lock = w
         /\ DOMAIN ledger' = DOMAIN ledger \cup {request[w].number}
         /\ IF request[w].op = "create_shipment"
            THEN request[w].number = next_value /\ next_value' = next_value + 1
            ELSE request[w].number \in DOMAIN ledger /\ next_value' = next_value
<1>1. pc[w] = "write" /\ tx[w].todo = <<>>
  BY DEF commit
<1>2. lock = w
  BY <1>1, WriterState, PlanFacts
<1>3. CallOK(w)
  BY <1>1 DEF Inv, Calls
<1> QED
  BY <1>2, <1>3 DEF commit, CallOK

LEMMA NumbersStep == ASSUME Inv, [Next]_vars PROVE NumbersInOrder' /\ next_value' >= 1
<1>1. next_value \in Nat /\ next_value >= 1 /\ DOMAIN ledger = 1 .. next_value - 1
  BY DEF Inv, TypeOK, NumbersInOrder
<1>2. ASSUME NEW w \in Workers, commit(w) PROVE NumbersInOrder' /\ next_value' >= 1
  <2>1. CASE request[w].op = "create_shipment"
    <3>1. next_value' = next_value + 1 /\ DOMAIN ledger' = DOMAIN ledger \cup {next_value}
      BY <1>2, <2>1, CommitFacts
    <3>2. 1 .. (next_value + 1) - 1 = (1 .. next_value - 1) \cup {next_value}
      BY <1>1
    <3> QED
      BY <1>1, <3>1, <3>2 DEF NumbersInOrder
  <2>2. CASE request[w].op # "create_shipment"
    <3>1. next_value' = next_value /\ DOMAIN ledger' = DOMAIN ledger
      BY <1>2, <2>2, CommitFacts
    <3> QED
      BY <1>1, <3>1 DEF NumbersInOrder
  <2> QED
    BY <2>1, <2>2
<1>3. ASSUME ledger' = ledger, next_value' = next_value
      PROVE  NumbersInOrder' /\ next_value' >= 1
  BY <1>1, <1>3 DEF NumbersInOrder
<1> QED
  BY <1>2, <1>3, Shapes
  DEF Asked, Return, SecondRead, Prepared, Prepare, Wrote, Written, Crash, Elsewhere

(* A step that leaves a worker's call, the ledger's numbers, next_value    *)
(* and who holds the lock as far as that worker is concerned.              *)
LEMMA Undisturbed ==
  ASSUME Inv, NEW v \in Workers,
         pc'[v] = pc[v], request'[v] = request[v], tx'[v].todo = tx[v].todo,
         DOMAIN ledger \subseteq DOMAIN ledger',
         lock' = v <=> lock = v,
         lock = v => next_value' = next_value
  PROVE  (pc'[v] # "idle" => CallOK(v)') /\ WritesOK(v)'
<1>1. (pc[v] # "idle" => CallOK(v)) /\ WritesOK(v)
  BY DEF Inv, Calls
<1> QED
  BY <1>1 DEF CallOK, WritesOK

LEMMA Idle ==
  ASSUME NEW v \in Workers, pc'[v] = "idle", lock' # v
  PROVE  (pc'[v] # "idle" => CallOK(v)') /\ WritesOK(v)'
  BY DEF WritesOK

LEMMA CallsStep == ASSUME Inv, [Next]_vars PROVE Calls'
<1>1. /\ pc \in [Workers -> {"idle", "read", "problem", "write"}]
      /\ request \in [Workers -> Request]
      /\ tx \in [Workers -> Tx]
      /\ \A v \in Workers : (pc[v] # "idle" => CallOK(v)) /\ WritesOK(v)
  BY DEF Inv, TypeOK, Calls
<1>2. ASSUME NEW w \in Workers, NEW v \in Workers,
             \/ Asked(w) \/ Return(w) \/ SecondRead(w) \/ Prepared(w) \/ Wrote(w) \/ commit(w)
      PROVE  (pc'[v] # "idle" => CallOK(v)') /\ WritesOK(v)'
  <2>1. CASE v # w
    <3>1. pc'[v] = pc[v] /\ request'[v] = request[v] /\ tx'[v] = tx[v]
      BY <1>1, <1>2, <2>1 DEF Asked, Return, SecondRead, Prepared, Prepare, Wrote, Written, commit
    <3>2. lock' = v <=> lock = v
      BY <1>2, <2>1, CommitFacts, WorkersAssumption
      DEF Asked, Return, SecondRead, Prepared, Prepare, Wrote, Written, commit
    <3>3. /\ DOMAIN ledger \subseteq DOMAIN ledger'
          /\ lock = v => next_value' = next_value
      BY <1>2, <2>1, CommitFacts
      DEF Asked, Return, SecondRead, Prepared, Prepare, Wrote, Written
    <3> QED
      BY <3>1, <3>2, <3>3, Undisturbed
  <2>2. CASE v = w /\ (Return(w) \/ commit(w))
    <3>1. pc'[w] = "idle" /\ lock' # w
      BY <1>1, <2>2, WorkersAssumption DEF Return, commit
    <3> QED
      BY <2>2, <3>1, Idle
  <2>3. CASE v = w /\ Asked(w)
    <3>1. /\ pc'[w] = "read" /\ lock' = lock /\ lock # w /\ ledger' = ledger
          /\ request'[w].op \in OperationNames
          /\ request'[w].op # "create_shipment" => request'[w].number \in DOMAIN ledger
          /\ request'[w].op = "change_status" => request'[w].target \in Statuses
      BY <1>1, <2>3 DEF Asked, WritesOK
    <3> QED
      BY <2>3, <3>1 DEF CallOK, WritesOK
  <2>4. CASE v = w /\ SecondRead(w)
    <3>1. /\ pc'[w] = "problem" /\ lock' = lock /\ lock # w /\ ledger' = ledger
          /\ request' = request /\ next_value' = next_value
          /\ request[w].op \in {"report_problem", "resolve_problem"}
          /\ CallOK(w)
      BY <1>1, <2>4 DEF SecondRead, WritesOK
    <3> QED
      BY <2>4, <3>1 DEF CallOK, WritesOK
  <2>5. CASE v = w /\ Prepared(w)
    <3>1. /\ pc'[w] = "write" /\ lock' = lock /\ lock # w /\ ledger' = ledger
          /\ request' = request /\ next_value' = next_value
          /\ tx'[w].todo = Plan(request[w].op)
          /\ CallOK(w)
      BY <1>1, <2>5 DEF Prepared, Prepare, WritesOK, Blank
    <3> QED
      BY <2>5, <3>1 DEF CallOK, WritesOK
  <2>6. CASE v = w /\ Wrote(w)
    <3>1. /\ pc[w] = "write" /\ pc'[w] = "write" /\ lock' = w /\ ledger' = ledger
          /\ next_value' = next_value
          /\ tx'[w].todo = Tail(tx[w].todo)
          /\ tx[w].todo # <<>>
          /\ CallOK(w)
          /\ lock \in {w, NoWorker}
      BY <1>1, <2>6 DEF Wrote, Written
    <3>2. request'[w].op = request[w].op /\ request'[w].target = request[w].target
      BY <1>1, <2>6 DEF Wrote, Request
    <3>3. tx'[w].todo \in Rest(request'[w].op)
      BY <3>1, <3>2, WriterState, PlanFacts
    <3>4. CASE Head(tx[w].todo) = "number"
      <4>1. request[w].op = "create_shipment" /\ request'[w].number = next_value
        BY <1>1, <2>6, <3>1, <3>4, WriterState, PlanFacts DEF Wrote, Request
      <4> QED
        BY <2>6, <3>1, <3>2, <3>3, <4>1 DEF CallOK, WritesOK
    <3>5. CASE Head(tx[w].todo) # "number"
      <4>1. request' = request
        BY <2>6, <3>5 DEF Wrote
      <4>2. request[w].op = "create_shipment" => lock = w
        BY <3>1, <3>5, WriterState, PlanFacts
      <4> QED
        BY <2>6, <3>1, <3>3, <4>1, <4>2 DEF CallOK, WritesOK
    <3> QED
      BY <3>4, <3>5
  <2> QED
    BY <1>2, <2>1, <2>2, <2>3, <2>4, <2>5, <2>6
<1>3. ASSUME Crash, NEW v \in Workers
      PROVE  (pc'[v] # "idle" => CallOK(v)') /\ WritesOK(v)'
  BY <1>3, Idle, WorkersAssumption DEF Crash
<1>4. ASSUME Elsewhere, NEW v \in Workers
      PROVE  (pc'[v] # "idle" => CallOK(v)') /\ WritesOK(v)'
  BY <1>4, Undisturbed DEF Elsewhere
<1> QED
  BY <1>2, <1>3, <1>4, Shapes DEF Calls

LEMMA Initially == Init => Inv
<1> SUFFICES ASSUME Init PROVE Inv
  OBVIOUS
<1>1. DOMAIN ledger = {} /\ ledger = [n \in {} |-> n]
  BY DEF Init
<1>2. TypeOK
  BY <1>1, BlankTypes DEF Init, TypeOK
<1>3. NumbersInOrder /\ next_value >= 1
  BY <1>1 DEF Init, NumbersInOrder
<1>4. Calls
  BY WorkersAssumption DEF Init, Calls, WritesOK
<1> QED
  BY <1>2, <1>3, <1>4 DEF Inv

THEOREM Invariant == Spec => []Inv
<1>1. Inv /\ [Next]_vars => Inv'
  BY TypeStep, NumbersStep, CallsStep DEF Inv
<1> QED
  BY Initially, <1>1, PTL DEF Spec

(* The committed tables, the calls and their drafts keep their types.      *)
THEOREM TypeCorrect == Spec => []TypeOK
  BY Invariant, PTL DEF Inv

(* However calls fail, time out or crash between taking a number and       *)
(* committing it, the committed shipments hold exactly the numbers below   *)
(* the next one, for every capacity and every number of workers.           *)
THEOREM NumbersWithoutGap == Spec => []NumbersInOrder
  BY Invariant, PTL DEF Inv

(* ------------------ what the calls do to the shipments ----------------- *)

(***************************************************************************)
(* The heart of the argument is DraftOf: while a call holds the lock, its  *)
(* draft is the committed shipment with exactly the writes done so far.    *)
(* What is committed is therefore known as soon as the lock is taken, and  *)
(* the guarded UPDATE has compared the version by then.                    *)
(***************************************************************************)

StatusOperations == {"change_status", "report_problem", "resolve_problem"}
VersionedOperations ==
  StatusOperations \cup {"update_shipment", "archive_shipment", "restore_shipment"}

Elements(todo) == {todo[i] : i \in DOMAIN todo}

(* The committed shipment a call is about, and the writes it has to do.    *)
Stored(w) == ledger[request[w].number]
Due(w) == Elements(tx[w].todo)

(* The version a call saves is the one asked for, and not in the future.   *)
VersionAsked(w) ==
  pc[w] \in {"problem", "write"} /\ request[w].op \in VersionedOperations
    => /\ tx[w].row.version = request[w].expected
       /\ tx[w].row.version <= Stored(w).row.version

(* What the writes done so far have made of the stored shipment.           *)
DraftRow(w) ==
  IF request[w].op \in VersionedOperations /\ "shipment" \notin Due(w)
  THEN [tx[w].row EXCEPT !.version = @ + 1] ELSE Stored(w).row

DraftHistory(w) ==
  IF request[w].op \in StatusOperations /\ "history" \notin Due(w)
  THEN Append(Stored(w).history, tx[w].entry) ELSE Stored(w).history

Reported(w) == [previous_status |-> tx[w].entry.old_status,
                reported_at |-> tx[w].entry.at, resolved_at |-> Never]

DraftProblems(w) ==
  IF request[w].op = "report_problem" /\ "problem" \notin Due(w)
  THEN Append(Stored(w).problems, Reported(w))
  ELSE IF request[w].op = "resolve_problem" /\ "resolution" \notin Due(w)
  THEN [Stored(w).problems EXCEPT ![tx[w].problem].resolved_at = tx[w].entry.at]
  ELSE Stored(w).problems

One(condition) == IF condition THEN 1 ELSE 0

(* The weight checks and audit events a statement adds.                    *)
CheckRow(table) == IF table = "check" THEN 1 ELSE 0
AuditRow(table) == IF table = "audit" THEN 1 ELSE 0

DraftOf(w) ==
  [row |-> DraftRow(w), client |-> Stored(w).client, history |-> DraftHistory(w),
   problems |-> DraftProblems(w),
   checks |-> Stored(w).checks
              + One(request[w].op = "record_control_weight" /\ "check" \notin Due(w)),
   audits |-> Stored(w).audits + One("audit" \notin Due(w))]

Drafted(w) ==
  lock = w =>
    IF request[w].op = "create_shipment"
    THEN tx[w].draft = [Received(request[w].client)
                          EXCEPT !.audits = One("audit" \notin Due(w))]
    ELSE /\ tx[w].draft = DraftOf(w)
         /\ request[w].op \in VersionedOperations /\ "shipment" \notin Due(w)
              => Stored(w).row.version = tx[w].row.version

Transactions == \A w \in Workers : VersionAsked(w) /\ Drafted(w)

(* ------------------------- the writes to be done ----------------------- *)

LEMMA PlanElements ==
  /\ Elements(<<>>) = {}
  /\ Elements(<<"audit">>) = {"audit"}
  /\ Elements(<<"insert", "audit">>) = {"insert", "audit"}
  /\ Elements(<<"check", "audit">>) = {"check", "audit"}
  /\ Elements(<<"shipment", "audit">>) = {"shipment", "audit"}
  /\ Elements(<<"history", "audit">>) = {"history", "audit"}
  /\ Elements(<<"number", "insert", "audit">>) = {"number", "insert", "audit"}
  /\ Elements(<<"problem", "history", "audit">>) = {"problem", "history", "audit"}
  /\ Elements(<<"shipment", "history", "audit">>) = {"shipment", "history", "audit"}
  /\ Elements(<<"shipment", "problem", "history", "audit">>)
       = {"shipment", "problem", "history", "audit"}
  /\ Elements(<<"resolution", "shipment", "history", "audit">>)
       = {"resolution", "shipment", "history", "audit"}
<1>1. DOMAIN <<>> = {}
  OBVIOUS
<1>2. ASSUME NEW a PROVE DOMAIN <<a>> = {1} /\ Elements(<<a>>) = {a}
  BY DEF Elements
<1>3. ASSUME NEW a, NEW b PROVE Elements(<<a, b>>) = {a, b}
  <2>1. DOMAIN <<a, b>> = {1, 2}
    OBVIOUS
  <2> QED
    BY <2>1 DEF Elements
<1>4. ASSUME NEW a, NEW b, NEW c PROVE Elements(<<a, b, c>>) = {a, b, c}
  <2>1. DOMAIN <<a, b, c>> = {1, 2, 3}
    OBVIOUS
  <2> QED
    BY <2>1 DEF Elements
<1>5. ASSUME NEW a, NEW b, NEW c, NEW d PROVE Elements(<<a, b, c, d>>) = {a, b, c, d}
  <2>1. DOMAIN <<a, b, c, d>> = {1, 2, 3, 4}
    OBVIOUS
  <2> QED
    BY <2>1 DEF Elements
<1>6. Elements(<<>>) = {}
  BY <1>1 DEF Elements
<1> QED
  BY <1>2, <1>3, <1>4, <1>5, <1>6

(* Which method writes a table.                                            *)
Writer(op, table) ==
  /\ table \in {"number", "insert"} => op = "create_shipment"
  /\ table = "shipment"   => op \in VersionedOperations
  /\ table = "history"    => op \in StatusOperations
  /\ table = "problem"    => op = "report_problem"
  /\ table = "resolution" => op = "resolve_problem"
  /\ table = "check"      => op = "record_control_weight"

LEMMA ElementsStep ==
  ASSUME NEW todo, todo \in {<<"audit">>,
                            <<"insert", "audit">>,
                            <<"check", "audit">>,
                            <<"shipment", "audit">>,
                            <<"history", "audit">>,
                            <<"number", "insert", "audit">>,
                            <<"problem", "history", "audit">>,
                            <<"shipment", "history", "audit">>,
                            <<"shipment", "problem", "history", "audit">>,
                            <<"resolution", "shipment", "history", "audit">>}
  PROVE  /\ Head(todo) \in Elements(todo)
         /\ Elements(Tail(todo)) = Elements(todo) \ {Head(todo)}
<1>1. CASE todo = <<"audit">>
  <2>1. Head(todo) = "audit" /\ Tail(todo) = <<>>
    BY <1>1, Tails
  <2>2. Elements(todo) = {"audit"} /\ Elements(Tail(todo)) = {}
    BY <1>1, <2>1, PlanElements
  <2> QED
    BY <2>1, <2>2
<1>2. CASE todo = <<"insert", "audit">>
  <2>1. Head(todo) = "insert" /\ Tail(todo) = <<"audit">>
    BY <1>2, Tails
  <2>2. Elements(todo) = {"insert", "audit"} /\ Elements(Tail(todo)) = {"audit"}
    BY <1>2, <2>1, PlanElements
  <2> QED
    BY <2>1, <2>2
<1>3. CASE todo = <<"check", "audit">>
  <2>1. Head(todo) = "check" /\ Tail(todo) = <<"audit">>
    BY <1>3, Tails
  <2>2. Elements(todo) = {"check", "audit"} /\ Elements(Tail(todo)) = {"audit"}
    BY <1>3, <2>1, PlanElements
  <2> QED
    BY <2>1, <2>2
<1>4. CASE todo = <<"shipment", "audit">>
  <2>1. Head(todo) = "shipment" /\ Tail(todo) = <<"audit">>
    BY <1>4, Tails
  <2>2. Elements(todo) = {"shipment", "audit"} /\ Elements(Tail(todo)) = {"audit"}
    BY <1>4, <2>1, PlanElements
  <2> QED
    BY <2>1, <2>2
<1>5. CASE todo = <<"history", "audit">>
  <2>1. Head(todo) = "history" /\ Tail(todo) = <<"audit">>
    BY <1>5, Tails
  <2>2. Elements(todo) = {"history", "audit"} /\ Elements(Tail(todo)) = {"audit"}
    BY <1>5, <2>1, PlanElements
  <2> QED
    BY <2>1, <2>2
<1>6. CASE todo = <<"number", "insert", "audit">>
  <2>1. Head(todo) = "number" /\ Tail(todo) = <<"insert", "audit">>
    BY <1>6, Tails
  <2>2. Elements(todo) = {"number", "insert", "audit"} /\ Elements(Tail(todo)) = {"insert", "audit"}
    BY <1>6, <2>1, PlanElements
  <2> QED
    BY <2>1, <2>2
<1>7. CASE todo = <<"problem", "history", "audit">>
  <2>1. Head(todo) = "problem" /\ Tail(todo) = <<"history", "audit">>
    BY <1>7, Tails
  <2>2. Elements(todo) = {"problem", "history", "audit"} /\ Elements(Tail(todo)) = {"history", "audit"}
    BY <1>7, <2>1, PlanElements
  <2> QED
    BY <2>1, <2>2
<1>8. CASE todo = <<"shipment", "history", "audit">>
  <2>1. Head(todo) = "shipment" /\ Tail(todo) = <<"history", "audit">>
    BY <1>8, Tails
  <2>2. Elements(todo) = {"shipment", "history", "audit"} /\ Elements(Tail(todo)) = {"history", "audit"}
    BY <1>8, <2>1, PlanElements
  <2> QED
    BY <2>1, <2>2
<1>9. CASE todo = <<"shipment", "problem", "history", "audit">>
  <2>1. Head(todo) = "shipment" /\ Tail(todo) = <<"problem", "history", "audit">>
    BY <1>9, Tails
  <2>2. Elements(todo) = {"shipment", "problem", "history", "audit"} /\ Elements(Tail(todo)) = {"problem", "history", "audit"}
    BY <1>9, <2>1, PlanElements
  <2> QED
    BY <2>1, <2>2
<1>10. CASE todo = <<"resolution", "shipment", "history", "audit">>
  <2>1. Head(todo) = "resolution" /\ Tail(todo) = <<"shipment", "history", "audit">>
    BY <1>10, Tails
  <2>2. Elements(todo) = {"resolution", "shipment", "history", "audit"} /\ Elements(Tail(todo)) = {"shipment", "history", "audit"}
    BY <1>10, <2>1, PlanElements
  <2> QED
    BY <2>1, <2>2
<1> QED
  BY <1>1, <1>2, <1>3, <1>4, <1>5, <1>6, <1>7, <1>8, <1>9, <1>10

LEMMA PlanOrder ==
  ASSUME NEW op \in OperationNames, NEW todo \in Rest(op) \cup {Plan(op)}, todo # <<>>
  PROVE  /\ Head(todo) \in Elements(todo)
         /\ Elements(Tail(todo)) = Elements(todo) \ {Head(todo)}
         /\ Writer(op, Head(todo))
<1>1. CASE op = "create_shipment"
  <2>1. todo \in {<<"number", "insert", "audit">>, <<"insert", "audit">>, <<"audit">>}
    BY <1>1 DEF Plan, Rest
  <2>2. Writer(op, Head(todo))
    BY <1>1, <2>1, Tails DEF Writer
  <2> QED
    BY <2>1, <2>2, ElementsStep
<1>2. CASE op = "record_control_weight"
  <2>1. todo \in {<<"check", "audit">>, <<"audit">>}
    BY <1>2 DEF Plan, Rest
  <2>2. Writer(op, Head(todo))
    BY <1>2, <2>1, Tails DEF Writer
  <2> QED
    BY <2>1, <2>2, ElementsStep
<1>3. CASE op \in {"update_shipment", "archive_shipment", "restore_shipment"}
  <2>1. todo \in {<<"shipment", "audit">>, <<"audit">>}
    BY <1>3 DEF Plan, Rest
  <2>2. Writer(op, Head(todo))
    BY <1>3, <2>1, Tails DEF Writer, VersionedOperations
  <2> QED
    BY <2>1, <2>2, ElementsStep
<1>4. CASE op = "change_status"
  <2>1. todo \in {<<"shipment", "history", "audit">>, <<"history", "audit">>, <<"audit">>}
    BY <1>4 DEF Plan, Rest
  <2>2. Writer(op, Head(todo))
    BY <1>4, <2>1, Tails DEF Writer, VersionedOperations, StatusOperations
  <2> QED
    BY <2>1, <2>2, ElementsStep
<1>5. CASE op = "report_problem"
  <2>1. todo \in {<<"shipment", "problem", "history", "audit">>,
                  <<"problem", "history", "audit">>, <<"history", "audit">>, <<"audit">>}
    BY <1>5 DEF Plan, Rest
  <2>2. Writer(op, Head(todo))
    BY <1>5, <2>1, Tails DEF Writer, VersionedOperations, StatusOperations
  <2> QED
    BY <2>1, <2>2, ElementsStep
<1>6. CASE op = "resolve_problem"
  <2>1. todo \in {<<"resolution", "shipment", "history", "audit">>,
                  <<"shipment", "history", "audit">>, <<"history", "audit">>, <<"audit">>}
    BY <1>6 DEF Plan, Rest
  <2>2. Writer(op, Head(todo))
    BY <1>6, <2>1, Tails DEF Writer, VersionedOperations, StatusOperations
  <2> QED
    BY <2>1, <2>2, ElementsStep
<1> QED
  BY <1>1, <1>2, <1>3, <1>4, <1>5, <1>6 DEF OperationNames

LEMMA WholePlan ==
  ASSUME NEW op \in OperationNames
  PROVE  /\ "audit" \in Elements(Plan(op))
         /\ op \in VersionedOperations => "shipment" \in Elements(Plan(op))
         /\ op \in StatusOperations => "history" \in Elements(Plan(op))
         /\ op = "report_problem" => "problem" \in Elements(Plan(op))
         /\ op = "resolve_problem" => "resolution" \in Elements(Plan(op))
         /\ op = "record_control_weight" => "check" \in Elements(Plan(op))
  BY PlanElements DEF Plan, OperationNames, VersionedOperations, StatusOperations

(* A statement that is executed was due, and no longer is.                 *)
LEMMA StatementDue ==
  ASSUME Inv, NEW w \in Workers, NEW table, Writing(w, table)
  PROVE  /\ request[w].op \in OperationNames
         /\ table \in Due(w)
         /\ Elements(Tail(tx[w].todo)) = Due(w) \ {table}
         /\ Writer(request[w].op, table)
         /\ table # "number" /\ request[w].op = "create_shipment" => lock = w
<1>1. pc[w] = "write" /\ tx[w].todo # <<>> /\ Head(tx[w].todo) = table
  BY DEF Writing
<1>2. request[w].op \in OperationNames
  BY <1>1, WriterState
<1>3. tx[w].todo \in Rest(request[w].op) \cup {Plan(request[w].op)}
  BY <1>1, WriterState
<1>4. table # "number" /\ request[w].op = "create_shipment" => lock = w
  BY <1>1, WriterState, PlanFacts
<1> QED
  BY <1>1, <1>2, <1>3, <1>4, PlanOrder DEF Due

(* Before the first statement the draft is the committed shipment.         *)
LEMMA DraftBefore ==
  ASSUME Inv, NEW w \in Workers, NEW table, Writing(w, table), Drafted(w),
         request[w].op # "create_shipment"
  PROVE  /\ Draft(w) = DraftOf(w)
         /\ Stored(w) \in Shipment
<1>1. /\ pc[w] = "write" /\ request[w].op \in OperationNames
      /\ request[w].number \in DOMAIN ledger
  BY StatementDue DEF Writing, Inv, Calls, CallOK
<1>2. Stored(w) \in Shipment
  BY <1>1, StoredShipment DEF Inv, Stored
<1>3. CASE lock = w
  BY <1>2, <1>3 DEF Drafted, Draft
<1>4. CASE lock # w
  <2>1. Due(w) = Elements(Plan(request[w].op))
    BY <1>1, <1>4, WriterState DEF Due
  <2>2. /\ DraftRow(w) = Stored(w).row
        /\ DraftHistory(w) = Stored(w).history
        /\ DraftProblems(w) = Stored(w).problems
    BY <1>1, <2>1, WholePlan DEF DraftRow, DraftHistory, DraftProblems
  <2>3. /\ ~(request[w].op = "record_control_weight" /\ "check" \notin Due(w))
        /\ "audit" \in Due(w)
    BY <1>1, <2>1, WholePlan
  <2>4. Stored(w).checks \in Nat /\ Stored(w).audits \in Nat
    BY <1>2 DEF Shipment
  <2>5. DraftOf(w) = [row |-> Stored(w).row, client |-> Stored(w).client,
                      history |-> Stored(w).history, problems |-> Stored(w).problems,
                      checks |-> Stored(w).checks, audits |-> Stored(w).audits]
    BY <2>2, <2>3, <2>4 DEF DraftOf, One
  <2>6. Stored(w) = DraftOf(w)
    BY <1>2, <2>5 DEF Shipment
  <2> QED
    BY <1>2, <1>4, <2>6 DEF Draft, Stored
<1> QED
  BY <1>3, <1>4

(* What a statement leaves as it was, and what is due after it.            *)
LEMMA AfterStatement ==
  ASSUME Inv, NEW w \in Workers, NEW table, Writing(w, table),
         NEW draft, Written(w, draft), request' = request
  PROVE  /\ Due(w)' = Due(w) \ {table} /\ table \in Due(w)
         /\ Stored(w)' = Stored(w)
         /\ tx'[w].row = tx[w].row /\ tx'[w].entry = tx[w].entry
         /\ tx'[w].problem = tx[w].problem /\ tx'[w].draft = draft
         /\ Reported(w)' = Reported(w)
<1>1. tx \in [Workers -> Tx]
  BY DEF Inv, TypeOK
<1>2. /\ tx'[w].row = tx[w].row /\ tx'[w].entry = tx[w].entry
      /\ tx'[w].problem = tx[w].problem /\ tx'[w].draft = draft
      /\ tx'[w].todo = Tail(tx[w].todo)
  BY <1>1 DEF Written, Tx
<1>3. Due(w)' = Elements(Tail(tx[w].todo))
  BY <1>2 DEF Due
<1>4. Stored(w)' = Stored(w)
  BY DEF Stored, Written
<1> QED
  BY <1>2, <1>3, <1>4, StatementDue DEF Reported

(* A shipment after a row has been added to one of two tables.             *)
LEMMA Amended ==
  ASSUME NEW row, NEW client, NEW history, NEW problems,
         NEW checks \in Nat, NEW audits \in Nat, NEW s, NEW t,
         s = [row |-> row, client |-> client, history |-> history,
              problems |-> problems, checks |-> checks, audits |-> audits]
  PROVE  /\ t = [s EXCEPT !.checks = @ + 1]
               => t = [row |-> row, client |-> client, history |-> history,
                       problems |-> problems, checks |-> s.checks + 1,
                       audits |-> s.audits + 0]
         /\ t = [s EXCEPT !.audits = @ + 1]
               => t = [row |-> row, client |-> client, history |-> history,
                       problems |-> problems, checks |-> s.checks + 0,
                       audits |-> s.audits + 1]
<1>1. ASSUME t = [s EXCEPT !.checks = @ + 1]
      PROVE  t = [row |-> row, client |-> client, history |-> history,
                  problems |-> problems, checks |-> s.checks + 1, audits |-> s.audits + 0]
  BY <1>1
<1>2. ASSUME t = [s EXCEPT !.audits = @ + 1]
      PROVE  t = [row |-> row, client |-> client, history |-> history,
                  problems |-> problems, checks |-> s.checks + 0, audits |-> s.audits + 1]
  BY <1>2
<1> QED
  BY <1>1, <1>2

LEMMA WriteDrafted ==
  ASSUME Inv, NEW w \in Workers, Drafted(w), Write(w)
  PROVE  Return(w) \/ Drafted(w)'
<1> DEFINE op == request[w].op
<1>1. tx[w] \in Tx /\ request[w] \in Request /\ request \in [Workers -> Request]
      /\ tx \in [Workers -> Tx]
  BY DEF Inv, TypeOK
<1>2. CASE allocate(w)
  <2>1. CASE Return(w)
    BY <2>1
  <2>2. CASE ~Return(w)
    <3>1. /\ Writing(w, "number")
          /\ request' = [request EXCEPT ![w].number = next_value]
          /\ Written(w, Received(request[w].client))
      BY <1>2, <2>2 DEF allocate
    <3>2. op = "create_shipment"
      BY <3>1, StatementDue DEF Writer
    <3>3. request'[w].op = op /\ request'[w].client = request[w].client
      BY <1>1, <3>1 DEF Request
    <3>4. /\ tx'[w].draft = Received(request[w].client)
          /\ tx'[w].todo = Tail(tx[w].todo)
      BY <1>1, <3>1 DEF Written, Tx
    <3>5. tx[w].todo = Plan("create_shipment")
      <4>1. lock # w
        <5>1. Head(tx[w].todo) = "number" /\ tx[w].todo # <<>> /\ pc[w] = "write"
          BY <3>1 DEF Writing
        <5> QED
          BY <5>1, WriterState, PlanFacts
      <4> QED
        BY <3>1, <3>2, <4>1, WriterState DEF Writing
    <3>6. Due(w)' = {"insert", "audit"}
      BY <3>4, <3>5, PlanElements, Tails DEF Due, Plan
    <3>7. Received(request[w].client)
            = [Received(request[w].client) EXCEPT !.audits = One("audit" \notin Due(w)')]
      BY <3>6 DEF Received, One, CheckRow, AuditRow
    <3>8. Drafted(w)'
      BY <3>2, <3>3, <3>4, <3>7 DEF Drafted
    <3> QED
      BY <3>8
  <2> QED
    BY <2>1, <2>2
<1>3. ASSUME NEW table, Writing(w, table), NEW draft, Written(w, draft), request' = request,
             op = "create_shipment", table # "number",
             draft = [tx[w].draft EXCEPT !.audits = @ + AuditRow(table)]
      PROVE  Drafted(w)'
  <2>1. lock = w
    BY <1>3, StatementDue
  <2> DEFINE R == Received(request[w].client)
  <2>2. tx[w].draft = [R EXCEPT !.audits = One("audit" \notin Due(w))]
    BY <1>3, <2>1 DEF Drafted
  <2>3. Due(w)' = Due(w) \ {table} /\ table \in Due(w) /\ tx'[w].draft = draft
    BY <1>3, AfterStatement
  <2>4. One("audit" \notin Due(w)) + AuditRow(table) = One("audit" \notin Due(w)')
    BY <2>3 DEF One, CheckRow, AuditRow
  <2>5. draft = [R EXCEPT !.audits = One("audit" \notin Due(w)')]
    BY <1>3, <2>2, <2>4 DEF Received
  <2> QED
    BY <1>3, <2>3, <2>5 DEF Drafted
<1>4. CASE FlushInsert(w)
  <2>1. /\ Writing(w, "insert")
        /\ Return(w) \/ (Written(w, tx[w].draft) /\ request' = request)
    BY <1>4 DEF FlushInsert
  <2>2. op = "create_shipment"
    BY <2>1, StatementDue DEF Writer
  <2>3. tx[w].draft = [tx[w].draft EXCEPT !.audits = @ + AuditRow("insert")]
    BY <1>1 DEF Tx, Shipment, One, CheckRow, AuditRow
  <2> QED
    BY <1>3, <2>1, <2>2, <2>3
<1>5. ASSUME NEW table, Writing(w, table), NEW draft, Written(w, draft), request' = request,
             op # "create_shipment",
             draft = [row |-> DraftRow(w)', client |-> Stored(w).client,
                      history |-> DraftHistory(w)', problems |-> DraftProblems(w)',
                      checks |-> Draft(w).checks + CheckRow(table),
                      audits |-> Draft(w).audits + AuditRow(table)],
             op \in VersionedOperations /\ "shipment" \notin Due(w)'
               => Stored(w).row.version = tx[w].row.version
      PROVE  Drafted(w)'
  <2>1. /\ Due(w)' = Due(w) \ {table} /\ table \in Due(w) /\ tx'[w].draft = draft
        /\ Stored(w)' = Stored(w) /\ tx'[w].row = tx[w].row
    BY <1>5, AfterStatement
  <2>2. Draft(w) = DraftOf(w) /\ Stored(w) \in Shipment
    BY <1>5, DraftBefore
  <2>3. Writer(op, table)
    BY <1>5, StatementDue
  <2>4. Draft(w).audits + AuditRow(table) = Stored(w).audits + One("audit" \notin Due(w)')
    BY <2>1, <2>2 DEF DraftOf, One, CheckRow, AuditRow, Shipment
  <2>5. Draft(w).checks + CheckRow(table)
          = Stored(w).checks + One(op = "record_control_weight" /\ "check" \notin Due(w)')
    BY <2>1, <2>2, <2>3 DEF DraftOf, One, CheckRow, AuditRow, Shipment, Writer
  <2>6. draft = DraftOf(w)'
    BY <1>5, <2>1, <2>4, <2>5 DEF DraftOf
  <2> QED
    BY <1>5, <2>1, <2>6 DEF Drafted
<1>6. ASSUME NEW table, Writing(w, table), op # "create_shipment"
      PROVE  /\ table \in Due(w)
             /\ \E checks, audits \in Nat :
                  Draft(w) = [row |-> DraftRow(w), client |-> Stored(w).client,
                              history |-> DraftHistory(w), problems |-> DraftProblems(w),
                              checks |-> checks, audits |-> audits]
             /\ table # "shipment" /\ op \in VersionedOperations /\ "shipment" \notin Due(w)
                  => Stored(w).row.version = tx[w].row.version
  <2>1. Draft(w) = DraftOf(w) /\ Stored(w) \in Shipment
    BY <1>6, DraftBefore
  <2>2. \E checks, audits \in Nat :
          DraftOf(w) = [row |-> DraftRow(w), client |-> Stored(w).client,
                        history |-> DraftHistory(w), problems |-> DraftProblems(w),
                        checks |-> checks, audits |-> audits]
    BY <2>1 DEF DraftOf, One, CheckRow, AuditRow, Shipment
  <2>3. op \in VersionedOperations /\ "shipment" \notin Due(w)
          => Stored(w).row.version = tx[w].row.version
    <3>1. CASE lock = w
      BY <1>6, <3>1 DEF Drafted
    <3>2. CASE lock # w
      <4>1. Due(w) = Elements(Plan(op)) /\ op \in OperationNames
        BY <1>6, <3>2, WriterState DEF Writing, Due
      <4> QED
        BY <4>1, WholePlan
    <3> QED
      BY <3>1, <3>2
  <2>4. table \in Due(w)
    BY <1>6, StatementDue
  <2> QED
    BY <2>1, <2>2, <2>3, <2>4
<1>7. CASE FlushShipment(w)
  <2>1. CASE Return(w)
    BY <2>1
  <2>2. CASE ~Return(w)
    <3> DEFINE saved == [tx[w].row EXCEPT !.version = @ + 1]
               draft == [Draft(w) EXCEPT !.row = saved]
    <3>1. /\ Writing(w, "shipment")
          /\ Draft(w).row.version = tx[w].row.version
          /\ Written(w, draft) /\ request' = request
      BY <1>7, <2>2 DEF FlushShipment
    <3>2. op \in VersionedOperations
      BY <3>1, StatementDue DEF Writer
    <3>3. op # "create_shipment"
      BY <3>2 DEF VersionedOperations, StatusOperations
    <3>4. /\ Due(w)' = Due(w) \ {"shipment"} /\ "shipment" \in Due(w)
          /\ tx'[w].row = tx[w].row /\ tx'[w].entry = tx[w].entry
          /\ tx'[w].problem = tx[w].problem /\ Stored(w)' = Stored(w)
          /\ Reported(w)' = Reported(w)
      BY <3>1, AfterStatement
    <3>5. DraftRow(w) = Stored(w).row
      BY <3>4 DEF DraftRow
    <3>6. Stored(w).row.version = tx[w].row.version
      BY <1>6, <3>1, <3>3, <3>5
    <3>7. /\ DraftRow(w)' = saved /\ DraftHistory(w)' = DraftHistory(w)
          /\ DraftProblems(w)' = DraftProblems(w)
      BY <3>1, <3>2, <3>4 DEF DraftRow, DraftHistory, DraftProblems
    <3>8. draft = [row |-> DraftRow(w)', client |-> Stored(w).client,
                   history |-> DraftHistory(w)', problems |-> DraftProblems(w)',
                   checks |-> Draft(w).checks + CheckRow("shipment"),
                   audits |-> Draft(w).audits + AuditRow("shipment")]
      BY <1>6, <3>1, <3>3, <3>7 DEF One, CheckRow, AuditRow
    <3> HIDE DEF draft
    <3> QED
      BY <1>5, <3>1, <3>3, <3>6, <3>8
  <2> QED
    BY <2>1, <2>2
<1>8. CASE add_problem(w)
  <2>1. CASE Return(w)
    BY <2>1
  <2>2. CASE ~Return(w)
    <3> DEFINE draft == [Draft(w) EXCEPT !.problems = Append(@, Reported(w))]
    <3>1. Writing(w, "problem") /\ Written(w, draft) /\ request' = request
      BY <1>8, <2>2 DEF add_problem, Reported
    <3>2. op = "report_problem"
      BY <3>1, StatementDue DEF Writer
    <3>4. /\ Due(w)' = Due(w) \ {"problem"} /\ "problem" \in Due(w)
          /\ tx'[w].row = tx[w].row /\ tx'[w].entry = tx[w].entry
          /\ tx'[w].problem = tx[w].problem /\ Stored(w)' = Stored(w)
          /\ Reported(w)' = Reported(w)
      BY <3>1, AfterStatement
    <3>5. DraftProblems(w) = Stored(w).problems
      BY <3>2, <3>4 DEF DraftProblems
    <3>6. /\ DraftRow(w)' = DraftRow(w) /\ DraftHistory(w)' = DraftHistory(w)
          /\ DraftProblems(w)' = Append(Stored(w).problems, Reported(w))
      BY <3>1, <3>2, <3>4 DEF DraftRow, DraftHistory, DraftProblems
    <3>7. draft = [row |-> DraftRow(w)', client |-> Stored(w).client,
                   history |-> DraftHistory(w)', problems |-> DraftProblems(w)',
                   checks |-> Draft(w).checks + CheckRow("problem"),
                   audits |-> Draft(w).audits + AuditRow("problem")]
      <4>1. PICK checks, audits \in Nat :
              Draft(w) = [row |-> DraftRow(w), client |-> Stored(w).client,
                          history |-> DraftHistory(w), problems |-> DraftProblems(w),
                          checks |-> checks, audits |-> audits]
        BY <1>6, <3>1, <3>2
      <4>2. CheckRow("problem") = 0 /\ AuditRow("problem") = 0
        BY DEF CheckRow, AuditRow
      <4>3. PICK d, x : d = Draft(w) /\ x = Append(d.problems, Reported(w))
        OBVIOUS
      <4>4. draft = [d EXCEPT !.problems = x]
        BY <4>3
      <4> HIDE DEF draft
      <4>5. draft = [row |-> DraftRow(w), client |-> Stored(w).client,
                     history |-> DraftHistory(w), problems |-> x,
                     checks |-> checks, audits |-> audits]
        <5>1. d = [row |-> DraftRow(w), client |-> Stored(w).client,
                   history |-> DraftHistory(w), problems |-> DraftProblems(w),
                   checks |-> checks, audits |-> audits]
          BY <4>1, <4>3
        <5> QED
          BY <4>4, <5>1
      <4>6. /\ checks = Draft(w).checks + CheckRow("problem")
            /\ audits = Draft(w).audits + AuditRow("problem")
        BY <4>1, <4>2
      <4>7. x = DraftProblems(w)'
        BY <3>5, <3>6, <4>1, <4>3
      <4> QED
        BY <3>6, <4>5, <4>6, <4>7, Zenon
    <3>8. "shipment" \notin Due(w)' => "shipment" \notin Due(w)
      BY <3>4
    <3> HIDE DEF draft
    <3> QED
      BY <1>5, <1>6, <3>1, <3>2, <3>7, <3>8
  <2> QED
    BY <2>1, <2>2
<1>9. CASE save_problem(w)
  <2>1. CASE Return(w)
    BY <2>1
  <2>2. CASE ~Return(w)
    <3> DEFINE draft == [Draft(w) EXCEPT !.problems[tx[w].problem].resolved_at = tx[w].entry.at]
    <3>1. Writing(w, "resolution") /\ Written(w, draft) /\ request' = request
      BY <1>9, <2>2 DEF save_problem
    <3>2. op = "resolve_problem"
      BY <3>1, StatementDue DEF Writer
    <3>4. /\ Due(w)' = Due(w) \ {"resolution"} /\ "resolution" \in Due(w)
          /\ tx'[w].row = tx[w].row /\ tx'[w].entry = tx[w].entry
          /\ tx'[w].problem = tx[w].problem /\ Stored(w)' = Stored(w)
          /\ Reported(w)' = Reported(w)
      BY <3>1, AfterStatement
    <3>5. DraftProblems(w) = Stored(w).problems
      BY <3>2, <3>4 DEF DraftProblems
    <3>6. /\ DraftRow(w)' = DraftRow(w) /\ DraftHistory(w)' = DraftHistory(w)
          /\ DraftProblems(w)' = [Stored(w).problems EXCEPT
                                    ![tx[w].problem].resolved_at = tx[w].entry.at]
      BY <3>1, <3>2, <3>4 DEF DraftRow, DraftHistory, DraftProblems
    <3>7. draft = [row |-> DraftRow(w)', client |-> Stored(w).client,
                   history |-> DraftHistory(w)', problems |-> DraftProblems(w)',
                   checks |-> Draft(w).checks + CheckRow("resolution"),
                   audits |-> Draft(w).audits + AuditRow("resolution")]
      BY <1>6, <3>1, <3>2, <3>5, <3>6 DEF One, CheckRow, AuditRow
    <3>8. "shipment" \notin Due(w)' => "shipment" \notin Due(w)
      BY <3>4
    <3> HIDE DEF draft
    <3> QED
      BY <1>5, <1>6, <3>1, <3>2, <3>7, <3>8
  <2> QED
    BY <2>1, <2>2
<1>10. CASE add_history(w)
  <2>1. CASE Return(w)
    BY <2>1
  <2>2. CASE ~Return(w)
    <3> DEFINE draft == [Draft(w) EXCEPT !.history = Append(@, tx[w].entry)]
    <3>1. Writing(w, "history") /\ Written(w, draft) /\ request' = request
      BY <1>10, <2>2 DEF add_history
    <3>2. op \in StatusOperations
      BY <3>1, StatementDue DEF Writer
    <3>3. op # "create_shipment"
      BY <3>2 DEF StatusOperations
    <3>4. /\ Due(w)' = Due(w) \ {"history"} /\ "history" \in Due(w)
          /\ tx'[w].row = tx[w].row /\ tx'[w].entry = tx[w].entry
          /\ tx'[w].problem = tx[w].problem /\ Stored(w)' = Stored(w)
          /\ Reported(w)' = Reported(w)
      BY <3>1, AfterStatement
    <3>5. DraftHistory(w) = Stored(w).history
      BY <3>4 DEF DraftHistory
    <3>6. /\ DraftRow(w)' = DraftRow(w) /\ DraftProblems(w)' = DraftProblems(w)
          /\ DraftHistory(w)' = Append(Stored(w).history, tx[w].entry)
      BY <3>1, <3>2, <3>4 DEF DraftRow, DraftHistory, DraftProblems
    <3>7. draft = [row |-> DraftRow(w)', client |-> Stored(w).client,
                   history |-> DraftHistory(w)', problems |-> DraftProblems(w)',
                   checks |-> Draft(w).checks + CheckRow("history"),
                   audits |-> Draft(w).audits + AuditRow("history")]
      <4>1. PICK checks, audits \in Nat :
              Draft(w) = [row |-> DraftRow(w), client |-> Stored(w).client,
                          history |-> DraftHistory(w), problems |-> DraftProblems(w),
                          checks |-> checks, audits |-> audits]
        BY <1>6, <3>1, <3>3
      <4>2. CheckRow("history") = 0 /\ AuditRow("history") = 0
        BY DEF CheckRow, AuditRow
      <4>3. PICK d, x : d = Draft(w) /\ x = Append(d.history, tx[w].entry)
        OBVIOUS
      <4>4. draft = [d EXCEPT !.history = x]
        BY <4>3
      <4> HIDE DEF draft
      <4>5. draft = [row |-> DraftRow(w), client |-> Stored(w).client,
                     history |-> x, problems |-> DraftProblems(w),
                     checks |-> checks, audits |-> audits]
        <5>1. d = [row |-> DraftRow(w), client |-> Stored(w).client,
                   history |-> DraftHistory(w), problems |-> DraftProblems(w),
                   checks |-> checks, audits |-> audits]
          BY <4>1, <4>3
        <5> QED
          BY <4>4, <5>1
      <4>6. /\ checks = Draft(w).checks + CheckRow("history")
            /\ audits = Draft(w).audits + AuditRow("history")
        BY <4>1, <4>2
      <4>7. x = DraftHistory(w)'
        BY <3>5, <3>6, <4>1, <4>3
      <4> QED
        BY <3>6, <4>5, <4>6, <4>7, Zenon
    <3>8. "shipment" \notin Due(w)' => "shipment" \notin Due(w)
      BY <3>4
    <3> HIDE DEF draft
    <3> QED
      BY <1>5, <1>6, <3>1, <3>3, <3>7, <3>8
  <2> QED
    BY <2>1, <2>2
<1>11. ASSUME NEW table \in {"check", "audit"}, Writing(w, table), op # "create_shipment",
              NEW draft, Written(w, draft), request' = request,
              draft = [row |-> DraftRow(w), client |-> Stored(w).client,
                       history |-> DraftHistory(w), problems |-> DraftProblems(w),
                       checks |-> Draft(w).checks + CheckRow(table),
                       audits |-> Draft(w).audits + AuditRow(table)]
       PROVE  Drafted(w)'
  <2>1. /\ Due(w)' = Due(w) \ {table} /\ table \in Due(w)
        /\ tx'[w].row = tx[w].row /\ tx'[w].entry = tx[w].entry
        /\ tx'[w].problem = tx[w].problem /\ Stored(w)' = Stored(w)
        /\ Reported(w)' = Reported(w)
    BY <1>11, AfterStatement
  <2>2. /\ DraftRow(w)' = DraftRow(w) /\ DraftProblems(w)' = DraftProblems(w)
        /\ DraftHistory(w)' = DraftHistory(w)
    BY <1>11, <2>1 DEF DraftRow, DraftHistory, DraftProblems
  <2>3. draft = [row |-> DraftRow(w)', client |-> Stored(w).client,
                 history |-> DraftHistory(w)', problems |-> DraftProblems(w)',
                 checks |-> Draft(w).checks + CheckRow(table),
                 audits |-> Draft(w).audits + AuditRow(table)]
    BY <1>11, <2>2
  <2>4. table # "shipment" /\ ("shipment" \notin Due(w)' => "shipment" \notin Due(w))
    BY <2>1
  <2> QED
    BY <1>5, <1>6, <1>11, <2>3, <2>4
<1>12. CASE add_weight_check(w)
  <2> DEFINE draft == [Draft(w) EXCEPT !.checks = @ + 1]
  <2>1. Writing(w, "check") /\ Written(w, draft) /\ request' = request
    BY <1>12 DEF add_weight_check
  <2>2. op # "create_shipment"
    BY <2>1, StatementDue DEF Writer
  <2>3. draft = [row |-> DraftRow(w), client |-> Stored(w).client,
                 history |-> DraftHistory(w), problems |-> DraftProblems(w),
                 checks |-> Draft(w).checks + CheckRow("check"),
                 audits |-> Draft(w).audits + AuditRow("check")]
    <3>1. PICK checks, audits \in Nat :
            Draft(w) = [row |-> DraftRow(w), client |-> Stored(w).client,
                        history |-> DraftHistory(w), problems |-> DraftProblems(w),
                        checks |-> checks, audits |-> audits]
      BY <1>6, <2>1, <2>2
    <3>2. CheckRow("check") = 1 /\ AuditRow("check") = 0
      BY DEF CheckRow, AuditRow
    <3>3. draft = [Draft(w) EXCEPT !.checks = @ + 1]
      OBVIOUS
    <3> HIDE DEF draft
    <3> QED
      BY <3>1, <3>2, <3>3, Amended
  <2> HIDE DEF draft
  <2> QED
    BY <1>11, <2>1, <2>2, <2>3
<1>13. CASE add_audit(w)
  <2> DEFINE draft == [Draft(w) EXCEPT !.audits = @ + 1]
  <2>1. Writing(w, "audit") /\ Written(w, draft) /\ request' = request
    BY <1>13 DEF add_audit
  <2>2. CASE op # "create_shipment"
    <3>1. draft = [row |-> DraftRow(w), client |-> Stored(w).client,
                   history |-> DraftHistory(w), problems |-> DraftProblems(w),
                   checks |-> Draft(w).checks + CheckRow("audit"),
                   audits |-> Draft(w).audits + AuditRow("audit")]
      <4>1. PICK checks, audits \in Nat :
              Draft(w) = [row |-> DraftRow(w), client |-> Stored(w).client,
                          history |-> DraftHistory(w), problems |-> DraftProblems(w),
                          checks |-> checks, audits |-> audits]
        BY <1>6, <2>1, <2>2
      <4>2. CheckRow("audit") = 0 /\ AuditRow("audit") = 1
        BY DEF CheckRow, AuditRow
      <4>3. draft = [Draft(w) EXCEPT !.audits = @ + 1]
        OBVIOUS
      <4> HIDE DEF draft
      <4> QED
        BY <4>1, <4>2, <4>3, Amended
    <3> HIDE DEF draft
    <3> QED
      BY <1>11, <2>1, <2>2, <3>1
  <2>3. CASE op = "create_shipment"
    <3>1. lock = w
      BY <2>1, <2>3, StatementDue
    <3>2. draft = [tx[w].draft EXCEPT !.audits = @ + AuditRow("audit")]
      BY <3>1 DEF Draft, One, CheckRow, AuditRow
    <3> HIDE DEF draft
    <3> QED
      BY <1>3, <2>1, <2>3, <3>2
  <2> QED
    BY <2>2, <2>3
<1> QED
  BY <1>2, <1>4, <1>7, <1>8, <1>9, <1>10, <1>12, <1>13 DEF Write

(* ------------------------------ the reads ------------------------------ *)

LEMMA PreparedCall ==
  ASSUME Inv, NEW w \in Workers, NEW row, NEW entry, NEW problem, NEW todo,
         Prepare(w, row, entry, problem, todo)
  PROVE  /\ pc'[w] = "write" /\ request' = request /\ ledger' = ledger
         /\ tx'[w].row = row /\ tx'[w].entry = entry
         /\ tx'[w].problem = problem /\ tx'[w].todo = todo
  BY DEF Inv, TypeOK, Prepare, Blank

(* Each method saves the row it read, at the version it was asked for.     *)
LEMMA ServiceVersion ==
  ASSUME Inv, NEW w \in Workers, VersionAsked(w), Service(w)
  PROVE  VersionAsked(w)'
<1>1. /\ pc \in [Workers -> {"idle", "read", "problem", "write"}]
      /\ tx \in [Workers -> Tx] /\ tx[w].row \in Row
  BY DEF Inv, TypeOK, Tx
<1>2. CASE Return(w)
  BY <1>1, <1>2 DEF Return, VersionAsked
<1>3. ASSUME pc[w] # "idle", request[w].op # "create_shipment"
      PROVE  StoredRow(w) \in Row /\ StoredRow(w) = Stored(w).row
  BY <1>3, StoredShipment DEF Inv, Calls, CallOK, StoredRow, Stored
<1>4. ASSUME NEW row \in Row, NEW entry, NEW problem, NEW todo,
             Prepare(w, row, entry, problem, todo),
             request[w].op \in VersionedOperations
               => row.version = request[w].expected /\ row.version <= Stored(w).row.version
      PROVE  VersionAsked(w)'
  BY <1>4, PreparedCall DEF VersionAsked, Stored
<1>5. \A row \in Row : \A target, now : apply_status(row, target, now).version = row.version
  BY DEF apply_status, Row
<1>6. CASE create_shipment(w)
  <2>1. request[w].op \notin VersionedOperations /\ FirstRow \in Row
    BY <1>6 DEF create_shipment, Reading, VersionedOperations, StatusOperations,
                FirstRow, Row, Statuses, Never
  <2> QED
    BY <1>2, <1>4, <1>6, <2>1 DEF create_shipment
<1>7. CASE record_control_weight(w)
  <2>1. /\ request[w].op \notin VersionedOperations
        /\ pc[w] # "idle" /\ request[w].op # "create_shipment"
    BY <1>7 DEF record_control_weight, Reading, VersionedOperations, StatusOperations
  <2> QED
    BY <1>2, <1>3, <1>4, <1>7, <2>1 DEF record_control_weight
<1>8. ASSUME pc[w] = "read", request[w].op # "create_shipment",
             require_expected_version(StoredRow(w), request[w])
      PROVE  /\ StoredRow(w) \in Row
             /\ StoredRow(w).version = request[w].expected
             /\ StoredRow(w).version <= Stored(w).row.version
  BY <1>3, <1>8 DEF require_expected_version, Row
<1>9. CASE update_shipment(w)
  BY <1>2, <1>4, <1>8, <1>9 DEF update_shipment, Reading
<1>10. CASE change_status(w)
  <2> DEFINE row == apply_status(StoredRow(w), request[w].target, clock)
             entry == StatusEntry(StoredRow(w).status, request[w].target,
                        ~can_transition(StoredRow(w).status, request[w].target)
                          /\ request[w].override)
  <2>1. /\ pc[w] = "read" /\ request[w].op = "change_status"
        /\ \/ Return(w)
           \/ /\ require_expected_version(StoredRow(w), request[w])
              /\ Prepare(w, row, entry, 0, <<"shipment", "history", "audit">>)
    BY <1>10 DEF change_status, Reading
  <2>2. ASSUME require_expected_version(StoredRow(w), request[w])
        PROVE  /\ row \in Row /\ row.version = request[w].expected
               /\ row.version <= Stored(w).row.version
    <3>1. request[w].target \in Statuses
      BY <2>1 DEF Inv, Calls, CallOK
    <3>2. row \in Row
      BY <1>8, <2>1, <2>2, <3>1, StatusTypes DEF Inv
    <3> QED
      BY <1>5, <1>8, <2>1, <2>2, <3>2
  <2> HIDE DEF row, entry
  <2> QED
    BY <1>2, <1>4, <2>1, <2>2
<1>11. CASE set_archived(w)
  <2> DEFINE row == [StoredRow(w) EXCEPT !.archived = request[w].op = "archive_shipment"]
  <2>1. /\ pc[w] = "read" /\ request[w].op # "create_shipment"
        /\ \/ Return(w)
           \/ /\ require_expected_version(StoredRow(w), request[w])
              /\ Prepare(w, row, NoEntry, 0, <<"shipment", "audit">>)
    BY <1>11 DEF set_archived
  <2>2. ASSUME require_expected_version(StoredRow(w), request[w])
        PROVE  /\ row \in Row /\ row.version = request[w].expected
               /\ row.version <= Stored(w).row.version
    BY <1>8, <2>1, <2>2 DEF Row
  <2> HIDE DEF row
  <2> QED
    BY <1>2, <1>4, <2>1, <2>2
<1>12. CASE ReadForProblem(w)
  <2>1. CASE Return(w)
    BY <1>2, <2>1
  <2>2. CASE ~Return(w)
    <3>1. /\ pc[w] = "read" /\ request[w].op # "create_shipment"
          /\ require_expected_version(StoredRow(w), request[w])
          /\ tx' = [tx EXCEPT ![w].row = StoredRow(w)]
          /\ ledger' = ledger /\ request' = request
      BY <1>12, <2>2 DEF ReadForProblem
    <3>2. tx'[w].row = StoredRow(w)
      BY <1>1, <3>1 DEF Tx
    <3> QED
      BY <1>8, <3>1, <3>2 DEF VersionAsked, Stored
  <2> QED
    BY <2>1, <2>2
<1>13. ASSUME NEW target \in Statuses, pc[w] = "problem",
              request[w].op \in {"report_problem", "resolve_problem"},
              NEW row, row = apply_status(tx[w].row, target, clock)
       PROVE  /\ row \in Row /\ row.version = request[w].expected
              /\ row.version <= Stored(w).row.version
  <2>1. row \in Row
    BY <1>1, <1>13, StatusTypes DEF Inv
  <2>2. /\ tx[w].row.version = request[w].expected
        /\ tx[w].row.version <= Stored(w).row.version
    BY <1>13 DEF VersionAsked, VersionedOperations, StatusOperations
  <2> QED
    BY <1>1, <1>5, <1>13, <2>1, <2>2
<1>14. CASE report_problem(w)
  <2> DEFINE row == apply_status(tx[w].row, "PROBLEM", clock)
             entry == StatusEntry(tx[w].row.status, "PROBLEM", FALSE)
  <2>1. /\ pc[w] = "problem" /\ request[w].op = "report_problem"
        /\ \/ Return(w)
           \/ Prepare(w, row, entry, 0, <<"shipment", "problem", "history", "audit">>)
    BY <1>14 DEF report_problem
  <2>2. /\ row \in Row /\ row.version = request[w].expected
        /\ row.version <= Stored(w).row.version
    BY <1>13, <2>1 DEF Statuses
  <2> HIDE DEF row, entry
  <2> QED
    BY <1>2, <1>4, <2>1, <2>2
<1>15. CASE resolve_problem(w)
  <2> DEFINE problems == ledger[request[w].number].problems
             Target(p) == IF request[w].target = ServiceDefault
                          THEN problems[p].previous_status ELSE request[w].target
             row(p) == apply_status(tx[w].row, Target(p), clock)
             entry(p) == StatusEntry("PROBLEM", Target(p), FALSE)
  <2>1. /\ pc[w] = "problem" /\ request[w].op = "resolve_problem"
        /\ \/ Return(w)
           \/ \E p \in OpenProblems(problems) :
                Prepare(w, row(p), entry(p), p,
                        <<"resolution", "shipment", "history", "audit">>)
    BY <1>15 DEF resolve_problem
  <2>2. ASSUME NEW p \in OpenProblems(problems)
        PROVE  /\ row(p) \in Row /\ row(p).version = request[w].expected
               /\ row(p).version <= Stored(w).row.version
    <3>1. problems \in Seq(Problem)
      BY <2>1, StoredShipment DEF Inv, Calls, CallOK
    <3>2. problems[p] \in Problem
      BY <2>2, <3>1, ElementOfSeq, LenProperties DEF OpenProblems
    <3>3. Target(p) \in Statuses
      BY <3>2 DEF Problem, Inv, TypeOK, Request
    <3> HIDE DEF Target
    <3> QED
      BY <1>13, <2>1, <3>3
  <2> HIDE DEF problems, row, entry
  <2> QED
    BY <1>2, <1>4, <2>1, <2>2
<1> QED
  BY <1>6, <1>7, <1>9, <1>10, <1>11, <1>12, <1>14, <1>15 DEF Service

(* ------------------------------ the commit ----------------------------- *)

(* A commit publishes the whole plan: a versioned call steps the version   *)
(* it asked for, a weighing adds a check, and each adds one audit event.   *)
LEMMA Published ==
  ASSUME Inv, NEW w \in Workers, VersionAsked(w), Drafted(w), commit(w)
  PROVE  /\ \A n \in DOMAIN ledger : n # request[w].number => ledger'[n] = ledger[n]
         /\ IF request[w].op = "create_shipment"
            THEN /\ request[w].number \notin DOMAIN ledger
                 /\ ledger'[request[w].number] = [Received(request[w].client) EXCEPT !.audits = 1]
            ELSE /\ request[w].number \in DOMAIN ledger
                 /\ ledger'[request[w].number].audits = Stored(w).audits + 1
                 /\ IF request[w].op \in VersionedOperations
                    THEN /\ Stored(w).row.version = request[w].expected
                         /\ ledger'[request[w].number].row.version = request[w].expected + 1
                         /\ ledger'[request[w].number].checks = Stored(w).checks
                    ELSE /\ ledger'[request[w].number].row = Stored(w).row
                         /\ ledger'[request[w].number].checks = Stored(w).checks + 1
<1> DEFINE n == request[w].number
           op == request[w].op
<1>1. /\ pc[w] = "write" /\ tx[w].todo = <<>> /\ lock = w
      /\ ledger' = [m \in DOMAIN ledger \cup {n} |-> IF m = n THEN tx[w].draft ELSE ledger[m]]
  BY CommitFacts DEF commit
<1>2. Due(w) = {}
  BY <1>1, PlanElements DEF Due
<1>3. ledger'[n] = tx[w].draft /\ \A m \in DOMAIN ledger : m # n => ledger'[m] = ledger[m]
  BY <1>1
<1>4. CASE op = "create_shipment"
  <2>1. n \notin DOMAIN ledger
    <3>1. n = next_value
      BY <1>4, CommitFacts
    <3>2. next_value \in Nat /\ DOMAIN ledger = 1 .. next_value - 1
      BY DEF Inv, TypeOK, NumbersInOrder
    <3> HIDE DEF n
    <3> QED
      BY <3>1, <3>2
  <2>2. tx[w].draft = [Received(request[w].client) EXCEPT !.audits = 1]
    BY <1>1, <1>2, <1>4 DEF Drafted, One
  <2> QED
    BY <1>3, <1>4, <2>1, <2>2
<1>5. CASE op # "create_shipment"
  <2>1. n \in DOMAIN ledger /\ op \in OperationNames
    BY <1>1, <1>5, CommitFacts, WriterState
  <2>2. Stored(w) \in Shipment
    BY <2>1, StoredShipment DEF Inv, Stored
  <2>3. tx[w].draft = DraftOf(w)
    BY <1>1, <1>5 DEF Drafted
  <2>4. /\ tx[w].draft.row = DraftRow(w)
        /\ tx[w].draft.audits = Stored(w).audits + 1
        /\ tx[w].draft.checks = Stored(w).checks + One(op = "record_control_weight")
    BY <1>2, <2>3 DEF DraftOf, One
  <2>5. CASE op \in VersionedOperations
    <3>1. Stored(w).row.version = request[w].expected /\ tx[w].row.version = request[w].expected
      BY <1>1, <1>2, <1>5, <2>5 DEF VersionAsked, Drafted
    <3>2. tx[w].row \in Row
      BY DEF Inv, TypeOK, Tx
    <3>3. DraftRow(w).version = request[w].expected + 1
      BY <1>2, <2>5, <3>1, <3>2 DEF DraftRow, Row
    <3>4. One(op = "record_control_weight") = 0
      BY <2>5 DEF VersionedOperations, StatusOperations, One
    <3>5. tx[w].draft.checks = Stored(w).checks
      BY <2>2, <2>4, <3>4 DEF Shipment
    <3> QED
      BY <1>3, <1>5, <2>1, <2>4, <2>5, <3>1, <3>3, <3>5
  <2>6. CASE op \notin VersionedOperations
    <3>1. op = "record_control_weight"
      BY <1>5, <2>1, <2>6 DEF OperationNames, VersionedOperations, StatusOperations
    <3>2. DraftRow(w) = Stored(w).row /\ One(op = "record_control_weight") = 1
      BY <2>6, <3>1 DEF DraftRow, One
    <3> QED
      BY <1>3, <1>5, <2>1, <2>4, <2>6, <3>2
  <2> QED
    BY <2>5, <2>6
<1> QED
  BY <1>4, <1>5

(* The version of a committed shipment never goes back.                    *)
LEMMA VersionsGrow ==
  ASSUME Inv, NEW w \in Workers, VersionAsked(w), Drafted(w), commit(w),
         NEW n \in DOMAIN ledger
  PROVE  ledger'[n].row.version >= ledger[n].row.version
<1>1. ledger[n].row.version \in Nat
  BY StoredShipment DEF Inv, Row
<1>2. CASE n # request[w].number
  <2>1. ledger'[n] = ledger[n]
    BY <1>2, Published
  <2> QED
    BY <1>1, <2>1
<1>3. CASE n = request[w].number
  <2>1. request[w].op # "create_shipment" /\ Stored(w) = ledger[n]
    BY <1>3, Published DEF Stored
  <2>2. CASE request[w].op \in VersionedOperations
    <3>1. /\ ledger[n].row.version = request[w].expected
          /\ ledger'[n].row.version = request[w].expected + 1
      BY <1>3, <2>1, <2>2, Published
    <3> QED
      BY <1>1, <3>1
  <2>3. CASE request[w].op \notin VersionedOperations
    <3>1. ledger'[n].row = ledger[n].row
      BY <1>3, <2>1, <2>3, Published
    <3> QED
      BY <1>1, <3>1
  <2> QED
    BY <2>2, <2>3
<1> QED
  BY <1>2, <1>3

LEMMA NoTransaction ==
  ASSUME NEW v \in Workers, pc'[v] \notin {"problem", "write"}, lock' # v
  PROVE  VersionAsked(v)' /\ Drafted(v)'
  BY DEF VersionAsked, Drafted

LEMMA OwnStep ==
  ASSUME Inv, Transactions, NEW w \in Workers,
         \/ Asked(w) \/ Return(w) \/ Service(w) \/ Write(w) \/ commit(w)
  PROVE  VersionAsked(w)' /\ Drafted(w)'
<1>1. /\ pc \in [Workers -> {"idle", "read", "problem", "write"}]
      /\ request \in [Workers -> Request] /\ tx \in [Workers -> Tx]
      /\ WritesOK(w) /\ VersionAsked(w) /\ Drafted(w)
  BY DEF Inv, TypeOK, Calls, Transactions
<1>2. CASE Return(w) \/ commit(w)
  <2>1. pc'[w] = "idle" /\ lock' # w
    BY <1>1, <1>2, WorkersAssumption DEF Return, commit
  <2> QED
    BY <2>1, NoTransaction
<1>3. CASE Asked(w)
  <2>1. pc'[w] = "read" /\ lock' # w
    BY <1>1, <1>3 DEF Asked, WritesOK
  <2> QED
    BY <2>1, NoTransaction
<1>4. CASE Service(w)
  <2>1. CASE Return(w)
    BY <1>2, <2>1
  <2>2. CASE ~Return(w)
    <3>1. lock' # w
      BY <1>1, <1>4, <2>2, ServiceShape DEF SecondRead, Prepared, Prepare, WritesOK
    <3> QED
      BY <1>1, <1>4, <3>1, ServiceVersion DEF Drafted
  <2> QED
    BY <2>1, <2>2
<1>5. CASE Write(w)
  <2>1. CASE Return(w)
    BY <1>2, <2>1
  <2>2. CASE ~Return(w)
    <3>1. Drafted(w)'
      BY <1>1, <1>5, <2>2, WriteDrafted
    <3>2. Wrote(w)
      BY <1>5, <2>2, WriteShape
    <3>3. /\ pc[w] = "write" /\ ledger' = ledger
          /\ tx'[w].row = tx[w].row
      BY <1>1, <3>2 DEF Wrote, Written, Tx
    <3>4. CASE Head(tx[w].todo) = "number"
      <4>1. request[w].op = "create_shipment"
        BY <3>2, <3>3, <3>4, WriterState, PlanFacts DEF Wrote
      <4>2. request'[w].op = request[w].op
        BY <1>1, <3>2 DEF Wrote, Request
      <4> QED
        BY <3>1, <4>1, <4>2 DEF VersionAsked, VersionedOperations, StatusOperations
    <3>5. CASE Head(tx[w].todo) # "number"
      <4>1. request' = request
        BY <3>2, <3>5 DEF Wrote
      <4> QED
        BY <1>1, <3>1, <3>3, <4>1 DEF VersionAsked, Stored
    <3> QED
      BY <3>4, <3>5
  <2> QED
    BY <2>1, <2>2
<1> QED
  BY <1>2, <1>3, <1>4, <1>5

(* What the others do: the holder of the lock keeps the database still,    *)
(* and for the rest the versions only grow.                                *)
LEMMA OthersStep ==
  ASSUME Inv, Transactions, NEW w \in Workers, NEW v \in Workers, v # w,
         \/ Asked(w) \/ Return(w) \/ SecondRead(w) \/ Prepared(w) \/ Wrote(w) \/ commit(w)
  PROVE  VersionAsked(v)' /\ Drafted(v)'
<1>1. /\ pc \in [Workers -> {"idle", "read", "problem", "write"}]
      /\ request \in [Workers -> Request] /\ tx \in [Workers -> Tx]
      /\ VersionAsked(v) /\ Drafted(v) /\ VersionAsked(w) /\ Drafted(w)
      /\ pc[v] # "idle" => CallOK(v)
  BY DEF Inv, TypeOK, Calls, Transactions
<1>2. pc'[v] = pc[v] /\ request'[v] = request[v] /\ tx'[v] = tx[v]
  BY <1>1 DEF Asked, Return, SecondRead, Prepared, Prepare, Wrote, Written, commit
<1>3. CASE ledger' = ledger
  <2>1. lock' = v => lock = v
    BY WorkersAssumption, CommitFacts
    DEF Asked, Return, SecondRead, Prepared, Prepare, Wrote, Written, commit
  <2>2. Stored(v)' = Stored(v) /\ Due(v)' = Due(v)
    BY <1>2, <1>3 DEF Stored, Due
  <2>3. DraftOf(v)' = DraftOf(v)
    BY <1>2, <2>2 DEF DraftOf, DraftRow, DraftHistory, DraftProblems, Reported
  <2> QED
    BY <1>1, <1>2, <2>1, <2>2, <2>3 DEF VersionAsked, Drafted
<1>4. CASE commit(w)
  <2>1. lock' # v
    BY <1>4, WorkersAssumption DEF commit
  <2>2. ASSUME pc[v] \in {"problem", "write"}, request[v].op \in VersionedOperations
        PROVE  tx[v].row.version <= Stored(v)'.row.version
    <3>1. request[v].number \in DOMAIN ledger
      BY <1>1, <2>2 DEF CallOK, VersionedOperations, StatusOperations
    <3>2. /\ Stored(v)'.row.version >= Stored(v).row.version
          /\ Stored(v).row.version \in Nat
      BY <1>1, <1>2, <1>4, <3>1, VersionsGrow, StoredShipment DEF Stored, Inv, Row
    <3>3. tx[v].row.version <= Stored(v).row.version /\ tx[v].row.version \in Nat
      BY <1>1, <2>2 DEF VersionAsked, Tx, Row
    <3>4. Stored(v)'.row.version \in Nat
      <4>1. TypeOK'
        BY <1>4, TypeStep DEF Next, Run
      <4>2. request'[v].number \in DOMAIN ledger'
        BY <1>2, <1>4, <3>1 DEF commit
      <4> QED
        BY <4>1, <4>2 DEF TypeOK, Stored, Shipment, Row
    <3> QED
      BY <3>2, <3>3, <3>4
  <2> QED
    BY <1>1, <1>2, <2>1, <2>2 DEF VersionAsked, Drafted
<1> QED
  BY <1>3, <1>4 DEF Asked, Return, SecondRead, Prepared, Prepare, Wrote, Written

LEMMA TransactionsStep == ASSUME Inv, Transactions, [Next]_vars PROVE Transactions'
<1>1. ASSUME NEW w \in Workers, Submit(w) \/ Run(w) \/ Deny(w) \/ Fail(w)
      PROVE  Transactions'
  <2>1. Asked(w) \/ Return(w) \/ Service(w) \/ Write(w) \/ commit(w)
    BY <1>1, AskedShape DEF Run, Busy, Deny, Fail
  <2>2. Asked(w) \/ Return(w) \/ SecondRead(w) \/ Prepared(w) \/ Wrote(w) \/ commit(w)
    BY <2>1, ServiceShape, WriteShape
  <2> QED
    BY <2>1, <2>2, OwnStep, OthersStep DEF Transactions
<1>2. CASE Crash
  <2>1. \A v \in Workers : pc'[v] = "idle" /\ lock' # v
    BY <1>2, WorkersAssumption DEF Crash
  <2> QED
    BY <2>1, NoTransaction DEF Transactions
<1>3. CASE UNCHANGED <<ledger, lock, pc, request, tx>>
  <2>1. ASSUME NEW v \in Workers PROVE VersionAsked(v)' /\ Drafted(v)'
    <3>1. Stored(v)' = Stored(v) /\ Due(v)' = Due(v)
      BY <1>3 DEF Stored, Due
    <3>2. DraftOf(v)' = DraftOf(v)
      BY <1>3, <3>1 DEF DraftOf, DraftRow, DraftHistory, DraftProblems, Reported
    <3>3. VersionAsked(v) /\ Drafted(v)
      BY DEF Transactions
    <3> QED
      BY <1>3, <3>1, <3>2, <3>3 DEF VersionAsked, Drafted
  <2> QED
    BY <2>1 DEF Transactions
<1> QED
  BY <1>1, <1>2, <1>3 DEF Next, Tick, set_active, vars

LEMMA AuditStep == ASSUME Inv, Transactions, AuditComplete, [Next]_vars PROVE AuditComplete'
<1>1. CASE ledger' = ledger
  BY <1>1 DEF AuditComplete
<1>2. ASSUME NEW w \in Workers, commit(w) PROVE AuditComplete'
  <2> DEFINE n == request[w].number
  <2>1. VersionAsked(w) /\ Drafted(w) /\ DOMAIN ledger' = DOMAIN ledger \cup {n}
    BY <1>2, CommitFacts DEF Transactions
  <2>2. \A m \in DOMAIN ledger' : m # n => ledger'[m].audits = ledger'[m].row.version + ledger'[m].checks
    BY <1>2, <2>1, Published DEF AuditComplete
  <2>3. ledger'[n].audits = ledger'[n].row.version + ledger'[n].checks
    <3>1. CASE request[w].op = "create_shipment"
      <4>1. ledger'[n] = [Received(request[w].client) EXCEPT !.audits = 1]
        BY <1>2, <2>1, <3>1, Published
      <4> HIDE DEF n
      <4> QED
        BY <4>1 DEF Received, FirstRow
    <3>2. CASE request[w].op # "create_shipment"
      <4>1. /\ Stored(w) \in Shipment /\ Stored(w).row.version \in Nat
            /\ Stored(w).audits = Stored(w).row.version + Stored(w).checks
        BY <1>2, <2>1, <3>2, Published, StoredShipment
        DEF Stored, Inv, AuditComplete, Row
      <4>2. ledger'[n].audits = Stored(w).audits + 1 /\ Stored(w).checks \in Nat
        BY <1>2, <2>1, <3>2, <4>1, Published DEF Shipment
      <4>3. CASE request[w].op \in VersionedOperations
        <5>1. /\ ledger'[n].row.version = Stored(w).row.version + 1
              /\ ledger'[n].checks = Stored(w).checks
          BY <1>2, <2>1, <3>2, <4>3, Published
        <5> HIDE DEF n
        <5> QED
          BY <4>1, <4>2, <5>1
      <4>4. CASE request[w].op \notin VersionedOperations
        <5>1. /\ ledger'[n].row = Stored(w).row
              /\ ledger'[n].checks = Stored(w).checks + 1
          BY <1>2, <2>1, <3>2, <4>4, Published
        <5> HIDE DEF n
        <5> QED
          BY <4>1, <4>2, <5>1
      <4> QED
        BY <4>3, <4>4
    <3> QED
      BY <3>1, <3>2
  <2> QED
    BY <2>2, <2>3 DEF AuditComplete
<1> QED
  BY <1>1, <1>2, Shapes
  DEF Asked, Return, SecondRead, Prepared, Prepare, Wrote, Written, Crash, Elsewhere

LEMMA SafetyInitially == Init => Transactions /\ AuditComplete
  BY WorkersAssumption DEF Init, Transactions, VersionAsked, Drafted, AuditComplete

THEOREM SafetyInvariant == Spec => [](Inv /\ Transactions /\ AuditComplete)
<1>1. Inv /\ Transactions /\ AuditComplete /\ [Next]_vars
        => (Inv /\ Transactions /\ AuditComplete)'
  BY TypeStep, NumbersStep, CallsStep, TransactionsStep, AuditStep DEF Inv
<1> QED
  BY Initially, SafetyInitially, <1>1, PTL DEF Spec

(* Whatever fails or crashes between two statements, the committed audit   *)
(* events of a shipment are one for its creation, one for every version    *)
(* since and one for every weighing: the audit event a service method      *)
(* writes last commits together with the change it reports.                *)
THEOREM AuditNeitherLostNorDoubled == Spec => []AuditComplete
  BY SafetyInvariant, PTL

(* A commit changes a shipment's row only from the version its caller      *)
(* asked for, although the version is compared in the service method and   *)
(* in the guarded UPDATE and other calls commit between the two.           *)
THEOREM NobodyOverwritten == Spec => NoStaleOverwrite
<1> DEFINE Guarded ==
             \A w \in Workers, n \in DOMAIN ledger :
               commit(w) /\ ledger'[n].row # ledger[n].row
                 => /\ request[w].number = n
                    /\ request[w].expected = ledger[n].row.version
                    /\ ledger'[n].row.version = request[w].expected + 1
<1>1. Inv /\ Transactions => Guarded
  <2> SUFFICES ASSUME Inv, Transactions, NEW w \in Workers, NEW n \in DOMAIN ledger,
                      commit(w), ledger'[n].row # ledger[n].row
               PROVE  /\ request[w].number = n
                      /\ request[w].expected = ledger[n].row.version
                      /\ ledger'[n].row.version = request[w].expected + 1
    OBVIOUS
  <2>1. VersionAsked(w) /\ Drafted(w)
    BY DEF Transactions
  <2>2. n = request[w].number /\ Stored(w) = ledger[n]
    BY <2>1, Published DEF Stored
  <2> QED
    BY <2>1, <2>2, Published
<1>2. Inv /\ Transactions => [Guarded]_vars
  BY <1>1
<1> HIDE DEF Guarded
<1>3. Spec => [][Guarded]_vars
  BY <1>2, SafetyInvariant, PTL
<1> QED
  BY <1>3 DEF NoStaleOverwrite, Guarded

(* ------------------------- a committed shipment ------------------------ *)

Before(history, i) == IF i = 1 THEN "RECEIVED" ELSE history[i-1].new_status

Chain(history, status) ==
  /\ \A i \in DOMAIN history :
       /\ history[i].old_status = Before(history, i)
       /\ i > 1 => history[i-1].at <= history[i].at
  /\ status = Before(history, Len(history) + 1)

Stamp(history, status, at) ==
  \/ /\ at = Never
     /\ \A i \in DOMAIN history : history[i].new_status # status
  \/ \E i \in DOMAIN history :
       /\ history[i].new_status = status
       /\ history[i].at = at
       /\ \A j \in 1 .. i-1 : history[j].new_status # status

ProblemsMatch(status, history, problems) ==
  LET open == OpenProblems(problems)
  IN IF status = "PROBLEM"
     THEN \E p \in open :
            /\ open = {p}
            /\ problems[p].previous_status = history[Len(history)].old_status
     ELSE open = {}

(* Nothing is dated before the clock started or after its present value,   *)
(* and no problem was reported of a shipment at PROBLEM.                   *)
Dated(history, problems, now) ==
  /\ \A i \in DOMAIN history : 1 <= history[i].at /\ history[i].at <= now
  /\ \A p \in DOMAIN problems : /\ problems[p].reported_at <= now
                                /\ problems[p].previous_status # "PROBLEM"

Sound(s, now) ==
  /\ Chain(s.history, s.row.status)
  /\ Stamp(s.history, "SORTING", s.row.sorted_at)
  /\ Stamp(s.history, "DISPATCHED", s.row.dispatched_at)
  /\ ProblemsMatch(s.row.status, s.history, s.problems)
  /\ Dated(s.history, s.problems, now)

(* A row after the guarded UPDATE.                                         *)
Stepped(row) == [row EXCEPT !.version = @ + 1]

(* A row archived or restored.                                             *)
Filed(row, archive) == [row EXCEPT !.archived = archive]

(* The problems after save_problem.                                        *)
Resolution(problems, p, at) == [problems EXCEPT ![p].resolved_at = at]

(* ------------------------ a call that has decided ---------------------- *)

(* The row the call read is still the committed one.                       *)
Fresh(w) == Stored(w).row.version = tx[w].row.version

(* The lawful entries of the three methods that change a status.           *)
LawfulEntry(w) ==
  LET entry == tx[w].entry
      problem == Stored(w).problems[tx[w].problem]
  IN /\ request[w].op = "change_status" =>
          /\ entry.old_status # "PROBLEM" /\ entry.new_status # "PROBLEM"
          /\ entry.override <=> ~can_transition(entry.old_status, entry.new_status)
          /\ entry.override => request[w].text # "none"
     /\ request[w].op = "report_problem" =>
          /\ entry.new_status = "PROBLEM" /\ ~entry.override
          /\ can_transition(entry.old_status, "PROBLEM")
     /\ request[w].op = "resolve_problem" =>
          /\ entry.old_status = "PROBLEM" /\ ~entry.override
          /\ tx[w].problem \in DOMAIN Stored(w).problems
          /\ problem.reported_at <= entry.at
          /\ can_recover(problem.previous_status, entry.new_status)

StatusPlan(w) ==
  /\ tx[w].entry.old_status # tx[w].entry.new_status
  /\ 1 <= tx[w].entry.at /\ tx[w].entry.at <= clock
  /\ request[w].op # "report_problem" => request[w].text # "long"
  /\ LawfulEntry(w)

(* What the call saves is the committed row, changed as the call asks.     *)
FreshPlan(w) ==
  LET row == Stored(w).row
      entry == tx[w].entry
  IN /\ row.archived <=> request[w].op = "restore_shipment"
     /\ request[w].op = "update_shipment" => tx[w].row = row
     /\ request[w].op = "archive_shipment" => tx[w].row = Filed(row, TRUE)
     /\ request[w].op = "restore_shipment" => tx[w].row = Filed(row, FALSE)
     /\ request[w].op \in StatusOperations =>
          /\ entry.old_status = row.status
          /\ tx[w].row = apply_status(row, entry.new_status, entry.at)
          /\ \A i \in DOMAIN Stored(w).history : Stored(w).history[i].at <= entry.at
     /\ request[w].op = "resolve_problem"
          => tx[w].problem \in OpenProblems(Stored(w).problems)

(* Between the two reads of a problem call.                                *)
ReadPlan(w) ==
  /\ request[w].op = "resolve_problem"
       => tx[w].row.status = "PROBLEM" /\ request[w].text # "long"
  /\ Fresh(w) => tx[w].row = Stored(w).row /\ ~Stored(w).row.archived

Planned(w) ==
  /\ pc[w] = "problem" => ReadPlan(w)
  /\ pc[w] = "write" /\ request[w].op \in StatusOperations => StatusPlan(w)
  /\ pc[w] = "write" /\ request[w].op \in VersionedOperations /\ Fresh(w) => FreshPlan(w)

Histories ==
  /\ clock >= 1
  /\ \A n \in DOMAIN ledger : Sound(ledger[n], clock)
  /\ \A w \in Workers : Planned(w)

(* ------------------------------ sequences ------------------------------ *)

LEMMA Appended ==
  ASSUME NEW S, NEW seq \in Seq(S), NEW e \in S
  PROVE  /\ Append(seq, e) \in Seq(S)
         /\ Len(seq) \in Nat
         /\ Len(Append(seq, e)) = Len(seq) + 1
         /\ DOMAIN seq = 1 .. Len(seq)
         /\ DOMAIN Append(seq, e) = 1 .. Len(seq) + 1
         /\ \A i \in 1 .. Len(seq) : Append(seq, e)[i] = seq[i] /\ seq[i] \in S
         /\ Append(seq, e)[Len(seq) + 1] = e
<1>1. /\ Append(seq, e) \in Seq(S)
      /\ Len(Append(seq, e)) = Len(seq) + 1
      /\ \A i \in 1 .. Len(seq) : Append(seq, e)[i] = seq[i]
      /\ Append(seq, e)[Len(seq) + 1] = e
  BY AppendProperties
<1>2. Len(seq) \in Nat /\ DOMAIN seq = 1 .. Len(seq)
  BY LenProperties
<1>3. DOMAIN Append(seq, e) = 1 .. Len(seq) + 1
  BY <1>1, LenProperties
<1>4. \A i \in 1 .. Len(seq) : seq[i] \in S
  BY ElementOfSeq
<1> QED
  BY <1>1, <1>2, <1>3, <1>4

(* An entry that starts where the chain ends, not earlier, extends it.     *)
LEMMA ChainExtended ==
  ASSUME NEW history \in Seq(HistoryEntry), NEW entry \in HistoryEntry,
         NEW status, Chain(history, status), entry.old_status = status,
         \A i \in DOMAIN history : history[i].at <= entry.at
  PROVE  Chain(Append(history, entry), entry.new_status)
<1> DEFINE n == Len(history)
           h == Append(history, entry)
<1>1. /\ n \in Nat /\ DOMAIN history = 1 .. n
      /\ Len(h) = n + 1 /\ DOMAIN h = 1 .. n + 1
      /\ \A i \in 1 .. n : h[i] = history[i]
      /\ h[n + 1] = entry
  BY Appended
<1> HIDE DEF n, h
<1>2. ASSUME NEW i \in 1 .. n
      PROVE  h[i].old_status = Before(h, i) /\ (i > 1 => h[i-1].at <= h[i].at)
  <2>1. /\ history[i].old_status = Before(history, i)
        /\ i > 1 => history[i-1].at <= history[i].at
    BY <1>1, <1>2 DEF Chain
  <2>2. i = 1 \/ i - 1 \in 1 .. n
    BY <1>1, <1>2
  <2> QED
    BY <1>1, <1>2, <2>1, <2>2 DEF Before
<1>3. h[n+1].old_status = Before(h, n+1) /\ (n + 1 > 1 => h[n].at <= h[n+1].at)
  <2>1. status = Before(history, n + 1)
    BY DEF Chain, n
  <2>2. n = 0 \/ n \in 1 .. n
    BY <1>1
  <2> QED
    BY <1>1, <2>1, <2>2 DEF Before
<1>4. entry.new_status = Before(h, Len(h) + 1)
  BY <1>1 DEF Before
<1> QED
  BY <1>1, <1>2, <1>3, <1>4 DEF Chain, h

(* A stamp set on the first entry into its status, and only then.          *)
LEMMA StampExtended ==
  ASSUME NEW history \in Seq(HistoryEntry), NEW entry \in HistoryEntry,
         NEW status, NEW at, Stamp(history, status, at),
         \A i \in DOMAIN history : 1 <= history[i].at,
         NEW stamp,
         stamp = IF entry.new_status = status /\ at = Never THEN entry.at ELSE at
  PROVE  Stamp(Append(history, entry), status, stamp)
<1> DEFINE n == Len(history)
           h == Append(history, entry)
<1>1. /\ n \in Nat /\ DOMAIN history = 1 .. n
      /\ DOMAIN h = 1 .. n + 1
      /\ \A i \in 1 .. n : h[i] = history[i] /\ history[i] \in HistoryEntry
      /\ h[n + 1] = entry
  BY Appended
<1> HIDE DEF n, h
<1>2. CASE at = Never /\ \A i \in DOMAIN history : history[i].new_status # status
  <2>1. CASE entry.new_status = status
    <3>1. h[n+1].new_status = status /\ h[n+1].at = stamp
      BY <1>1, <1>2, <2>1
    <3>2. \A j \in 1 .. (n+1)-1 : h[j].new_status # status
      BY <1>1, <1>2
    <3> QED
      BY <1>1, <3>1, <3>2 DEF Stamp, h
  <2>2. CASE entry.new_status # status
    <3>1. \A i \in DOMAIN h : h[i].new_status # status
      BY <1>1, <1>2, <2>2
    <3> QED
      BY <1>2, <2>2, <3>1 DEF Stamp, h
  <2> QED
    BY <2>1, <2>2
<1>3. ASSUME NEW i \in DOMAIN history, history[i].new_status = status, history[i].at = at,
             \A j \in 1 .. i-1 : history[j].new_status # status
      PROVE  Stamp(h, status, stamp)
  <2>1. at # Never
    BY <1>3 DEF Never
  <2>2. i \in DOMAIN h /\ h[i].new_status = status /\ h[i].at = stamp
    BY <1>1, <1>3, <2>1
  <2>3. \A j \in 1 .. i-1 : h[j].new_status # status
    BY <1>1, <1>3
  <2> QED
    BY <2>2, <2>3 DEF Stamp
<1> QED
  BY <1>2, <1>3 DEF Stamp, h

(* A problem reported is the only new one that is open.                    *)
LEMMA ProblemReported ==
  ASSUME NEW problems \in Seq(Problem), NEW problem \in Problem,
         problem.resolved_at = Never
  PROVE  OpenProblems(Append(problems, problem))
           = OpenProblems(problems) \cup {Len(problems) + 1}
<1> DEFINE n == Len(problems)
           q == Append(problems, problem)
<1>1. /\ n \in Nat /\ DOMAIN problems = 1 .. n /\ DOMAIN q = 1 .. n + 1
      /\ \A i \in 1 .. n : q[i] = problems[i]
      /\ q[n + 1] = problem
  BY Appended
<1> HIDE DEF n, q
<1>2. OpenProblems(q) = OpenProblems(problems) \cup {n + 1}
  BY <1>1 DEF OpenProblems
<1> QED
  BY <1>2 DEF n, q

(* A problem resolved is not open any more; nothing else changes.          *)
LEMMA ProblemResolved ==
  ASSUME NEW problems \in Seq(Problem), NEW p \in DOMAIN problems,
         NEW at \in Nat, at # Never, NEW q, q = Resolution(problems, p, at)
  PROVE  /\ OpenProblems(q) = OpenProblems(problems) \ {p}
         /\ q \in Seq(Problem)
         /\ DOMAIN q = DOMAIN problems
         /\ \A i \in DOMAIN problems : /\ q[i].reported_at = problems[i].reported_at
                                       /\ q[i].previous_status = problems[i].previous_status
<1>1. DOMAIN problems = 1 .. Len(problems) /\ \A i \in DOMAIN problems : problems[i] \in Problem
  BY LenProperties, ElementOfSeq
<1> DEFINE resolved == [problems[p] EXCEPT !.resolved_at = at]
<1>2. /\ resolved \in Problem
      /\ resolved.resolved_at = at
      /\ resolved.reported_at = problems[p].reported_at
      /\ resolved.previous_status = problems[p].previous_status
  BY <1>1 DEF Problem
<1>3. q = [problems EXCEPT ![p] = resolved]
  BY DEF Resolution
<1> HIDE DEF resolved
<1>4. q \in Seq(Problem) /\ Len(q) = Len(problems)
  BY <1>1, <1>2, <1>3, ExceptSeq
<1>5. DOMAIN q = DOMAIN problems
  BY <1>3
<1>6. \A i \in DOMAIN problems : q[i] = IF i = p THEN resolved ELSE problems[i]
  BY <1>3
<1>7. OpenProblems(q) = OpenProblems(problems) \ {p}
  BY <1>2, <1>5, <1>6 DEF OpenProblems
<1> QED
  BY <1>2, <1>4, <1>5, <1>6, <1>7

(* ------------------------------ the commit ----------------------------- *)

(* What a commit makes of the stored shipment.                             *)
LEMMA Committed ==
  ASSUME Inv, NEW w \in Workers, VersionAsked(w), Drafted(w), commit(w),
         request[w].op # "create_shipment",
         NEW s, s = ledger'[request[w].number]
  PROVE  /\ request[w].number \in DOMAIN ledger
         /\ Stored(w) \in Shipment
         /\ request[w].op \in VersionedOperations
              => Fresh(w) /\ s.row = Stepped(tx[w].row)
         /\ request[w].op \notin VersionedOperations
              => request[w].op = "record_control_weight" /\ s.row = Stored(w).row
         /\ s.history = IF request[w].op \in StatusOperations
                        THEN Append(Stored(w).history, tx[w].entry) ELSE Stored(w).history
         /\ request[w].op \notin {"report_problem", "resolve_problem"}
              => s.problems = Stored(w).problems
         /\ request[w].op = "report_problem"
              => s.problems = Append(Stored(w).problems, Reported(w))
         /\ request[w].op = "resolve_problem"
              => s.problems = Resolution(Stored(w).problems, tx[w].problem, tx[w].entry.at)
         /\ request[w].op # "record_control_weight" => s.checks = Stored(w).checks
         /\ s.client = Stored(w).client
<1> DEFINE n == request[w].number
           op == request[w].op
<1>1. /\ pc[w] = "write" /\ tx[w].todo = <<>> /\ lock = w
      /\ ledger' = [m \in DOMAIN ledger \cup {n} |-> IF m = n THEN tx[w].draft ELSE ledger[m]]
  BY CommitFacts DEF commit
<1>2. Due(w) = {}
  BY <1>1, PlanElements DEF Due
<1>3. s = tx[w].draft
  BY <1>1
<1>4. n \in DOMAIN ledger /\ op \in OperationNames
  BY <1>1, CommitFacts, WriterState
<1>5. Stored(w) \in Shipment
  BY <1>4, StoredShipment DEF Inv, Stored
<1>6. s = DraftOf(w) /\ (op \in VersionedOperations => Fresh(w))
  BY <1>1, <1>2, <1>3 DEF Drafted, Fresh
<1>7. /\ s.row = DraftRow(w) /\ s.history = DraftHistory(w)
      /\ s.problems = DraftProblems(w) /\ s.client = Stored(w).client
      /\ s.checks = Stored(w).checks + One(op = "record_control_weight")
  BY <1>2, <1>6 DEF DraftOf
<1>8. op # "record_control_weight" => s.checks = Stored(w).checks
  BY <1>5, <1>7 DEF One, Shipment
<1>9. op \notin VersionedOperations => op = "record_control_weight"
  BY <1>4 DEF OperationNames, VersionedOperations, StatusOperations
<1>10. s.row = IF op \in VersionedOperations
               THEN Stepped(tx[w].row) ELSE Stored(w).row
  BY <1>2, <1>7 DEF DraftRow, Stepped
<1>11. s.history = IF op \in StatusOperations
                   THEN Append(Stored(w).history, tx[w].entry) ELSE Stored(w).history
  BY <1>2, <1>7 DEF DraftHistory
<1>12. s.problems = IF op = "report_problem" THEN Append(Stored(w).problems, Reported(w))
                    ELSE IF op = "resolve_problem"
                    THEN Resolution(Stored(w).problems, tx[w].problem, tx[w].entry.at)
                    ELSE Stored(w).problems
  BY <1>2, <1>7 DEF DraftProblems, Resolution
<1> HIDE DEF n, op
<1>13. request[w].number = n /\ request[w].op = op
  BY DEF n, op
<1> QED
  BY <1>4, <1>5, <1>6, <1>7, <1>8, <1>9, <1>10, <1>11, <1>12, <1>13

LEMMA SteppedRow ==
  ASSUME NEW row \in Row
  PROVE  /\ Stepped(row).status = row.status /\ Stepped(row).archived = row.archived
         /\ Stepped(row).sorted_at = row.sorted_at
         /\ Stepped(row).dispatched_at = row.dispatched_at
         /\ Stepped(row).version = row.version + 1
  BY DEF Stepped, Row

(* The row a status plan saves: the new status, and its stamp if it is new.*)
LEMMA StatusRow ==
  ASSUME NEW row \in Row, NEW entry \in HistoryEntry,
         NEW saved, saved = Stepped(apply_status(row, entry.new_status, entry.at))
  PROVE  /\ saved.status = entry.new_status
         /\ saved.archived = row.archived
         /\ saved.version = row.version + 1
         /\ saved.sorted_at = IF entry.new_status = "SORTING" /\ row.sorted_at = Never
                              THEN entry.at ELSE row.sorted_at
         /\ saved.dispatched_at = IF entry.new_status = "DISPATCHED" /\ row.dispatched_at = Never
                                  THEN entry.at ELSE row.dispatched_at
  BY DEF apply_status, Row, Stepped

(* A fresh plan for a status makes a sound shipment of a sound one.        *)
LEMMA StatusCommitted ==
  ASSUME NEW s \in Shipment, Sound(s, clock), clock \in Nat,
         NEW entry \in HistoryEntry, entry.old_status = s.row.status,
         1 <= entry.at, entry.at <= clock,
         \A i \in DOMAIN s.history : s.history[i].at <= entry.at,
         NEW t, t.row = Stepped(apply_status(s.row, entry.new_status, entry.at)),
         t.history = Append(s.history, entry),
         ProblemsMatch(entry.new_status, t.history, t.problems),
         \A p \in DOMAIN t.problems : /\ t.problems[p].reported_at <= clock
                                      /\ t.problems[p].previous_status # "PROBLEM"
  PROVE  Sound(t, clock)
<1>1. s.history \in Seq(HistoryEntry) /\ s.row \in Row
  BY DEF Shipment
<1>2. /\ t.row.status = entry.new_status
      /\ t.row.sorted_at = IF entry.new_status = "SORTING" /\ s.row.sorted_at = Never
                           THEN entry.at ELSE s.row.sorted_at
      /\ t.row.dispatched_at = IF entry.new_status = "DISPATCHED" /\ s.row.dispatched_at = Never
                               THEN entry.at ELSE s.row.dispatched_at
  BY <1>1, StatusRow
<1>3. /\ Chain(s.history, s.row.status)
      /\ Stamp(s.history, "SORTING", s.row.sorted_at)
      /\ Stamp(s.history, "DISPATCHED", s.row.dispatched_at)
      /\ \A i \in DOMAIN s.history : 1 <= s.history[i].at /\ s.history[i].at <= clock
  BY DEF Sound, Dated
<1>4. Chain(t.history, entry.new_status)
  BY <1>1, <1>3, ChainExtended
<1>5. Stamp(t.history, "SORTING", t.row.sorted_at)
  BY <1>1, <1>2, <1>3, StampExtended
<1>6. Stamp(t.history, "DISPATCHED", t.row.dispatched_at)
  BY <1>1, <1>2, <1>3, StampExtended
<1>7. \A i \in DOMAIN t.history : 1 <= t.history[i].at /\ t.history[i].at <= clock
  BY <1>1, <1>3, Appended
<1> QED
  BY <1>2, <1>4, <1>5, <1>6, <1>7 DEF Sound, Dated

LEMMA WriterTypes ==
  ASSUME Inv, NEW w \in Workers
  PROVE  /\ tx[w].row \in Row /\ tx[w].entry \in HistoryEntry /\ tx[w].problem \in Nat
         /\ tx[w] \in Tx /\ request[w] \in Request /\ clock \in Nat
  BY DEF Inv, TypeOK, Tx

(* What reports and recoveries do to the problems.                         *)
LEMMA ReportedTypes ==
  ASSUME Inv, NEW w \in Workers
  PROVE  /\ Reported(w) \in Problem
         /\ Reported(w).resolved_at = Never
         /\ Reported(w).reported_at = tx[w].entry.at
         /\ Reported(w).previous_status = tx[w].entry.old_status
  BY WriterTypes DEF Reported, Problem, HistoryEntry, Never

LEMMA CommittedSound ==
  ASSUME Inv, Histories, NEW w \in Workers, VersionAsked(w), Drafted(w), commit(w),
         NEW t, t = ledger'[request[w].number]
  PROVE  Sound(t, clock)
<1> DEFINE op == request[w].op
           entry == tx[w].entry
           s == Stored(w)
<1>1. pc[w] = "write" /\ Planned(w)
  BY DEF commit, Histories
<1>2. CASE op = "create_shipment"
  <2>1. t = [Received(request[w].client) EXCEPT !.audits = 1]
    BY <1>2, Published
  <2>2. t.row = FirstRow /\ t.history = <<>> /\ t.problems = <<>>
    BY <2>1 DEF Received
  <2>3. DOMAIN <<>> = {} /\ Len(<<>>) = 0
    OBVIOUS
  <2>4. Chain(t.history, t.row.status)
    BY <2>2, <2>3 DEF Chain, Before, FirstRow
  <2>5. /\ Stamp(t.history, "SORTING", t.row.sorted_at)
        /\ Stamp(t.history, "DISPATCHED", t.row.dispatched_at)
    BY <2>2, <2>3 DEF Stamp, FirstRow
  <2>6. ProblemsMatch(t.row.status, t.history, t.problems)
    BY <2>2, <2>3 DEF ProblemsMatch, FirstRow, OpenProblems
  <2>7. Dated(t.history, t.problems, clock)
    BY <2>2, <2>3 DEF Dated
  <2> QED
    BY <2>4, <2>5, <2>6, <2>7 DEF Sound
<1>3. CASE op # "create_shipment"
  <2>1. /\ request[w].number \in DOMAIN ledger /\ s \in Shipment /\ Sound(s, clock)
        /\ op \in VersionedOperations
             => Fresh(w) /\ t.row = Stepped(tx[w].row)
        /\ op \notin VersionedOperations => op = "record_control_weight" /\ t.row = s.row
    BY <1>3, Committed DEF Histories, Stored
  <2>2. s.row \in Row /\ s.history \in Seq(HistoryEntry) /\ s.problems \in Seq(Problem)
    BY <2>1 DEF Shipment
  <2>3. tx[w].row \in Row /\ entry \in HistoryEntry /\ clock \in Nat
    BY WriterTypes
  <2>4. CASE op \notin StatusOperations
    <3>1. t.history = s.history /\ t.problems = s.problems
      BY <1>3, <2>4, Committed DEF StatusOperations
    <3>2. /\ t.row.status = s.row.status
          /\ t.row.sorted_at = s.row.sorted_at /\ t.row.dispatched_at = s.row.dispatched_at
      <4>1. CASE op \in VersionedOperations
        <5>1. FreshPlan(w) /\ t.row = Stepped(tx[w].row)
          BY <1>1, <2>1, <4>1 DEF Planned
        <5>2. op \in {"update_shipment", "archive_shipment", "restore_shipment"}
          BY <2>4, <4>1 DEF VersionedOperations
        <5>3. /\ tx[w].row.status = s.row.status
              /\ tx[w].row.sorted_at = s.row.sorted_at
              /\ tx[w].row.dispatched_at = s.row.dispatched_at
          BY <2>2, <5>1, <5>2 DEF FreshPlan, Row, Filed
        <5> QED
          BY <2>3, <5>1, <5>3, SteppedRow
      <4>2. CASE op \notin VersionedOperations
        BY <2>1, <4>2
      <4> QED
        BY <4>1, <4>2
    <3> QED
      BY <2>1, <3>1, <3>2 DEF Sound
  <2>5. CASE op \in StatusOperations
    <3>1. /\ op \in VersionedOperations /\ Fresh(w)
          /\ t.row = Stepped(tx[w].row)
          /\ t.history = Append(s.history, entry)
      BY <1>3, <2>1, <2>5, Committed DEF VersionedOperations
    <3>2. StatusPlan(w) /\ FreshPlan(w)
      BY <1>1, <2>5, <3>1 DEF Planned
    <3>3. /\ entry.old_status = s.row.status
          /\ tx[w].row = apply_status(s.row, entry.new_status, entry.at)
          /\ \A i \in DOMAIN s.history : s.history[i].at <= entry.at
          /\ op = "resolve_problem" => tx[w].problem \in OpenProblems(s.problems)
      BY <2>5, <3>2 DEF FreshPlan, StatusOperations
    <3>4. 1 <= entry.at /\ entry.at <= clock
      BY <3>2 DEF StatusPlan
    <3>5. /\ ProblemsMatch(s.row.status, s.history, s.problems)
          /\ \A p \in DOMAIN s.problems : /\ s.problems[p].reported_at <= clock
                                          /\ s.problems[p].previous_status # "PROBLEM"
      BY <2>1 DEF Sound, Dated
    <3>6. /\ ProblemsMatch(entry.new_status, t.history, t.problems)
          /\ \A p \in DOMAIN t.problems : /\ t.problems[p].reported_at <= clock
                                          /\ t.problems[p].previous_status # "PROBLEM"
      <4>1. CASE op = "change_status"
        <5>1. t.problems = s.problems
          BY <1>3, <4>1, Committed
        <5>2. entry.old_status # "PROBLEM" /\ entry.new_status # "PROBLEM"
          BY <3>2, <4>1 DEF StatusPlan, LawfulEntry
        <5> QED
          BY <3>3, <3>5, <5>1, <5>2 DEF ProblemsMatch
      <4>2. CASE op = "report_problem"
        <5>1. t.problems = Append(s.problems, Reported(w))
          BY <1>3, <4>2, Committed
        <5>2. entry.new_status = "PROBLEM" /\ entry.old_status # "PROBLEM"
          BY <3>2, <4>2 DEF StatusPlan, LawfulEntry
        <5>3. OpenProblems(s.problems) = {}
          BY <3>3, <3>5, <5>2 DEF ProblemsMatch
        <5> DEFINE m == Len(s.problems) + 1
        <5>4. OpenProblems(t.problems) = {m}
          BY <2>2, <5>1, <5>3, ProblemReported, ReportedTypes
        <5>5. /\ t.problems[m] = Reported(w)
              /\ DOMAIN t.problems = 1 .. m
              /\ DOMAIN s.problems = 1 .. m - 1
              /\ \A p \in 1 .. m - 1 : t.problems[p] = s.problems[p]
              /\ m \in Nat
          BY <2>2, <5>1, Appended, ReportedTypes
        <5>6. t.history[Len(t.history)] = entry
          BY <2>2, <2>3, <3>1, Appended
        <5> HIDE DEF m
        <5>7. \A p \in DOMAIN t.problems : p \in DOMAIN s.problems \/ p = m
          BY <5>5
        <5>8. /\ t.problems[m].reported_at <= clock
              /\ t.problems[m].previous_status = entry.old_status
          BY <3>4, <5>5, ReportedTypes
        <5>9. \A p \in DOMAIN t.problems : /\ t.problems[p].reported_at <= clock
                                           /\ t.problems[p].previous_status # "PROBLEM"
          BY <3>5, <5>2, <5>5, <5>7, <5>8
        <5> QED
          BY <5>2, <5>4, <5>6, <5>8, <5>9 DEF ProblemsMatch
      <4>3. CASE op = "resolve_problem"
        <5> DEFINE p == tx[w].problem
        <5>1. t.problems = Resolution(s.problems, p, entry.at)
          BY <1>3, <4>3, Committed
        <5>2. /\ entry.old_status = "PROBLEM" /\ p \in DOMAIN s.problems
              /\ entry.new_status # "PROBLEM"
          BY <3>2, <4>3 DEF StatusPlan, LawfulEntry
        <5>3. OpenProblems(s.problems) = {p}
          BY <3>3, <3>5, <4>3, <5>2 DEF ProblemsMatch
        <5>4. /\ OpenProblems(t.problems) = OpenProblems(s.problems) \ {p}
              /\ DOMAIN t.problems = DOMAIN s.problems
              /\ \A q \in DOMAIN s.problems :
                   /\ t.problems[q].reported_at = s.problems[q].reported_at
                   /\ t.problems[q].previous_status = s.problems[q].previous_status
          <6>1. entry.at \in Nat /\ entry.at # Never
            BY <2>3, <3>4 DEF HistoryEntry, Never
          <6> HIDE DEF entry, p, s
          <6> QED
            BY <2>2, <5>1, <5>2, <6>1, ProblemResolved
        <5> QED
          BY <3>5, <5>2, <5>3, <5>4 DEF ProblemsMatch
      <4> QED
        BY <2>5, <4>1, <4>2, <4>3 DEF StatusOperations
    <3> QED
      BY <2>1, <2>3, <3>1, <3>3, <3>4, <3>6, StatusCommitted
  <2> QED
    BY <2>4, <2>5
<1> QED
  BY <1>2, <1>3

(* ------------------------------ the plans ------------------------------ *)

(* What other calls may do to a shipment behind a plan: the version steps, *)
(* or row, history and problems stay; reported problems are never lost.    *)
Kept(s, t) ==
  /\ DOMAIN s.problems \subseteq DOMAIN t.problems
  /\ \A p \in DOMAIN s.problems : /\ t.problems[p].reported_at = s.problems[p].reported_at
                                  /\ t.problems[p].previous_status = s.problems[p].previous_status
  /\ \/ t.row = s.row /\ t.history = s.history /\ t.problems = s.problems
     \/ t.row.version = s.row.version + 1

LEMMA PlanKept ==
  ASSUME Inv, NEW w \in Workers, Planned(w), VersionAsked(w), Inv',
         pc'[w] = pc[w], request'[w].op = request[w].op, request'[w].text = request[w].text,
         tx'[w].row = tx[w].row, tx'[w].entry = tx[w].entry, tx'[w].problem = tx[w].problem,
         clock' \in {clock, clock + 1},
         pc[w] \in {"problem", "write"} /\ request[w].op \in VersionedOperations
           => Kept(Stored(w), Stored(w)')
  PROVE  Planned(w)'
<1> DEFINE op == request[w].op
<1>1. tx[w].row \in Row /\ tx[w].entry \in HistoryEntry /\ clock \in Nat
  BY WriterTypes
<1>2. CASE pc[w] \notin {"problem", "write"}
  BY <1>2 DEF Planned
<1>3. CASE op \notin VersionedOperations
  <2>1. pc[w] # "problem" /\ op \notin StatusOperations
    BY <1>3 DEF Inv, Calls, CallOK, VersionedOperations, StatusOperations
  <2> QED
    BY <1>3, <2>1 DEF Planned
<1>4. CASE pc[w] \in {"problem", "write"} /\ op \in VersionedOperations
  <2> DEFINE s == Stored(w)
             t == Stored(w)'
  <2>1. Kept(s, t)
    BY <1>4
  <2>2. /\ tx[w].row.version <= s.row.version
        /\ s.row.version \in Nat /\ tx[w].row.version \in Nat
    <3>1. request[w].number \in DOMAIN ledger
      BY <1>4 DEF Inv, Calls, CallOK, VersionedOperations, StatusOperations
    <3> QED
      BY <1>1, <1>4, <3>1, StoredShipment DEF VersionAsked, Inv, Stored, Row
  <2>3. Fresh(w)' => /\ Fresh(w)
                     /\ t.row = s.row /\ t.history = s.history /\ t.problems = s.problems
    BY <2>1, <2>2 DEF Fresh, Kept
  <2> HIDE DEF s, t
  <2>4. ASSUME pc[w] = "problem" PROVE ReadPlan(w)'
    <3>1. ReadPlan(w)
      BY <2>4 DEF Planned
    <3> QED
      BY <2>3, <3>1 DEF ReadPlan, s, t
  <2>5. ASSUME pc[w] = "write", op \in StatusOperations PROVE StatusPlan(w)'
    <3>1. StatusPlan(w)
      BY <2>5 DEF Planned
    <3>2. tx'[w].entry.at <= clock'
      BY <1>1, <3>1 DEF StatusPlan, HistoryEntry
    <3>3. LawfulEntry(w)'
      <4>1. LawfulEntry(w)
        BY <3>1 DEF StatusPlan
      <4> QED
        BY <2>1, <4>1 DEF LawfulEntry, Kept, s, t
    <3> QED
      BY <3>1, <3>2, <3>3 DEF StatusPlan
  <2>6. ASSUME pc[w] = "write", Fresh(w)' PROVE FreshPlan(w)'
    <3>1. FreshPlan(w)
      BY <1>4, <2>3, <2>6 DEF Planned
    <3> QED
      BY <2>3, <2>6, <3>1 DEF FreshPlan, s, t
  <2> QED
    BY <2>4, <2>5, <2>6 DEF Planned
<1> QED
  BY <1>2, <1>3, <1>4

LEMMA CommitKeeps ==
  ASSUME Inv, NEW v \in Workers, VersionAsked(v), Drafted(v), Planned(v), commit(v),
         NEW n \in DOMAIN ledger
  PROVE  Kept(ledger[n], ledger'[n])
<1> DEFINE s == ledger[n]
           t == ledger'[n]
<1>1. CASE n # request[v].number
  <2>1. t = s
    BY <1>1, Published
  <2> QED
    BY <2>1 DEF Kept
<1>2. CASE n = request[v].number
  <2>1. request[v].op # "create_shipment" /\ s = Stored(v) /\ s \in Shipment
    BY <1>2, Published, StoredShipment DEF Stored, Inv
  <2>2. /\ request[v].op \in VersionedOperations
             => Fresh(v) /\ t.row = Stepped(tx[v].row)
        /\ request[v].op \notin VersionedOperations
             => request[v].op = "record_control_weight" /\ t.row = s.row
        /\ request[v].op \notin StatusOperations => t.history = s.history
        /\ request[v].op \notin {"report_problem", "resolve_problem"}
             => t.problems = s.problems
        /\ request[v].op = "report_problem" => t.problems = Append(s.problems, Reported(v))
        /\ request[v].op = "resolve_problem"
             => t.problems = Resolution(s.problems, tx[v].problem, tx[v].entry.at)
    BY <1>2, <2>1, Committed
  <2>3. tx[v].row \in Row /\ tx[v].entry \in HistoryEntry /\ s.problems \in Seq(Problem)
    BY <2>1, WriterTypes DEF Shipment
  <2>4. request[v].op \in VersionedOperations => t.row.version = s.row.version + 1
    BY <2>1, <2>2, <2>3, SteppedRow DEF Fresh
  <2>5. request[v].op \notin VersionedOperations
          => t.row = s.row /\ t.history = s.history /\ t.problems = s.problems
    BY <2>2 DEF StatusOperations
  <2>6. /\ DOMAIN s.problems \subseteq DOMAIN t.problems
        /\ \A p \in DOMAIN s.problems :
             /\ t.problems[p].reported_at = s.problems[p].reported_at
             /\ t.problems[p].previous_status = s.problems[p].previous_status
    <3>1. CASE request[v].op = "report_problem"
      <4>1. t.problems = Append(s.problems, Reported(v))
        BY <2>2, <3>1
      <4> HIDE DEF s, t
      <4> QED
        BY <2>3, <4>1, Appended, ReportedTypes
    <3>2. CASE request[v].op = "resolve_problem"
      <4>1. pc[v] = "write" /\ StatusPlan(v)
        BY <3>2 DEF commit, Planned, StatusOperations
      <4>2. tx[v].problem \in DOMAIN s.problems /\ 1 <= tx[v].entry.at
        BY <2>1, <3>2, <4>1 DEF StatusPlan, LawfulEntry
      <4>3. tx[v].entry.at \in Nat /\ tx[v].entry.at # Never
        BY <2>3, <4>2 DEF HistoryEntry, Never
      <4>4. t.problems = Resolution(s.problems, tx[v].problem, tx[v].entry.at)
        BY <2>2, <3>2
      <4> HIDE DEF s, t
      <4> QED
        BY <2>3, <4>2, <4>3, <4>4, ProblemResolved
    <3>3. CASE request[v].op \notin {"report_problem", "resolve_problem"}
      BY <2>2, <3>3
    <3> QED
      BY <3>1, <3>2, <3>3
  <2> QED
    BY <2>4, <2>5, <2>6 DEF Kept
<1> QED
  BY <1>1, <1>2

(* The writes of a call leave its plan and the stored shipment alone.      *)
LEMMA WriteKeepsPlan ==
  ASSUME Inv, Inv', NEW w \in Workers, VersionAsked(w), Planned(w), Wrote(w), clock' = clock
  PROVE  Planned(w)'
<1>1. request \in [Workers -> Request] /\ tx \in [Workers -> Tx]
  BY DEF Inv, TypeOK
<1>2. /\ pc' = pc /\ ledger' = ledger /\ pc[w] = "write"
      /\ tx'[w].row = tx[w].row /\ tx'[w].entry = tx[w].entry /\ tx'[w].problem = tx[w].problem
  BY <1>1 DEF Wrote, Written, Tx
<1>3. request'[w].op = request[w].op /\ request'[w].text = request[w].text
  BY <1>1 DEF Wrote, Request
<1>4. request[w].op \in VersionedOperations => Stored(w)' = Stored(w)
  <2>1. SUFFICES ASSUME request[w].op \in VersionedOperations PROVE request' = request
    BY <1>2 DEF Stored
  <2>2. Head(tx[w].todo) # "number"
    BY <1>2, <2>1, WriterState, PlanFacts
    DEF Wrote, VersionedOperations, StatusOperations
  <2> QED
    BY <2>2 DEF Wrote
<1>5. request[w].op \in VersionedOperations => Kept(Stored(w), Stored(w)')
  BY <1>4 DEF Kept
<1> QED
  BY <1>2, <1>3, <1>5, PlanKept

(* A plan made of the row that is committed at that moment.                *)
LEMMA PlanMade ==
  ASSUME Inv, Histories, NEW w \in Workers, pc[w] = "read",
         request[w].op # "create_shipment"
  PROVE  /\ Stored(w) \in Shipment /\ StoredRow(w) = Stored(w).row /\ StoredRow(w) \in Row
         /\ Sound(Stored(w), clock) /\ clock \in Nat /\ clock >= 1
<1>1. request[w].number \in DOMAIN ledger
  BY DEF Inv, Calls, CallOK
<1> QED
  BY <1>1, StoredShipment, WriterTypes DEF Inv, Stored, StoredRow, Histories

LEMMA EntryMade ==
  ASSUME NEW old, NEW new, NEW override, NEW entry, entry = StatusEntry(old, new, override)
  PROVE  /\ entry.old_status = old /\ entry.new_status = new
         /\ entry.override = override /\ entry.at = clock
  BY DEF StatusEntry

(* No ordinary move leads to the status it starts from, none leaves        *)
(* PROBLEM, and a recovery allowed from elsewhere does not lead there.     *)
LEMMA Moves ==
  ASSUME NEW old \in Statuses, NEW new \in Statuses
  PROVE  /\ can_transition(old, new) => old # new /\ old # "PROBLEM"
         /\ can_recover(old, new) /\ old # "PROBLEM" => new # "PROBLEM"
<1>1. can_transition(old, new) => old # new /\ old # "PROBLEM"
  BY DEF can_transition, NORMAL_TRANSITIONS, Statuses
<1> QED
  BY <1>1 DEF can_recover

LEMMA PlannedByUpdate ==
  ASSUME Inv, Histories, NEW w \in Workers, update_shipment(w) \/ set_archived(w), ~Return(w)
  PROVE  Planned(w)'
<1>1. /\ pc[w] = "read"
      /\ request[w].op \in {"update_shipment", "archive_shipment", "restore_shipment"}
      /\ request[w].op # "create_shipment"
  BY DEF update_shipment, set_archived, Reading
<1>2. StoredRow(w) = Stored(w).row /\ StoredRow(w) \in Row
  BY <1>1, PlanMade
<1>3. \E row :
        /\ Prepare(w, row, NoEntry, 0, <<"shipment", "audit">>)
        /\ request[w].op = "update_shipment" => ~StoredRow(w).archived /\ row = StoredRow(w)
        /\ request[w].op = "archive_shipment"
             => ~StoredRow(w).archived /\ row = Filed(StoredRow(w), TRUE)
        /\ request[w].op = "restore_shipment"
             => StoredRow(w).archived /\ row = Filed(StoredRow(w), FALSE)
  <2>1. CASE update_shipment(w)
    BY <2>1 DEF update_shipment, Reading, require_operational
  <2>2. CASE set_archived(w)
    <3>1. /\ Prepare(w, Filed(StoredRow(w), request[w].op = "archive_shipment"),
                     NoEntry, 0, <<"shipment", "audit">>)
          /\ StoredRow(w).archived # (request[w].op = "archive_shipment")
          /\ request[w].op \in {"archive_shipment", "restore_shipment"}
      BY <2>2 DEF set_archived, Filed
    <3>2. StoredRow(w).archived \in BOOLEAN
      BY <1>2 DEF Row
    <3>3. CASE request[w].op = "archive_shipment"
      <4>1. (request[w].op = "archive_shipment") = TRUE
        BY <3>3
      <4>2. Prepare(w, Filed(StoredRow(w), TRUE), NoEntry, 0, <<"shipment", "audit">>)
        BY <3>1, <4>1
      <4> QED
        BY <3>1, <3>2, <3>3, <4>2
    <3>4. CASE request[w].op = "restore_shipment"
      <4>1. (request[w].op = "archive_shipment") = FALSE
        BY <3>4
      <4>2. Prepare(w, Filed(StoredRow(w), FALSE), NoEntry, 0, <<"shipment", "audit">>)
        BY <3>1, <4>1
      <4> QED
        BY <3>1, <3>2, <3>4, <4>2
    <3> QED
      BY <3>1, <3>3, <3>4
  <2> QED
    BY <2>1, <2>2
<1>4. PICK row :
        /\ Prepare(w, row, NoEntry, 0, <<"shipment", "audit">>)
        /\ request[w].op = "update_shipment" => ~StoredRow(w).archived /\ row = StoredRow(w)
        /\ request[w].op = "archive_shipment"
             => ~StoredRow(w).archived /\ row = Filed(StoredRow(w), TRUE)
        /\ request[w].op = "restore_shipment"
             => StoredRow(w).archived /\ row = Filed(StoredRow(w), FALSE)
  BY <1>3
<1>5. /\ pc'[w] = "write" /\ request' = request /\ Stored(w)' = Stored(w)
      /\ tx'[w].row = row
  BY <1>4, PreparedCall DEF Stored
<1>6. FreshPlan(w)'
  BY <1>1, <1>2, <1>4, <1>5 DEF FreshPlan, StatusOperations
<1> QED
  BY <1>1, <1>5, <1>6 DEF Planned, StatusOperations

LEMMA PlannedByChange ==
  ASSUME Inv, Histories, NEW w \in Workers, change_status(w), ~Return(w)
  PROVE  Planned(w)'
<1> DEFINE old == StoredRow(w).status
           new == request[w].target
           override == ~can_transition(old, new) /\ request[w].override
           row == apply_status(StoredRow(w), new, clock)
           entry == StatusEntry(old, new, override)
<1>1. /\ pc[w] = "read" /\ request[w].op = "change_status"
      /\ ~StoredRow(w).archived
      /\ old # new /\ new # "PROBLEM" /\ old # "PROBLEM"
      /\ request[w].text # "long"
      /\ override => request[w].text # "none"
      /\ can_transition(old, new) \/ request[w].override
      /\ Prepare(w, row, entry, 0, <<"shipment", "history", "audit">>)
  BY DEF change_status, Reading, require_operational
<1>2. /\ StoredRow(w) = Stored(w).row /\ clock \in Nat /\ clock >= 1
      /\ \A i \in DOMAIN Stored(w).history : Stored(w).history[i].at <= clock
  BY <1>1, PlanMade DEF Sound, Dated
<1>3. /\ pc'[w] = "write" /\ request' = request /\ Stored(w)' = Stored(w) /\ clock' = clock
      /\ tx'[w].row = row /\ tx'[w].entry = entry
  <2>1. clock' = clock
    BY <1>1 DEF Prepare
  <2> HIDE DEF row, entry
  <2> QED
    BY <1>1, <2>1, PreparedCall DEF Stored
<1>4. /\ entry.old_status = old /\ entry.new_status = new
      /\ entry.override = override /\ entry.at = clock
  BY EntryMade
<1>5. override <=> ~can_transition(old, new)
  BY <1>1
<1> HIDE DEF row, entry, override
<1>6. StatusPlan(w)'
  BY <1>1, <1>2, <1>3, <1>4, <1>5 DEF StatusPlan, LawfulEntry
<1>7. FreshPlan(w)'
  BY <1>1, <1>2, <1>3, <1>4 DEF FreshPlan, row
<1> QED
  BY <1>3, <1>6, <1>7 DEF Planned

LEMMA PlannedByRead ==
  ASSUME Inv, Histories, NEW w \in Workers, ReadForProblem(w), ~Return(w)
  PROVE  Planned(w)'
<1>1. /\ pc[w] = "read" /\ request[w].op # "create_shipment"
      /\ ~StoredRow(w).archived
      /\ request[w].op = "resolve_problem"
           => StoredRow(w).status = "PROBLEM" /\ request[w].text # "long"
      /\ pc' = [pc EXCEPT ![w] = "problem"]
      /\ tx' = [tx EXCEPT ![w].row = StoredRow(w)]
      /\ ledger' = ledger /\ request' = request
  BY DEF ReadForProblem, require_operational
<1>2. StoredRow(w) = Stored(w).row
  BY <1>1, PlanMade
<1>3. pc'[w] = "problem" /\ tx'[w].row = Stored(w).row /\ Stored(w)' = Stored(w)
  BY <1>1, <1>2 DEF Inv, TypeOK, Tx, Stored
<1> QED
  BY <1>1, <1>2, <1>3 DEF Planned, ReadPlan

(* The second half of a problem call: the row was read before.             *)
LEMMA PlannedByProblem ==
  ASSUME Inv, Histories, NEW w \in Workers, pc[w] = "problem",
         request[w].op \in {"report_problem", "resolve_problem"},
         NEW new \in Statuses, NEW p \in Nat, NEW todo, NEW entry, NEW row,
         entry = StatusEntry(tx[w].row.status, new, FALSE),
         row = apply_status(tx[w].row, new, clock),
         Prepare(w, row, entry, p, todo),
         tx[w].row.status # new,
         request[w].op = "report_problem" =>
           new = "PROBLEM" /\ can_transition(tx[w].row.status, "PROBLEM"),
         request[w].op = "resolve_problem" =>
           /\ p \in OpenProblems(Stored(w).problems)
           /\ can_recover(Stored(w).problems[p].previous_status, new)
  PROVE  Planned(w)'
<1>1. /\ ReadPlan(w) /\ clock >= 1 /\ clock \in Nat /\ tx[w].row \in Row
  BY WriterTypes DEF Histories, Planned
<1>2. Stored(w) \in Shipment /\ Sound(Stored(w), clock)
  BY StoredShipment DEF Inv, Calls, CallOK, Histories, Stored
<1>3. /\ \A i \in DOMAIN Stored(w).history : Stored(w).history[i].at <= clock
      /\ \A q \in DOMAIN Stored(w).problems : Stored(w).problems[q].reported_at <= clock
  BY <1>2 DEF Sound, Dated
<1>4. /\ pc'[w] = "write" /\ request' = request /\ Stored(w)' = Stored(w) /\ clock' = clock
      /\ tx'[w].row = row /\ tx'[w].entry = entry /\ tx'[w].problem = p
  <2>1. clock' = clock
    BY DEF Prepare
  <2>2. /\ pc'[w] = "write" /\ request' = request /\ ledger' = ledger
        /\ tx'[w].row = row /\ tx'[w].entry = entry /\ tx'[w].problem = p
    BY DEF Prepare, Inv, TypeOK, Blank
  <2> QED
    BY <2>1, <2>2 DEF Stored
<1>5. /\ entry.old_status = tx[w].row.status /\ entry.new_status = new
      /\ ~entry.override /\ entry.at = clock
  BY DEF StatusEntry
<1>6. row.version = tx[w].row.version
  BY <1>1 DEF apply_status, Row
<1>7. p \in OpenProblems(Stored(w).problems) => p \in DOMAIN Stored(w).problems
  BY DEF OpenProblems
<1>8. StatusPlan(w)'
  <2>1. LawfulEntry(w)'
    <3>1. CASE request[w].op = "report_problem"
      BY <1>4, <1>5, <3>1 DEF LawfulEntry
    <3>2. CASE request[w].op = "resolve_problem"
      <4>1. tx[w].row.status = "PROBLEM" /\ p \in DOMAIN Stored(w).problems
        BY <1>1, <1>7, <3>2 DEF ReadPlan
      <4>2. Stored(w).problems[p].reported_at <= clock
        BY <1>3, <4>1
      <4> QED
        BY <1>4, <1>5, <3>2, <4>1, <4>2 DEF LawfulEntry
    <3> QED
      BY <3>1, <3>2
  <2>2. request[w].op # "report_problem" => request[w].text # "long"
    BY <1>1 DEF ReadPlan
  <2>3. 1 <= clock /\ clock <= clock
    BY <1>1
  <2>4. entry.old_status # entry.new_status
    BY <1>5
  <2> QED
    BY <1>4, <1>5, <2>1, <2>2, <2>3, <2>4 DEF StatusPlan
<1>9. ASSUME Fresh(w)' PROVE FreshPlan(w)'
  <2>1. Fresh(w)
    BY <1>4, <1>6, <1>9 DEF Fresh
  <2>2. tx[w].row = Stored(w).row /\ ~Stored(w).row.archived
    BY <1>1, <2>1 DEF ReadPlan
  <2> QED
    BY <1>3, <1>4, <1>5, <2>2 DEF FreshPlan
<1> QED
  BY <1>4, <1>8, <1>9 DEF Planned

LEMMA ServicePlans ==
  ASSUME Inv, Histories, NEW w \in Workers, Service(w), ~Return(w)
  PROVE  Planned(w)'
<1>1. CASE create_shipment(w) \/ record_control_weight(w)
  <2>1. /\ request[w].op \in {"create_shipment", "record_control_weight"}
        /\ pc'[w] = "write" /\ request' = request
    BY <1>1, PreparedCall DEF create_shipment, record_control_weight, Reading
  <2> QED
    BY <2>1 DEF Planned, VersionedOperations, StatusOperations
<1>2. CASE report_problem(w)
  <2>1. /\ pc[w] = "problem" /\ request[w].op = "report_problem"
        /\ can_transition(tx[w].row.status, "PROBLEM")
        /\ Prepare(w, apply_status(tx[w].row, "PROBLEM", clock),
                   StatusEntry(tx[w].row.status, "PROBLEM", FALSE),
                   0, <<"shipment", "problem", "history", "audit">>)
    BY <1>2 DEF report_problem
  <2>2. tx[w].row.status \in Statuses /\ "PROBLEM" \in Statuses
    BY WriterTypes DEF Row, Statuses
  <2>3. tx[w].row.status # "PROBLEM"
    BY <2>1, <2>2, Moves
  <2> QED
    BY <2>1, <2>2, <2>3, PlannedByProblem
<1>3. CASE resolve_problem(w)
  <2> DEFINE problems == Stored(w).problems
             Target(p) == IF request[w].target = ServiceDefault
                          THEN problems[p].previous_status ELSE request[w].target
  <2>1. pc[w] = "problem" /\ request[w].op = "resolve_problem"
    BY <1>3 DEF resolve_problem
  <2>2. PICK p \in OpenProblems(problems) :
          /\ can_recover(problems[p].previous_status, Target(p))
          /\ Prepare(w, apply_status(tx[w].row, Target(p), clock),
                     StatusEntry("PROBLEM", Target(p), FALSE),
                     p, <<"resolution", "shipment", "history", "audit">>)
    BY <1>3 DEF resolve_problem, Stored
  <2>3. tx[w].row.status = "PROBLEM"
    BY <2>1 DEF Histories, Planned, ReadPlan
  <2>4. Stored(w) \in Shipment /\ Sound(Stored(w), clock)
    BY <2>1, StoredShipment DEF Inv, Calls, CallOK, Histories, Stored
  <2>5. p \in DOMAIN problems /\ p \in Nat /\ problems[p] \in Problem
    <3>1. problems \in Seq(Problem) /\ p \in DOMAIN problems
      BY <2>4 DEF Shipment, OpenProblems
    <3> QED
      BY <3>1, LenProperties, ElementOfSeq
  <2>6. problems[p].previous_status # "PROBLEM" /\ problems[p].previous_status \in Statuses
    BY <2>4, <2>5 DEF Sound, Dated, Problem
  <2>7. Target(p) \in Statuses
    BY <2>6, WriterTypes DEF Request
  <2>8. Target(p) # "PROBLEM"
    BY <2>2, <2>6, <2>7, Moves
  <2> HIDE DEF problems, Target
  <2> QED
    BY <2>1, <2>2, <2>3, <2>5, <2>7, <2>8, PlannedByProblem DEF problems
<1> QED
  BY <1>1, <1>2, <1>3, PlannedByUpdate, PlannedByChange, PlannedByRead DEF Service

(* ---------------------------- the invariant ---------------------------- *)

LEMMA SoundLater ==
  ASSUME NEW s \in Shipment, NEW now \in Nat, NEW later \in {now, now + 1}, Sound(s, now)
  PROVE  Sound(s, later)
<1>1. /\ \A i \in DOMAIN s.history : s.history[i].at \in Nat
      /\ \A p \in DOMAIN s.problems : s.problems[p].reported_at \in Nat
  <2>1. s.history \in Seq(HistoryEntry) /\ s.problems \in Seq(Problem)
    BY DEF Shipment
  <2>2. /\ \A i \in DOMAIN s.history : s.history[i] \in HistoryEntry
        /\ \A p \in DOMAIN s.problems : s.problems[p] \in Problem
    BY <2>1, ElementOfSeq, LenProperties
  <2> QED
    BY <2>2 DEF HistoryEntry, Problem
<1>2. Dated(s.history, s.problems, later)
  BY <1>1 DEF Sound, Dated
<1> QED
  BY <1>2 DEF Sound

LEMMA LedgerSound ==
  ASSUME Inv, Transactions, Histories, [Next]_vars
  PROVE  clock' >= 1 /\ \A n \in DOMAIN ledger' : Sound(ledger'[n], clock')
<1>1. clock \in Nat /\ clock >= 1
  BY WriterTypes DEF Inv, TypeOK, Histories
<1>2. CASE ledger' = ledger /\ clock' \in {clock, clock + 1}
  <2>1. ASSUME NEW n \in DOMAIN ledger PROVE Sound(ledger[n], clock')
    BY <1>1, <1>2, SoundLater, StoredShipment DEF Inv, Histories
  <2> QED
    BY <1>1, <1>2, <2>1
<1>3. ASSUME NEW w \in Workers, commit(w)
      PROVE  clock' >= 1 /\ \A n \in DOMAIN ledger' : Sound(ledger'[n], clock')
  <2>1. VersionAsked(w) /\ Drafted(w)
    BY DEF Transactions
  <2>2. clock' = clock /\ DOMAIN ledger' = DOMAIN ledger \cup {request[w].number}
    BY <1>3, CommitFacts DEF commit
  <2>3. Sound(ledger'[request[w].number], clock)
    BY <1>3, <2>1, CommittedSound
  <2>4. ASSUME NEW n \in DOMAIN ledger, n # request[w].number
        PROVE  Sound(ledger'[n], clock)
    <3>1. ledger'[n] = ledger[n]
      BY <1>3, <2>1, <2>4, Published
    <3> QED
      BY <3>1 DEF Histories
  <2> QED
    BY <1>1, <2>2, <2>3, <2>4
<1> QED
  BY <1>2, <1>3, Shapes
  DEF Asked, Return, SecondRead, Prepared, Prepare, Wrote, Written, Crash, Elsewhere

LEMMA OwnPlan ==
  ASSUME Inv, Inv', Transactions, Histories, NEW w \in Workers,
         \/ Asked(w) \/ Return(w) \/ Service(w) \/ Write(w) \/ commit(w)
  PROVE  Planned(w)'
<1>1. pc \in [Workers -> {"idle", "read", "problem", "write"}]
  BY DEF Inv, TypeOK
<1>2. CASE Asked(w) \/ Return(w) \/ commit(w)
  <2>1. pc'[w] \in {"idle", "read"}
    BY <1>1, <1>2 DEF Asked, Return, commit
  <2> QED
    BY <2>1 DEF Planned
<1>3. CASE Service(w) /\ ~Return(w)
  BY <1>3, ServicePlans
<1>4. CASE Write(w) /\ ~Return(w)
  <2>1. Wrote(w) /\ clock' = clock
    BY <1>4, WriteShape DEF Wrote, Written
  <2>2. VersionAsked(w) /\ Planned(w)
    BY DEF Transactions, Histories
  <2> QED
    BY <2>1, <2>2, WriteKeepsPlan
<1> QED
  BY <1>2, <1>3, <1>4

LEMMA OthersPlan ==
  ASSUME Inv, Inv', Transactions, Histories, NEW w \in Workers, NEW v \in Workers, v # w,
         \/ Asked(w) \/ Return(w) \/ SecondRead(w) \/ Prepared(w) \/ Wrote(w) \/ commit(w)
  PROVE  Planned(v)'
<1>1. /\ pc \in [Workers -> {"idle", "read", "problem", "write"}]
      /\ request \in [Workers -> Request] /\ tx \in [Workers -> Tx]
      /\ VersionAsked(v) /\ Planned(v) /\ VersionAsked(w) /\ Drafted(w) /\ Planned(w)
      /\ pc[v] # "idle" => CallOK(v)
  BY DEF Inv, TypeOK, Calls, Transactions, Histories
<1>2. pc'[v] = pc[v] /\ request'[v] = request[v] /\ tx'[v] = tx[v] /\ clock' = clock
  BY <1>1 DEF Asked, Return, SecondRead, Prepared, Prepare, Wrote, Written, commit
<1>3. pc[v] \in {"problem", "write"} /\ request[v].op \in VersionedOperations
        => Kept(Stored(v), Stored(v)')
  <2>1. CASE ledger' = ledger
    <3>1. Stored(v)' = Stored(v)
      BY <1>2, <2>1 DEF Stored
    <3> QED
      BY <3>1 DEF Kept
  <2>2. CASE commit(w)
    <3>1. SUFFICES ASSUME pc[v] \in {"problem", "write"}, request[v].op \in VersionedOperations
                   PROVE  Kept(Stored(v), Stored(v)')
      OBVIOUS
    <3>2. request[v].number \in DOMAIN ledger
      BY <1>1, <3>1 DEF CallOK, VersionedOperations, StatusOperations
    <3> QED
      BY <1>1, <1>2, <2>2, <3>2, CommitKeeps DEF Stored
  <2> QED
    BY <2>1, <2>2 DEF Asked, Return, SecondRead, Prepared, Prepare, Wrote, Written
<1> QED
  BY <1>1, <1>2, <1>3, PlanKept

LEMMA HistoriesStep ==
  ASSUME Inv, Inv', Transactions, Histories, [Next]_vars
  PROVE  Histories'
<1>1. clock' >= 1 /\ \A n \in DOMAIN ledger' : Sound(ledger'[n], clock')
  BY LedgerSound
<1>2. ASSUME NEW w \in Workers, Submit(w) \/ Run(w) \/ Deny(w) \/ Fail(w)
      PROVE  Histories'
  <2>1. Asked(w) \/ Return(w) \/ Service(w) \/ Write(w) \/ commit(w)
    BY <1>2, AskedShape DEF Run, Busy, Deny, Fail
  <2>2. Asked(w) \/ Return(w) \/ SecondRead(w) \/ Prepared(w) \/ Wrote(w) \/ commit(w)
    BY <2>1, ServiceShape, WriteShape
  <2> QED
    BY <1>1, <2>1, <2>2, OwnPlan, OthersPlan DEF Histories
<1>3. CASE Crash
  BY <1>1, <1>3 DEF Crash, Planned, Histories
<1>4. CASE /\ UNCHANGED <<ledger, pc, request, tx>>
           /\ clock' \in {clock, clock + 1}
  <2>1. ASSUME NEW v \in Workers PROVE Planned(v)'
    <3>1. Stored(v)' = Stored(v)
      BY <1>4 DEF Stored
    <3>2. Kept(Stored(v), Stored(v)')
      BY <3>1 DEF Kept
    <3>3. VersionAsked(v) /\ Planned(v)
      BY DEF Transactions, Histories
    <3> QED
      BY <1>4, <3>2, <3>3, PlanKept
  <2> QED
    BY <1>1, <2>1 DEF Histories
<1> QED
  BY <1>2, <1>3, <1>4 DEF Next, Tick, set_active, vars

LEMMA HistoriesInitially == Init => Histories
  BY DEF Init, Histories, Planned

(* Every committed shipment is sound, and every plan a call holds would    *)
(* keep it sound unless the version has stepped in between.                *)
THEOREM HistoryInvariant == Spec => [](Inv /\ Transactions /\ Histories)
<1>1. Inv /\ Transactions /\ Histories /\ [Next]_vars
        => (Inv /\ Transactions /\ Histories)'
  <2>1. Inv /\ Transactions /\ [Next]_vars => Inv' /\ Transactions'
    BY TypeStep, NumbersStep, CallsStep, TransactionsStep DEF Inv
  <2> QED
    BY <2>1, HistoriesStep
<1> QED
  BY Initially, SafetyInitially, HistoriesInitially, <1>1, PTL DEF Spec

(* Two calls that read the same status never both append to the history    *)
(* of a shipment: its entries form one chain from RECEIVED to the present  *)
(* status, in the order of their times.                                    *)
THEOREM HistoryNeverForks == Spec => []HistoryIsChain
<1>1. Histories => HistoryIsChain
  <2>1. ASSUME Histories, NEW n \in DOMAIN ledger
        PROVE  Chain(ledger[n].history, ledger[n].row.status)
    BY <2>1 DEF Histories, Sound
  <2> QED
    BY <2>1 DEF HistoryIsChain, Chain, Before
<1> QED
  BY <1>1, HistoryInvariant, PTL

(* The status of a shipment and its problems, two tables written by        *)
(* several statements, agree in every committed state: at PROBLEM exactly  *)
(* one problem is open, and it captured the status the shipment came from. *)
THEOREM ProblemsAgree == Spec => []ProblemMatchesStatus
<1>1. Histories => ProblemMatchesStatus
  <2>1. ASSUME Histories, NEW n \in DOMAIN ledger
        PROVE  ProblemsMatch(ledger[n].row.status, ledger[n].history, ledger[n].problems)
    BY <2>1 DEF Histories, Sound
  <2> QED
    BY <2>1 DEF ProblemMatchesStatus, ProblemsMatch
<1> QED
  BY <1>1, HistoryInvariant, PTL

(* sorted_at and dispatched_at are those of the first entry into the       *)
(* status, however often the shipment returns, is restored or recovered.   *)
THEOREM StampsAgree == Spec => []StampsMatchHistory
<1>1. Histories => StampsMatchHistory
  <2>1. ASSUME Histories, NEW n \in DOMAIN ledger
        PROVE  /\ Stamp(ledger[n].history, "SORTING", ledger[n].row.sorted_at)
               /\ Stamp(ledger[n].history, "DISPATCHED", ledger[n].row.dispatched_at)
    BY <2>1 DEF Histories, Sound
  <2> QED
    BY <2>1 DEF StampsMatchHistory, Stamp
<1> QED
  BY <1>1, HistoryInvariant, PTL

(* ------------------------- no write is refused ------------------------- *)

(* What the environment passes stays as it was passed.                     *)
Passed(w) ==
  pc[w] # "idle" =>
    /\ request[w].op \in Operations
    /\ request[w].op = "report_problem" => request[w].text \in Texts

Arguments == \A w \in Workers : Passed(w)

LEMMA PassedVersioned ==
  ASSUME Inv, NEW w \in Workers, NEW r \in Request, AskVersioned(w, r),
         r.op = "report_problem" => r.text \in Texts
  PROVE  Passed(w)'
<1>1. PICK n \in DOMAIN ledger : \E v \in 1 .. ledger[n].row.version :
        Ask(w, [r EXCEPT !.number = n, !.expected = v])
  BY DEF AskVersioned
<1>2. PICK v \in 1 .. ledger[n].row.version : Ask(w, [r EXCEPT !.number = n, !.expected = v])
  BY <1>1
<1> DEFINE q == [r EXCEPT !.number = n, !.expected = v]
<1>3. q.op = r.op /\ q.text = r.text
  BY DEF Request
<1> HIDE DEF q
<1>4. Ask(w, q)
  BY <1>2 DEF q
<1>5. request'[w] = q /\ q.op \in Operations
  BY <1>4 DEF Ask, Inv, TypeOK
<1> QED
  BY <1>3, <1>5 DEF Passed

LEMMA PassedAtFirst ==
  ASSUME Inv, NEW w \in Workers, Submit(w)
  PROVE  Passed(w)'
<1>1. NoRequest \in Request /\ NoRequest.op = "none" /\ NoRequest.text = "none"
  BY DEF NoRequest, Request
<1>2. request \in [Workers -> Request]
  BY DEF Inv, TypeOK
<1>3. CASE SubmitCreate(w)
  <2>1. PICK c \in Clients \cup {NoClient} :
          Ask(w, [NoRequest EXCEPT !.op = "create_shipment", !.client = c])
    BY <1>3 DEF SubmitCreate
  <2> QED
    BY <1>2, <2>1 DEF Ask, Passed, NoRequest
<1>4. CASE SubmitCheck(w)
  <2>1. PICK n \in DOMAIN ledger :
          Ask(w, [NoRequest EXCEPT !.op = "record_control_weight", !.number = n])
    BY <1>4 DEF SubmitCheck
  <2> QED
    BY <1>2, <2>1 DEF Ask, Passed, NoRequest
<1>5. CASE SubmitPlain(w)
  <2>1. PICK op \in {"update_shipment", "archive_shipment", "restore_shipment"} :
          AskVersioned(w, [NoRequest EXCEPT !.op = op])
    BY <1>5 DEF SubmitPlain
  <2> QED
    BY <2>1, PassedVersioned DEF NoRequest, Request, OperationNames
<1>6. CASE SubmitStatus(w)
  <2>1. PICK t \in Targets, o \in BOOLEAN, x \in Texts :
          AskVersioned(w, [NoRequest EXCEPT !.op = "change_status", !.target = t,
                                            !.override = o, !.text = x])
    BY <1>6 DEF SubmitStatus
  <2> QED
    BY <2>1, PassedVersioned, TargetsAssumption, TextsAssumption
    DEF NoRequest, Request, OperationNames
<1>7. CASE SubmitReport(w)
  <2>1. PICK x \in Texts :
          AskVersioned(w, [NoRequest EXCEPT !.op = "report_problem", !.text = x])
    BY <1>7 DEF SubmitReport
  <2> QED
    BY <2>1, PassedVersioned, TextsAssumption DEF NoRequest, Request, OperationNames
<1>8. CASE SubmitResolve(w)
  <2>1. PICK t \in Targets \cup {ServiceDefault}, x \in Texts :
          AskVersioned(w, [NoRequest EXCEPT !.op = "resolve_problem", !.target = t, !.text = x])
    BY <1>8 DEF SubmitResolve
  <2> QED
    BY <2>1, PassedVersioned, TargetsAssumption, TextsAssumption
    DEF NoRequest, Request, OperationNames
<1> QED
  BY <1>3, <1>4, <1>5, <1>6, <1>7, <1>8 DEF Submit

LEMMA PassedStep ==
  ASSUME Inv, NEW v \in Workers, Passed(v), [Next]_vars
  PROVE  Passed(v)'
<1>1. /\ pc \in [Workers -> {"idle", "read", "problem", "write"}]
      /\ request \in [Workers -> Request]
      /\ \A w \in Workers : pc[w] # "idle" => CallOK(w)
  BY DEF Inv, TypeOK, Calls
<1>2. ASSUME NEW w \in Workers, Submit(w) \/ Run(w) \/ Deny(w) \/ Fail(w)
      PROVE  Passed(v)'
  <2>1. Submit(w) \/ Return(w) \/ SecondRead(w) \/ Prepared(w) \/ Wrote(w) \/ commit(w)
    BY <1>2, ServiceShape, WriteShape DEF Run, Busy, Deny, Fail
  <2>2. CASE w = v /\ Submit(w)
    BY <2>2, PassedAtFirst
  <2>3. CASE w = v /\ (Return(w) \/ commit(w))
    BY <1>1, <2>3 DEF Return, commit, Passed
  <2>4. CASE w = v /\ (SecondRead(w) \/ Prepared(w) \/ Wrote(w))
    <3>1. /\ pc[v] # "idle"
          /\ request'[v].op = request[v].op /\ request'[v].text = request[v].text
      BY <1>1, <2>4 DEF SecondRead, Prepared, Prepare, Wrote, Request
    <3> QED
      BY <3>1 DEF Passed
  <2>5. CASE w # v
    <3>1. Asked(w) \/ Return(w) \/ SecondRead(w) \/ Prepared(w) \/ Wrote(w) \/ commit(w)
      BY <2>1, AskedShape
    <3>2. pc'[v] = pc[v] /\ request'[v] = request[v]
      BY <1>1, <2>5, <3>1
      DEF Asked, Return, SecondRead, Prepared, Prepare, Wrote, Written, commit
    <3> QED
      BY <3>2 DEF Passed
  <2> QED
    BY <2>1, <2>2, <2>3, <2>4, <2>5
<1>3. CASE Crash \/ UNCHANGED <<pc, request>>
  BY <1>3 DEF Crash, Passed
<1> QED
  BY <1>2, <1>3 DEF Next, Tick, set_active, vars

(* The database refuses a write of none but a report whose description is  *)
(* longer than the reason of a history entry may be.                       *)
LongReport(w) == request[w].op = "report_problem" /\ request[w].text = "long"

LEMMA RefusedOnly ==
  ASSUME Inv, Transactions, Histories, NEW w \in Workers
  PROVE  /\ Writing(w, "insert") => UniqueNumber(w)
         /\ Writing(w, "problem") /\ Draft(w).row.version = tx[w].row.version + 1 => NoneOpen(w)
         /\ Writing(w, "resolution") => ResolutionConsistent(w)
         /\ Writing(w, "history") => HistoryChecks(w) \/ LongReport(w)
<1>1. VersionAsked(w) /\ Drafted(w) /\ Planned(w) /\ (pc[w] # "idle" => CallOK(w)) /\ WritesOK(w)
  BY DEF Transactions, Histories, Inv, Calls
<1>2. ASSUME Writing(w, "insert") PROVE UniqueNumber(w)
  <2>1. pc[w] = "write" /\ request[w].op = "create_shipment" /\ lock = w
    BY <1>2, StatementDue DEF Writing, Writer
  <2>2. request[w].number = next_value
    BY <1>1, <2>1 DEF CallOK
  <2>3. next_value \in Nat /\ DOMAIN ledger = 1 .. next_value - 1
    BY DEF Inv, TypeOK, NumbersInOrder
  <2>4. next_value \notin DOMAIN ledger
    BY <2>3
  <2> QED
    BY <2>2, <2>4 DEF UniqueNumber
<1>3. ASSUME Writing(w, "problem"), Draft(w).row.version = tx[w].row.version + 1
      PROVE  NoneOpen(w)
  <2>1. /\ pc[w] = "write" /\ request[w].op = "report_problem" /\ "problem" \in Due(w)
        /\ Head(tx[w].todo) = "problem"
    BY <1>3, StatementDue DEF Writing, Writer
  <2>2. request[w].number \in DOMAIN ledger /\ Stored(w) \in Shipment /\ Sound(Stored(w), clock)
    BY <1>1, <2>1, StoredShipment DEF CallOK, Histories, Inv, Stored
  <2>3. lock = w
    <3>1. Head(Plan("report_problem")) = "shipment"
      BY Tails DEF Plan
    <3> QED
      BY <1>1, <2>1, <3>1 DEF WritesOK
  <2>4. Draft(w) = DraftOf(w)
    BY <1>1, <2>1, <2>3 DEF Drafted, Draft
  <2>5. Draft(w).problems = Stored(w).problems
    BY <2>1, <2>4 DEF DraftOf, DraftProblems
  <2>6. "shipment" \notin Due(w)
    <3>1. tx[w].todo \in Rest("report_problem")
      BY <1>1, <2>1, <2>3 DEF WritesOK
    <3>2. tx[w].todo \in {<<"problem", "history", "audit">>, <<"history", "audit">>, <<"audit">>, <<>>}
      BY <3>1 DEF Rest
    <3>3. Due(w) \subseteq {"problem", "history", "audit"}
      BY <3>2, PlanElements DEF Due
    <3> QED
      BY <3>3
  <2>7. Fresh(w)
    BY <1>1, <2>1, <2>3, <2>6 DEF Drafted, Fresh, VersionedOperations, StatusOperations
  <2>8. StatusPlan(w) /\ FreshPlan(w)
    BY <1>1, <2>1, <2>7 DEF Planned, VersionedOperations, StatusOperations
  <2>9. tx[w].entry.old_status = Stored(w).row.status
    BY <2>1, <2>8 DEF FreshPlan, StatusOperations
  <2>10. tx[w].entry.old_status \in Statuses /\ can_transition(tx[w].entry.old_status, "PROBLEM")
    BY <2>1, <2>8, WriterTypes DEF StatusPlan, LawfulEntry, HistoryEntry
  <2>11. Stored(w).row.status # "PROBLEM"
    BY <2>9, <2>10, Moves DEF Statuses
  <2>12. OpenProblems(Stored(w).problems) = {}
    BY <2>2, <2>11 DEF Sound, ProblemsMatch
  <2> QED
    BY <2>5, <2>12 DEF NoneOpen
<1>4. ASSUME Writing(w, "resolution") PROVE ResolutionConsistent(w)
  <2>1. /\ pc[w] = "write" /\ request[w].op = "resolve_problem" /\ "resolution" \in Due(w)
    BY <1>4, StatementDue DEF Writing, Writer
  <2>2. request[w].number \in DOMAIN ledger /\ Stored(w) \in Shipment
    BY <1>1, <2>1, StoredShipment DEF CallOK, Inv, Stored
  <2>3. StatusPlan(w)
    BY <1>1, <2>1 DEF Planned, StatusOperations
  <2>4. /\ tx[w].problem \in DOMAIN Stored(w).problems
        /\ Stored(w).problems[tx[w].problem].reported_at <= tx[w].entry.at
    BY <2>1, <2>3 DEF StatusPlan, LawfulEntry
  <2>5. Draft(w).problems = Stored(w).problems
    BY <1>1, <2>1 DEF Draft, Drafted, DraftOf, DraftProblems, Stored
  <2>6. Stored(w).problems[tx[w].problem].reported_at \in Nat
    <3>1. Stored(w).problems \in Seq(Problem)
      BY <2>2 DEF Shipment
    <3>2. Stored(w).problems[tx[w].problem] \in Problem
      BY <2>4, <3>1, LenProperties, ElementOfSeq
    <3> QED
      BY <3>2 DEF Problem
  <2>7. tx[w].entry.at \in Nat
    BY WriterTypes DEF HistoryEntry
  <2> QED
    BY <2>4, <2>5, <2>6, <2>7 DEF ResolutionConsistent
<1>5. ASSUME Writing(w, "history"), ~LongReport(w) PROVE HistoryChecks(w)
  <2>1. pc[w] = "write" /\ request[w].op \in StatusOperations
    BY <1>5, StatementDue DEF Writing, Writer
  <2>2. StatusPlan(w)
    BY <1>1, <2>1 DEF Planned
  <2>3. /\ tx[w].entry.old_status # tx[w].entry.new_status
        /\ request[w].text # "long"
    BY <1>5, <2>2 DEF StatusPlan, LongReport
  <2>4. tx[w].entry.override => request[w].text # "none"
    BY <2>1, <2>2 DEF StatusPlan, LawfulEntry, StatusOperations
  <2> QED
    BY <2>3, <2>4 DEF HistoryChecks
<1> QED
  BY <1>2, <1>3, <1>4, <1>5

(* Whatever commits between a call's checks and its writes, the database   *)
(* refuses no row of it but the history entry of a report with a long      *)
(* description, which the service validates against another limit.         *)
THEOREM OnlyLongReportsRefused ==
  Spec => [](\A w \in Workers :
               /\ Writing(w, "insert") => UniqueNumber(w)
               /\ Writing(w, "problem") /\ Draft(w).row.version = tx[w].row.version + 1
                    => NoneOpen(w)
               /\ Writing(w, "resolution") => ResolutionConsistent(w)
               /\ Writing(w, "history") => HistoryChecks(w) \/ LongReport(w))
<1>1. Inv /\ Transactions /\ Histories =>
        \A w \in Workers :
          /\ Writing(w, "insert") => UniqueNumber(w)
          /\ Writing(w, "problem") /\ Draft(w).row.version = tx[w].row.version + 1
               => NoneOpen(w)
          /\ Writing(w, "resolution") => ResolutionConsistent(w)
          /\ Writing(w, "history") => HistoryChecks(w) \/ LongReport(w)
  BY RefusedOnly
<1> QED
  BY <1>1, HistoryInvariant, PTL

(* So where no report carries such a description, what the service's       *)
(* validation admits the database accepts.                                 *)
THEOREM ValidatedIsAccepted ==
  ASSUME "report_problem" \in Operations => "long" \notin Texts
  PROVE  Spec => []NoRefusedWrite
<1>1. Init => Arguments
  BY DEF Init, Passed, Arguments
<1>2. Inv /\ Arguments /\ [Next]_vars => Arguments'
  BY PassedStep DEF Arguments
<1>3. Inv /\ Transactions /\ Histories /\ Arguments => NoRefusedWrite
  <2>1. ASSUME Inv, Transactions, Histories, NEW w \in Workers, Passed(w)
        PROVE  ~(Writing(w, "history") /\ LongReport(w))
    BY <2>1 DEF Passed, LongReport, Writing
  <2> QED
    BY <2>1, RefusedOnly DEF NoRefusedWrite, Arguments
<1> QED
  BY <1>1, <1>2, <1>3, HistoryInvariant, PTL DEF Spec

(* -------------------------- archived shipments ------------------------- *)

(* What changes an archived shipment is a restore, which changes nothing   *)
(* else, or a weighing that read it before it was archived.                *)
LEMMA ArchivedChange ==
  ASSUME Inv, Transactions, Histories, NEW w \in Workers, commit(w),
         NEW n \in DOMAIN ledger, ledger[n].row.archived, ledger'[n] # ledger[n]
  PROVE  /\ request[w].number = n
         /\ request[w].op \in {"restore_shipment", "record_control_weight"}
         /\ request[w].op = "restore_shipment" =>
              /\ ~ledger'[n].row.archived
              /\ ledger'[n].row.status = ledger[n].row.status
         /\ ledger'[n].history = ledger[n].history
         /\ ledger'[n].problems = ledger[n].problems
         /\ request[w].op = "restore_shipment" => ledger'[n].checks = ledger[n].checks
         /\ request[w].op = "record_control_weight" => ledger'[n].row = ledger[n].row
<1> DEFINE op == request[w].op
           s == Stored(w)
           t == ledger'[n]
<1>1. VersionAsked(w) /\ Drafted(w) /\ Planned(w) /\ pc[w] = "write"
  BY DEF Transactions, Histories, commit
<1>2. n = request[w].number /\ op # "create_shipment" /\ s = ledger[n]
  BY <1>1, Published DEF Stored
<1>3. s \in Shipment /\ s.row \in Row /\ tx[w].row \in Row
  BY <1>2, StoredShipment, WriterTypes DEF Inv
<1>4. /\ op \in VersionedOperations => Fresh(w) /\ t.row = Stepped(tx[w].row)
      /\ op \notin VersionedOperations => op = "record_control_weight" /\ t.row = s.row
      /\ op \notin StatusOperations => t.history = s.history
      /\ op \notin {"report_problem", "resolve_problem"} => t.problems = s.problems
      /\ op # "record_control_weight" => t.checks = s.checks
  BY <1>1, <1>2, Committed
<1>5. CASE op \in VersionedOperations
  <2>1. FreshPlan(w)
    BY <1>1, <1>4, <1>5 DEF Planned
  <2>2. op = "restore_shipment" /\ tx[w].row = Filed(s.row, FALSE)
    BY <1>2, <2>1 DEF FreshPlan
  <2>3. tx[w].row.status = s.row.status /\ ~tx[w].row.archived
    BY <1>3, <2>2 DEF Filed, Row
  <2>4. t.row.status = s.row.status /\ ~t.row.archived
    BY <1>3, <1>4, <1>5, <2>3, SteppedRow
  <2>5. op \notin StatusOperations
    BY <2>2 DEF StatusOperations
  <2> QED
    BY <1>2, <1>4, <2>2, <2>4, <2>5
<1>6. CASE op \notin VersionedOperations
  <2>1. op = "record_control_weight" /\ op \notin StatusOperations
    BY <1>4, <1>6 DEF VersionedOperations
  <2>2. op # "restore_shipment" /\ op \notin {"report_problem", "resolve_problem"}
    BY <2>1
  <2>3. t.row = s.row /\ t.history = s.history /\ t.problems = s.problems
    BY <1>4, <1>6, <2>1, <2>2
  <2> QED
    BY <1>2, <2>1, <2>2, <2>3
<1> QED
  BY <1>5, <1>6

LEMMA OnlyCommitsPublish ==
  ASSUME Inv, [Next]_vars, ledger' # ledger
  PROVE  \E w \in Workers : commit(w)
  BY Shapes DEF Asked, Return, SecondRead, Prepared, Prepare, Wrote, Written, Crash, Elsewhere

(* However the archiving of a shipment interleaves with the calls that had *)
(* read it before, nothing but its restore and a weighing changes it.      *)
THEOREM ArchivedChangesOnly ==
  Spec => [][\A n \in DOMAIN ledger :
               ledger[n].row.archived /\ ledger'[n] # ledger[n]
                 => \E w \in Workers :
                      /\ commit(w)
                      /\ request[w].number = n
                      /\ request[w].op \in {"restore_shipment", "record_control_weight"}]_vars
<1> DEFINE Only ==
             \A n \in DOMAIN ledger :
               ledger[n].row.archived /\ ledger'[n] # ledger[n]
                 => \E w \in Workers :
                      /\ commit(w)
                      /\ request[w].number = n
                      /\ request[w].op \in {"restore_shipment", "record_control_weight"}
<1>1. Inv /\ Transactions /\ Histories /\ [Next]_vars => [Only]_vars
  BY OnlyCommitsPublish, ArchivedChange
<1> HIDE DEF Only
<1>2. Spec => [][Only]_vars
  BY <1>1, HistoryInvariant, PTL DEF Spec
<1> QED
  BY <1>2 DEF Only

(* So where no weighing is under way, an archived shipment is frozen in    *)
(* all its tables until it is restored.                                    *)
THEOREM ArchivedIsFrozen ==
  ASSUME "record_control_weight" \notin Operations
  PROVE  Spec => ArchivedFrozen
<1> DEFINE Frozen ==
             \A n \in DOMAIN ledger :
               ledger[n].row.archived /\ ledger'[n] # ledger[n]
                 => /\ ~ledger'[n].row.archived
                    /\ ledger'[n].row.status = ledger[n].row.status
                    /\ ledger'[n].history = ledger[n].history
                    /\ ledger'[n].problems = ledger[n].problems
                    /\ ledger'[n].checks = ledger[n].checks
<1>1. Init => Arguments
  BY DEF Init, Passed, Arguments
<1>2. Inv /\ Arguments /\ [Next]_vars => Arguments'
  BY PassedStep DEF Arguments
<1>3. Inv /\ Transactions /\ Histories /\ Arguments /\ [Next]_vars => [Frozen]_vars
  <2> SUFFICES ASSUME Inv, Transactions, Histories, Arguments, [Next]_vars,
                      NEW n \in DOMAIN ledger, ledger[n].row.archived, ledger'[n] # ledger[n]
               PROVE  /\ ~ledger'[n].row.archived
                      /\ ledger'[n].row.status = ledger[n].row.status
                      /\ ledger'[n].history = ledger[n].history
                      /\ ledger'[n].problems = ledger[n].problems
                      /\ ledger'[n].checks = ledger[n].checks
    OBVIOUS
  <2>1. PICK w \in Workers : commit(w)
    BY OnlyCommitsPublish
  <2>2. request[w].op \in Operations
    BY <2>1 DEF commit, Arguments, Passed
  <2>3. request[w].op = "restore_shipment"
    BY <2>1, <2>2, ArchivedChange
  <2> QED
    BY <2>1, <2>3, ArchivedChange
<1> HIDE DEF Frozen
<1>4. Spec => [][Frozen]_vars
  BY <1>1, <1>2, <1>3, HistoryInvariant, PTL DEF Spec
<1> QED
  BY <1>4 DEF ArchivedFrozen, Frozen

(* ----------------------------- refinement ------------------------------ *)

TrailEntry == [to: Statuses, override: BOOLEAN]

LEMMA FunctionIsSequence ==
  ASSUME NEW S, NEW n \in Nat, NEW f \in [1 .. n -> S]
  PROVE  f \in Seq(S) /\ Len(f) = n
  OBVIOUS

(* One entry more in the history is one step more on the trail.            *)
LEMMA TrailExtended ==
  ASSUME NEW history \in Seq(HistoryEntry)
  PROVE  /\ Trail(history) \in Seq(TrailEntry)
         /\ Len(Trail(history)) = Len(history) + 1
         /\ Trail(history)[Len(Trail(history))].to = Before(history, Len(history) + 1)
         /\ \A entry \in HistoryEntry :
              Trail(Append(history, entry)) = Append(Trail(history), EntryView(entry))
<1> DEFINE n == Len(history)
<1>1. n \in Nat /\ DOMAIN history = 1 .. n /\ \A i \in 1 .. n : history[i] \in HistoryEntry
  BY LenProperties, ElementOfSeq
<1>2. \A entry \in HistoryEntry : EntryView(entry) \in TrailEntry
  BY DEF EntryView, TrailEntry, HistoryEntry
<1>3. Trail(history) \in Seq(TrailEntry) /\ Len(Trail(history)) = n + 1
  <2>1. \A i \in 1 .. n + 1 : i = 1 \/ i - 1 \in 1 .. n
    BY <1>1
  <2>2. [to |-> "RECEIVED", override |-> FALSE] \in TrailEntry
    BY DEF TrailEntry, Statuses
  <2>3. Trail(history) \in [1 .. n + 1 -> TrailEntry]
    BY <1>1, <1>2, <2>1, <2>2 DEF Trail
  <2>4. n + 1 \in Nat
    BY <1>1
  <2> HIDE DEF n
  <2> QED
    BY <2>3, <2>4, FunctionIsSequence
<1>4. Trail(history)[n + 1].to = Before(history, n + 1)
  <2>1. n = 0 \/ n \in 1 .. n
    BY <1>1
  <2>2. Trail(history)[n + 1] = IF n + 1 = 1 THEN [to |-> "RECEIVED", override |-> FALSE]
                                ELSE EntryView(history[n])
    BY <1>1 DEF Trail
  <2> QED
    BY <1>1, <2>1, <2>2 DEF Before, EntryView
<1>5. ASSUME NEW entry \in HistoryEntry
      PROVE  Trail(Append(history, entry)) = Append(Trail(history), EntryView(entry))
  <2> DEFINE h == Append(history, entry)
             t == Trail(h)
             u == Append(Trail(history), EntryView(entry))
  <2>1. /\ h \in Seq(HistoryEntry) /\ Len(h) = n + 1
        /\ \A i \in 1 .. n : h[i] = history[i]
        /\ h[n + 1] = entry
    BY <1>1, Appended
  <2>2. t \in [1 .. n + 2 -> TrailEntry]
    <3>1. \A i \in 1 .. n + 2 : i = 1 \/ i - 1 \in 1 .. n + 1
      BY <1>1
    <3>2. [to |-> "RECEIVED", override |-> FALSE] \in TrailEntry
      BY DEF TrailEntry, Statuses
    <3>3. \A i \in 1 .. n + 1 : h[i] \in HistoryEntry
      BY <2>1, ElementOfSeq
    <3> HIDE DEF h
    <3>4. t = [i \in 1 .. n + 2 |-> IF i = 1 THEN [to |-> "RECEIVED", override |-> FALSE]
                                    ELSE EntryView(h[i-1])]
      BY <1>1, <2>1 DEF Trail
    <3> HIDE DEF t
    <3> QED
      BY <1>2, <3>1, <3>2, <3>3, <3>4
  <2>3. t \in Seq(TrailEntry) /\ Len(t) = n + 2
    <3>1. n + 2 \in Nat
      BY <1>1
    <3> HIDE DEF t, n
    <3> QED
      BY <2>2, <3>1, FunctionIsSequence
  <2>4. /\ u \in Seq(TrailEntry) /\ Len(u) = n + 2
        /\ \A i \in 1 .. n + 1 : u[i] = Trail(history)[i]
        /\ u[n + 2] = EntryView(entry)
    BY <1>1, <1>2, <1>3, AppendProperties
  <2>5. ASSUME NEW i \in 1 .. n + 2 PROVE t[i] = u[i]
    <3>1. t[i] = IF i = 1 THEN [to |-> "RECEIVED", override |-> FALSE] ELSE EntryView(h[i-1])
      BY <1>1, <2>1 DEF Trail
    <3>2. CASE i = n + 2
      BY <1>1, <2>1, <2>4, <3>1, <3>2
    <3>3. CASE i \in 1 .. n + 1
      <4>1. Trail(history)[i] = IF i = 1 THEN [to |-> "RECEIVED", override |-> FALSE]
                                ELSE EntryView(history[i-1])
        BY <1>1, <3>3 DEF Trail
      <4>2. i = 1 \/ i - 1 \in 1 .. n
        BY <1>1, <3>3
      <4> QED
        BY <2>1, <2>4, <3>1, <3>3, <4>1, <4>2
    <3>4. i = n + 2 \/ i \in 1 .. n + 1
      BY <1>1
    <3> QED
      BY <3>2, <3>3, <3>4
  <2> HIDE DEF t, u
  <2>6. t = u
    BY <2>3, <2>4, <2>5, SeqEqual
  <2> QED
    BY <2>6 DEF t, u, h
<1> QED
  BY <1>3, <1>4, <1>5

(* The ledger and the services share one status policy.                    *)
LEMMA SamePolicy ==
  /\ Ledger!Statuses = Statuses
  /\ \A old, new : /\ Ledger!can_transition(old, new) <=> can_transition(old, new)
                   /\ Ledger!can_recover(old, new) <=> can_recover(old, new)
<1>1. Ledger!Statuses = Statuses
  BY DEF Ledger!Statuses, Statuses
<1>2. Ledger!NORMAL_TRANSITIONS = NORMAL_TRANSITIONS
  BY <1>1 DEF Ledger!NORMAL_TRANSITIONS, NORMAL_TRANSITIONS
<1>3. \A old, new : Ledger!can_transition(old, new) <=> can_transition(old, new)
  BY <1>2 DEF Ledger!can_transition, can_transition
<1> QED
  BY <1>1, <1>3 DEF Ledger!can_recover, can_recover

LEMMA OpenCounts ==
  ASSUME NEW problems
  PROVE  /\ OpenProblems(problems) = {} => Open(problems) = Ledger!NothingOpen
         /\ \A p : OpenProblems(problems) = {p}
                     => Open(problems) = Ledger!OneOpen(problems[p].previous_status)
<1>1. Cardinality({}) = 0 /\ \A x : Cardinality({x}) = 1
  BY FS_EmptySet, FS_Singleton
<1>2. ASSUME OpenProblems(problems) = {} PROVE Open(problems) = Ledger!NothingOpen
  <2>1. \A captured \in Statuses :
          {p \in OpenProblems(problems) : problems[p].previous_status = captured} = {}
    BY <1>2
  <2> QED
    BY <1>1, <2>1, SamePolicy DEF Open, Ledger!NothingOpen
<1>3. ASSUME NEW p, OpenProblems(problems) = {p}
      PROVE  Open(problems) = Ledger!OneOpen(problems[p].previous_status)
  <2>1. \A captured \in Statuses :
          {q \in OpenProblems(problems) : problems[q].previous_status = captured}
            = IF problems[p].previous_status = captured THEN {p} ELSE {}
    BY <1>3
  <2>2. \A captured \in Statuses :
          Open(problems)[captured] = IF problems[p].previous_status = captured THEN 1 ELSE 0
    BY <1>1, <2>1 DEF Open
  <2>3. Open(problems) = [captured \in Statuses |->
                            IF problems[p].previous_status = captured THEN 1 ELSE 0]
    BY <2>2 DEF Open
  <2> QED
    BY <2>3, SamePolicy DEF Ledger!OneOpen, Ledger!NothingOpen
<1> QED
  BY <1>2, <1>3

View(trail, archived, version, open, notes) ==
  [trail |-> trail, archived |-> archived, version |-> version, open |-> open, notes |-> notes]

(* What the steps of the ledger make of a page.                            *)
Turned(v) == [v EXCEPT !.version = v.version + 1]
Flagged(v, archive) == [[v EXCEPT !.archived = archive] EXCEPT !.version = v.version + 1]
Extended(v, e, open) ==
  [[v EXCEPT !.trail = Append(@, e), !.open = open] EXCEPT !.version = v.version + 1]
Noted(v) == [v EXCEPT !.notes = @ + 1]

LEMMA ViewChanges ==
  ASSUME NEW trail, NEW archived, NEW version, NEW open, NEW notes,
         NEW v, v = View(trail, archived, version, open, notes)
  PROVE  /\ v.trail = trail /\ v.archived = archived /\ v.version = version
         /\ v.open = open /\ v.notes = notes
         /\ Turned(v) = View(trail, archived, version + 1, open, notes)
         /\ \A flag : Flagged(v, flag) = View(trail, flag, version + 1, open, notes)
         /\ \A e, o : Extended(v, e, o) = View(Append(trail, e), archived, version + 1, o, notes)
         /\ Noted(v) = View(trail, archived, version, open, notes + 1)
<1>1. /\ v.trail = trail /\ v.archived = archived /\ v.version = version
      /\ v.open = open /\ v.notes = notes
  BY DEF View
<1>2. Turned(v) = View(trail, archived, version + 1, open, notes)
  BY DEF View, Turned
<1>3. ASSUME NEW flag
      PROVE  Flagged(v, flag) = View(trail, flag, version + 1, open, notes)
  <2>1. [v EXCEPT !.archived = flag] = View(trail, flag, version, open, notes)
    BY DEF View
  <2>2. [View(trail, flag, version, open, notes) EXCEPT !.version = version + 1]
          = View(trail, flag, version + 1, open, notes)
    BY DEF View
  <2> QED
    BY <1>1, <2>1, <2>2 DEF Flagged
<1>4. ASSUME NEW e, NEW o
      PROVE  Extended(v, e, o) = View(Append(trail, e), archived, version + 1, o, notes)
  <2> DEFINE t == Append(trail, e)
  <2> HIDE DEF t
  <2>1. [v EXCEPT !.trail = t] = View(t, archived, version, open, notes)
    BY DEF View
  <2>2. [View(t, archived, version, open, notes) EXCEPT !.open = o]
          = View(t, archived, version, o, notes)
    BY DEF View
  <2>3. [View(t, archived, version, o, notes) EXCEPT !.version = version + 1]
          = View(t, archived, version + 1, o, notes)
    BY DEF View
  <2>4. [[v EXCEPT !.trail = t] EXCEPT !.open = o] = View(t, archived, version, o, notes)
    BY <2>1, <2>2
  <2> QED
    BY <1>1, <2>3, <2>4 DEF t, Extended
<1>5. Noted(v) = View(trail, archived, version, open, notes + 1)
  BY DEF View, Noted
<1> QED
  BY <1>1, <1>2, <1>3, <1>4, <1>5

LEMMA ViewOfShipment ==
  ASSUME NEW s
  PROVE  ShipmentView(s) = View(Trail(s.history), s.row.archived, s.row.version,
                                Open(s.problems), s.checks)
  BY DEF ShipmentView, View

(* A new shipment is the next page of the book.                            *)
LEMMA ReceivedView ==
  ASSUME NEW s, s.row = FirstRow, s.history = <<>>, s.problems = <<>>, s.checks = 0
  PROVE  ShipmentView(s) = Ledger!FirstEntry
<1>1. <<>> \in Seq(HistoryEntry) /\ Len(<<>>) = 0 /\ DOMAIN <<>> = {}
  BY EmptySeq
<1>2. Trail(<<>>) = <<Ledger!Entered("RECEIVED", FALSE)>>
  <2>1. Trail(<<>>) = [i \in 1 .. 1 |-> [to |-> "RECEIVED", override |-> FALSE]]
    BY <1>1 DEF Trail
  <2> QED
    BY <2>1 DEF Ledger!Entered
<1>3. Open(<<>>) = Ledger!NothingOpen
  <2>1. OpenProblems(<<>>) = {}
    BY <1>1 DEF OpenProblems
  <2> QED
    BY <2>1, OpenCounts
<1>4. FirstRow.archived = FALSE /\ FirstRow.version = 1
  BY DEF FirstRow
<1> QED
  BY <1>2, <1>3, <1>4 DEF ShipmentView, Ledger!FirstEntry

LEMMA ReceiveStep ==
  ASSUME Inv, NEW w \in Workers, VersionAsked(w), Drafted(w), commit(w),
         request[w].op = "create_shipment"
  PROVE  Ledger!Receive
<1> DEFINE n == next_value - 1
           first == Ledger!FirstEntry
           S == {Book[m] : m \in DOMAIN ledger} \cup {first}
<1>1. n \in Nat /\ DOMAIN ledger = 1 .. n /\ request[w].number = n + 1
  <2>1. next_value \in Nat /\ next_value >= 1 /\ DOMAIN ledger = 1 .. next_value - 1
    BY DEF Inv, TypeOK, NumbersInOrder
  <2>2. request[w].number = next_value
    BY CommitFacts
  <2> QED
    BY <2>1, <2>2
<1>2. DOMAIN ledger' = 1 .. n + 1
  <2>1. DOMAIN ledger' = DOMAIN ledger \cup {request[w].number}
    BY CommitFacts
  <2> HIDE DEF n
  <2> QED
    BY <1>1, <2>1
<1>3. \A m \in 1 .. n : ledger'[m] = ledger[m]
  BY <1>1, Published
<1>4. ShipmentView(ledger'[n + 1]) = first
  <2>1. ledger'[n + 1] = [Received(request[w].client) EXCEPT !.audits = 1]
    <3> HIDE DEF n
    <3> QED
      BY <1>1, Published
  <2> DEFINE s == [Received(request[w].client) EXCEPT !.audits = 1]
  <2>2. s.row = FirstRow /\ s.history = <<>> /\ s.problems = <<>> /\ s.checks = 0
    BY DEF Received
  <2> HIDE DEF s
  <2>3. ShipmentView(s) = first
    BY <2>2, ReceivedView
  <2> QED
    BY <2>1, <2>3 DEF s
<1> HIDE DEF n
<1>5. Book = [m \in 1 .. n |-> ShipmentView(ledger[m])]
  BY <1>1 DEF Book
<1>6. Book' = [m \in 1 .. n + 1 |-> ShipmentView(ledger'[m])]
  BY <1>2 DEF Book, ShipmentView, Trail, Open, OpenProblems, EntryView
<1>7. Book \in [1 .. n -> S] /\ first \in S
  BY <1>1, <1>5
<1>8. Book' \in [1 .. n + 1 -> S]
  <2>1. \A m \in 1 .. n + 1 : m \in 1 .. n \/ m = n + 1
    BY <1>1
  <2>2. \A m \in 1 .. n : ShipmentView(ledger'[m]) = Book[m]
    BY <1>3, <1>5
  <2>3. \A m \in 1 .. n + 1 : ShipmentView(ledger'[m]) \in S
    BY <1>1, <1>4, <2>1, <2>2
  <2> HIDE DEF S
  <2> QED
    BY <1>6, <2>3
<1> HIDE DEF S, first
<1>9. Book \in Seq(S) /\ Len(Book) = n /\ Book' \in Seq(S) /\ Len(Book') = n + 1
  <2>1. n + 1 \in Nat
    BY <1>1
  <2> QED
    BY <1>1, <1>7, <1>8, <2>1, FunctionIsSequence
<1>10. /\ Append(Book, first) \in Seq(S)
       /\ Len(Append(Book, first)) = n + 1
       /\ \A m \in 1 .. n : Append(Book, first)[m] = Book[m]
       /\ Append(Book, first)[n + 1] = first
  BY <1>7, <1>9, AppendProperties
<1>11. ASSUME NEW m \in 1 .. n + 1 PROVE Book'[m] = Append(Book, first)[m]
  <2>1. m = n + 1 \/ m \in 1 .. n
    BY <1>1
  <2>2. Book'[m] = ShipmentView(ledger'[m])
    BY <1>6
  <2>3. CASE m = n + 1
    BY <1>4, <1>10, <2>2, <2>3
  <2>4. CASE m \in 1 .. n
    BY <1>3, <1>5, <1>10, <2>2, <2>4
  <2> QED
    BY <2>1, <2>3, <2>4
<1>12. Book' = Append(Book, first)
  BY <1>9, <1>10, <1>11, SeqEqual
<1> QED
  BY <1>12 DEF Ledger!Receive, first

(* Any other commit replaces one page of the book.                         *)
LEMMA PageTurned ==
  ASSUME Inv, NEW w \in Workers, VersionAsked(w), Drafted(w), commit(w),
         request[w].op # "create_shipment",
         NEW n, n = request[w].number
  PROVE  /\ n \in DOMAIN Book /\ Book[n] = ShipmentView(Stored(w))
         /\ Book' = [Book EXCEPT ![n] = ShipmentView(ledger'[n])]
<1>1. n \in DOMAIN ledger /\ DOMAIN ledger' = DOMAIN ledger
  BY CommitFacts
<1>2. \A m \in DOMAIN ledger : m # n => ledger'[m] = ledger[m]
  BY Published
<1>3. Book' = [m \in DOMAIN ledger |-> ShipmentView(ledger'[m])]
  BY <1>1 DEF Book, ShipmentView, Trail, Open, OpenProblems, EntryView
<1>4. Book = [m \in DOMAIN ledger |-> ShipmentView(ledger[m])]
  BY DEF Book
<1>5. Book[n] = ShipmentView(Stored(w))
  BY <1>1, <1>4 DEF Stored
<1> QED
  BY <1>1, <1>2, <1>3, <1>4, <1>5

(* A versioned call that commits found the shipment as its plan needs it.  *)
LEMMA VersionedCommit ==
  ASSUME Inv, Transactions, Histories, NEW w \in Workers, commit(w),
         request[w].op \in VersionedOperations,
         NEW t, t = ledger'[request[w].number]
  PROVE  /\ request[w].op # "create_shipment"
         /\ VersionAsked(w) /\ Drafted(w) /\ Planned(w) /\ FreshPlan(w) /\ pc[w] = "write"
         /\ Stored(w) \in Shipment /\ Sound(Stored(w), clock)
         /\ t.row.version = Stored(w).row.version + 1
         /\ t.row.archived = tx[w].row.archived
         /\ t.checks = Stored(w).checks
<1>1. request[w].op \notin {"create_shipment", "record_control_weight"}
  BY DEF VersionedOperations, StatusOperations
<1>2. VersionAsked(w) /\ Drafted(w) /\ Planned(w) /\ pc[w] = "write"
  BY DEF Transactions, Histories, commit
<1>3. /\ request[w].number \in DOMAIN ledger /\ Stored(w) \in Shipment
      /\ Fresh(w) /\ t.row = Stepped(tx[w].row)
      /\ t.checks = Stored(w).checks
  BY <1>1, <1>2, Committed
<1>4. FreshPlan(w)
  BY <1>2, <1>3 DEF Planned
<1>5. t.row.version = Stored(w).row.version + 1 /\ t.row.archived = tx[w].row.archived
  BY <1>3, WriterTypes, SteppedRow DEF Fresh
<1> QED
  BY <1>1, <1>2, <1>3, <1>4, <1>5 DEF Histories, Stored

LEMMA PlainStep ==
  ASSUME Inv, Transactions, Histories, NEW w \in Workers, commit(w),
         request[w].op \in {"update_shipment", "archive_shipment", "restore_shipment"},
         NEW n, n = request[w].number
  PROVE  Ledger!Edit(n) \/ Ledger!Archive(n) \/ Ledger!Restore(n)
<1> DEFINE s == Stored(w)
           t == ledger'[n]
           trail == Trail(s.history)
           open == Open(s.problems)
           version == s.row.version
<1>1. request[w].op \in VersionedOperations /\ request[w].op \notin StatusOperations
  BY DEF VersionedOperations, StatusOperations
<1>2. /\ VersionAsked(w) /\ Drafted(w) /\ FreshPlan(w) /\ s \in Shipment
      /\ request[w].op # "create_shipment"
      /\ t.row.version = version + 1 /\ t.row.archived = tx[w].row.archived
      /\ t.checks = s.checks
  BY <1>1, VersionedCommit
<1>3. t.history = s.history /\ t.problems = s.problems
  <2>1. request[w].op \notin {"report_problem", "resolve_problem"}
    OBVIOUS
  <2> QED
    BY <1>1, <1>2, <2>1, Committed
<1>4. Book' = [Book EXCEPT ![n] = ShipmentView(t)] /\ Book[n] = ShipmentView(s)
  BY <1>2, PageTurned
<1>5. ShipmentView(s) = View(trail, s.row.archived, version, open, s.checks)
  BY ViewOfShipment
<1>6. ShipmentView(t) = View(trail, tx[w].row.archived, version + 1, open, s.checks)
  <2>1. ShipmentView(t) = View(Trail(t.history), t.row.archived, t.row.version,
                               Open(t.problems), t.checks)
    BY ViewOfShipment
  <2> QED
    BY <1>2, <1>3, <2>1
<1>7. s.row.archived \in BOOLEAN /\ s.row \in Row
  BY <1>2 DEF Shipment, Row
<1>8. /\ Book[n].archived = s.row.archived
      /\ Turned(Book[n]) = View(trail, s.row.archived, version + 1, open, s.checks)
      /\ \A flag : Flagged(Book[n], flag) = View(trail, flag, version + 1, open, s.checks)
  BY <1>4, <1>5, ViewChanges
<1> HIDE DEF t, trail, open, version
<1>9. CASE request[w].op = "update_shipment"
  <2>1. tx[w].row = s.row /\ ~s.row.archived
    BY <1>2, <1>9 DEF FreshPlan
  <2>2. Book' = [Book EXCEPT ![n] = Turned(Book[n])]
    BY <1>4, <1>6, <1>8, <2>1
  <2>3. Ledger!Edit(n)
    BY <1>8, <2>1, <2>2 DEF Ledger!Edit, Ledger!Change, Turned
  <2> QED
    BY <2>3
<1>10. CASE request[w].op = "archive_shipment"
  <2>1. tx[w].row = Filed(s.row, TRUE) /\ ~s.row.archived
    BY <1>2, <1>10 DEF FreshPlan
  <2>2. tx[w].row.archived = TRUE
    BY <1>7, <2>1 DEF Filed, Row
  <2>3. Book' = [Book EXCEPT ![n] = Flagged(Book[n], TRUE)]
    BY <1>4, <1>6, <1>8, <2>2
  <2>4. Ledger!Archive(n)
    BY <1>8, <2>1, <2>3 DEF Ledger!Archive, Ledger!Change, Flagged
  <2> QED
    BY <2>4
<1>11. CASE request[w].op = "restore_shipment"
  <2>1. tx[w].row = Filed(s.row, FALSE) /\ s.row.archived
    BY <1>2, <1>11 DEF FreshPlan
  <2>2. tx[w].row.archived = FALSE
    BY <1>7, <2>1 DEF Filed, Row
  <2>3. Book' = [Book EXCEPT ![n] = Flagged(Book[n], FALSE)]
    BY <1>4, <1>6, <1>8, <2>2
  <2>4. Ledger!Restore(n)
    BY <1>8, <2>1, <2>3 DEF Ledger!Restore, Flagged
  <2> QED
    BY <2>4
<1> QED
  BY <1>9, <1>10, <1>11

LEMMA NoteStep ==
  ASSUME Inv, Transactions, NEW w \in Workers, commit(w),
         request[w].op = "record_control_weight",
         NEW n, n = request[w].number
  PROVE  Ledger!Note(n)
<1> DEFINE s == Stored(w)
           t == ledger'[n]
<1>1. VersionAsked(w) /\ Drafted(w)
  BY DEF Transactions
<1>2. /\ request[w].op \notin VersionedOperations
      /\ request[w].op \notin {"report_problem", "resolve_problem"}
      /\ request[w].op \notin StatusOperations
  BY DEF VersionedOperations, StatusOperations
<1>3. t.row = s.row /\ t.history = s.history /\ t.problems = s.problems
  BY <1>1, <1>2, Committed
<1>4. t.checks = s.checks + 1
  BY <1>1, <1>2, Published
<1>5. Book' = [Book EXCEPT ![n] = ShipmentView(t)] /\ Book[n] = ShipmentView(s)
  BY <1>1, PageTurned
<1>6. ShipmentView(t) = View(Trail(s.history), s.row.archived, s.row.version,
                             Open(s.problems), s.checks + 1)
  BY <1>3, <1>4, ViewOfShipment
<1>7. Book[n] = View(Trail(s.history), s.row.archived, s.row.version,
                     Open(s.problems), s.checks)
  BY <1>5, ViewOfShipment
<1>8. Noted(Book[n]) = View(Trail(s.history), s.row.archived, s.row.version,
                            Open(s.problems), s.checks + 1)
  BY <1>7, ViewChanges
<1> HIDE DEF t
<1>9. Book' = [Book EXCEPT ![n] = Noted(Book[n])]
  BY <1>5, <1>6, <1>8
<1> QED
  BY <1>9 DEF Ledger!Note, Noted

(* The three calls that change a status enter it on the trail.             *)
LEMMA StatusStep ==
  ASSUME Inv, Transactions, Histories, NEW w \in Workers, commit(w),
         request[w].op \in StatusOperations,
         NEW n, n = request[w].number,
         NEW s, s = Stored(w), NEW t, t = ledger'[n],
         NEW entry, entry = tx[w].entry
  PROVE  /\ entry \in HistoryEntry /\ StatusPlan(w)
         /\ entry.old_status = s.row.status
         /\ Ledger!StatusOf(Book[n]) = s.row.status
         /\ Book[n].open = Open(s.problems)
         /\ s.problems \in Seq(Problem)
         /\ ProblemsMatch(s.row.status, s.history, s.problems)
         /\ request[w].op = "resolve_problem" => tx[w].problem \in OpenProblems(s.problems)
         /\ Ledger!Enter(n, entry.new_status, entry.override, Open(t.problems))
<1> DEFINE trail == Trail(s.history)
           open == Open(t.problems)
           version == s.row.version
           e == EntryView(entry)
<1>1. /\ request[w].op \in VersionedOperations
      /\ request[w].op \notin {"create_shipment", "record_control_weight"}
      /\ request[w].op # "restore_shipment"
  BY DEF VersionedOperations, StatusOperations
<1>2. /\ VersionAsked(w) /\ Drafted(w) /\ Planned(w) /\ FreshPlan(w) /\ pc[w] = "write"
      /\ s \in Shipment /\ Sound(s, clock)
      /\ t.row.version = version + 1 /\ t.row.archived = tx[w].row.archived
      /\ t.checks = s.checks
  BY <1>1, VersionedCommit
<1>3. entry \in HistoryEntry /\ tx[w].row \in Row
  BY WriterTypes
<1>4. /\ s.row \in Row /\ s.history \in Seq(HistoryEntry) /\ s.problems \in Seq(Problem)
      /\ Chain(s.history, s.row.status)
      /\ ProblemsMatch(s.row.status, s.history, s.problems)
  BY <1>2 DEF Shipment, Sound
<1>5. StatusPlan(w)
  BY <1>2 DEF Planned
<1>6. /\ ~s.row.archived
      /\ entry.old_status = s.row.status
      /\ tx[w].row = apply_status(s.row, entry.new_status, entry.at)
      /\ request[w].op = "resolve_problem" => tx[w].problem \in OpenProblems(s.problems)
  BY <1>1, <1>2 DEF FreshPlan
<1>7. t.history = Append(s.history, entry)
  BY <1>1, <1>2, Committed
<1>8. tx[w].row.archived = s.row.archived
  BY <1>4, <1>6 DEF apply_status, Row
<1>9. Book' = [Book EXCEPT ![n] = ShipmentView(t)] /\ Book[n] = ShipmentView(s)
  BY <1>1, <1>2, PageTurned
<1>10. Book[n] = View(trail, s.row.archived, version, Open(s.problems), s.checks)
  BY <1>9, ViewOfShipment
<1>11. ShipmentView(t) = View(Append(trail, e), s.row.archived, version + 1, open, s.checks)
  <2>1. ShipmentView(t) = View(Trail(t.history), t.row.archived, t.row.version, open, t.checks)
    BY ViewOfShipment
  <2>2. Trail(t.history) = Append(trail, e)
    BY <1>3, <1>4, <1>7, TrailExtended
  <2> QED
    BY <1>2, <1>8, <2>1, <2>2
<1>12. /\ Book[n].trail = trail /\ Book[n].archived = s.row.archived
       /\ Book[n].open = Open(s.problems)
       /\ Extended(Book[n], e, open)
            = View(Append(trail, e), s.row.archived, version + 1, open, s.checks)
  BY <1>10, ViewChanges
<1>13. Ledger!StatusOf(Book[n]) = s.row.status
  <2>1. trail[Len(trail)].to = Before(s.history, Len(s.history) + 1)
    BY <1>4, TrailExtended
  <2>2. s.row.status = Before(s.history, Len(s.history) + 1)
    BY <1>4 DEF Chain
  <2> HIDE DEF trail
  <2> QED
    BY <1>12, <2>1, <2>2 DEF Ledger!StatusOf
<1>14. Ledger!Enter(n, entry.new_status, entry.override, open)
  <2>1. Book' = [Book EXCEPT ![n] = Extended(Book[n], e, open)]
    BY <1>9, <1>11, <1>12
  <2>2. e = Ledger!Entered(entry.new_status, entry.override)
    BY DEF EntryView, Ledger!Entered
  <2> HIDE DEF e, open
  <2> QED
    BY <1>6, <1>12, <2>1, <2>2 DEF Ledger!Enter, Ledger!Change, Extended
<1> QED
  BY <1>3, <1>4, <1>5, <1>6, <1>12, <1>13, <1>14

(* Each of the three is the lawful step of the ledger it stands for.       *)
LEMMA LawfulStep ==
  ASSUME Inv, Transactions, Histories, NEW w \in Workers, commit(w),
         request[w].op \in StatusOperations,
         NEW n, n = request[w].number
  PROVE  Ledger!Move(n) \/ Ledger!Report(n) \/ Ledger!Resolve(n)
<1> DEFINE s == Stored(w)
           t == ledger'[n]
           entry == tx[w].entry
           old == s.row.status
           new == entry.new_status
           before == s.problems
           after == t.problems
<1>1. /\ entry \in HistoryEntry /\ StatusPlan(w)
      /\ entry.old_status = old
      /\ Ledger!StatusOf(Book[n]) = old
      /\ Book[n].open = Open(before)
      /\ before \in Seq(Problem)
      /\ ProblemsMatch(old, s.history, before)
      /\ request[w].op = "resolve_problem" => tx[w].problem \in OpenProblems(before)
      /\ Ledger!Enter(n, new, entry.override, Open(after))
  BY StatusStep
<1>2. /\ new \in Statuses /\ old \in Statuses /\ entry.override \in BOOLEAN
      /\ old # new /\ LawfulEntry(w)
  BY <1>1 DEF HistoryEntry, StatusPlan
<1>3. /\ VersionAsked(w) /\ Drafted(w) /\ request[w].op # "create_shipment"
      /\ request[w].op \in VersionedOperations
  BY DEF Transactions, StatusOperations, VersionedOperations
<1>4. CASE request[w].op = "change_status"
  <2>1. /\ old # "PROBLEM" /\ new # "PROBLEM"
        /\ entry.override <=> ~can_transition(old, new)
    BY <1>1, <1>2, <1>4 DEF LawfulEntry
  <2>2. after = before
    BY <1>3, <1>4, Committed
  <2>3. Open(after) = Ledger!NothingOpen
    BY <1>1, <2>1, <2>2, OpenCounts DEF ProblemsMatch
  <2>4. new \in Ledger!Statuses \ {"PROBLEM", Ledger!StatusOf(Book[n])}
    BY <1>1, <1>2, <2>1, SamePolicy
  <2>5. entry.override <=> ~Ledger!can_transition(Ledger!StatusOf(Book[n]), new)
    BY <1>1, <2>1, SamePolicy
  <2>6. Ledger!Enter(n, new, entry.override, Ledger!NothingOpen)
    BY <1>1, <2>3
  <2> HIDE DEF entry, new, old
  <2> QED
    BY <1>1, <1>2, <2>1, <2>4, <2>5, <2>6 DEF Ledger!Move
<1>5. CASE request[w].op = "report_problem"
  <2>1. new = "PROBLEM" /\ ~entry.override /\ can_transition(old, "PROBLEM")
    BY <1>1, <1>2, <1>5 DEF LawfulEntry
  <2>2. old # "PROBLEM"
    BY <1>2, <2>1
  <2>3. after = Append(before, Reported(w))
    BY <1>3, <1>5, Committed
  <2>4. OpenProblems(before) = {}
    BY <1>1, <2>2 DEF ProblemsMatch
  <2> DEFINE m == Len(before) + 1
  <2>5. OpenProblems(after) = {m}
    BY <1>1, <2>3, <2>4, ProblemReported, ReportedTypes
  <2>6. after[m] = Reported(w) /\ Reported(w).previous_status = old
    BY <1>1, <2>3, Appended, ReportedTypes
  <2> HIDE DEF m, after
  <2>7. Open(after) = Ledger!OneOpen(old)
    BY <2>5, <2>6, OpenCounts
  <2>8. Ledger!Enter(n, "PROBLEM", FALSE, Ledger!OneOpen(old))
    <3>1. entry.override = FALSE
      BY <1>2, <2>1
    <3> HIDE DEF entry, new
    <3> QED
      BY <1>1, <2>1, <2>7, <3>1
  <2>9. Ledger!can_transition(Ledger!StatusOf(Book[n]), "PROBLEM")
    BY <1>1, <2>1, SamePolicy
  <2> QED
    BY <1>1, <2>8, <2>9 DEF Ledger!Report
<1>6. CASE request[w].op = "resolve_problem"
  <2> DEFINE p == tx[w].problem
             previous == before[p].previous_status
  <2>1. /\ old = "PROBLEM" /\ ~entry.override /\ p \in DOMAIN before
        /\ can_recover(previous, new)
    BY <1>1, <1>2, <1>6 DEF LawfulEntry
  <2>2. OpenProblems(before) = {p}
    BY <1>1, <1>6, <2>1 DEF ProblemsMatch
  <2>3. Open(before) = Ledger!OneOpen(previous)
    BY <2>2, OpenCounts
  <2>4. entry.at \in Nat /\ entry.at # Never
    BY <1>1 DEF HistoryEntry, StatusPlan, Never
  <2>5. after = Resolution(before, p, entry.at)
    BY <1>3, <1>6, Committed
  <2>6. OpenProblems(after) = OpenProblems(before) \ {p}
    <3> HIDE DEF entry, p, before, after
    <3> QED
      BY <1>1, <2>1, <2>4, <2>5, ProblemResolved
  <2>7. Open(after) = Ledger!NothingOpen
    BY <2>2, <2>6, OpenCounts
  <2>8. previous \in Statuses
    <3>1. before[p] \in Problem
      BY <1>1, <2>1, LenProperties, ElementOfSeq
    <3> QED
      BY <3>1 DEF Problem
  <2>9. Ledger!Enter(n, new, FALSE, Ledger!NothingOpen)
    <3>1. entry.override = FALSE
      BY <1>2, <2>1
    <3> HIDE DEF entry, new
    <3> QED
      BY <1>1, <2>7, <3>1
  <2>10. /\ previous \in Ledger!Statuses /\ new \in Ledger!Statuses
         /\ Ledger!can_recover(previous, new)
    BY <1>2, <2>1, <2>8, SamePolicy
  <2> HIDE DEF previous, new, old
  <2> QED
    BY <1>1, <2>1, <2>3, <2>9, <2>10 DEF Ledger!Resolve
<1> QED
  BY <1>4, <1>5, <1>6 DEF StatusOperations

LEMMA LedgerStep ==
  ASSUME Inv, Transactions, Histories, [Next]_vars
  PROVE  [Ledger!Next]_Book
<1>1. CASE ledger' = ledger
  BY <1>1 DEF Book, ShipmentView, Trail, Open, OpenProblems, EntryView
<1>2. ASSUME NEW w \in Workers, commit(w)
      PROVE  Ledger!Next
  <2> DEFINE n == request[w].number
  <2>1. VersionAsked(w) /\ Drafted(w) /\ request[w].op \in OperationNames
    BY <1>2, WriterState DEF Transactions, commit
  <2>2. CASE request[w].op = "create_shipment"
    BY <1>2, <2>1, <2>2, ReceiveStep DEF Ledger!Next
  <2>3. CASE request[w].op # "create_shipment"
    <3>1. n \in DOMAIN Book
      BY <1>2, <2>1, <2>3, PageTurned
    <3>2. CASE request[w].op \in {"update_shipment", "archive_shipment", "restore_shipment"}
      BY <1>2, <3>1, <3>2, PlainStep DEF Ledger!Next
    <3>3. CASE request[w].op \in StatusOperations
      BY <1>2, <3>1, <3>3, LawfulStep DEF Ledger!Next
    <3>4. CASE request[w].op = "record_control_weight"
      BY <1>2, <3>1, <3>4, NoteStep DEF Ledger!Next
    <3> QED
      BY <2>1, <2>3, <3>2, <3>3, <3>4 DEF OperationNames, StatusOperations
  <2> QED
    BY <2>2, <2>3
<1> QED
  BY <1>1, <1>2, OnlyCommitsPublish

LEMMA LedgerInitially == Init => Ledger!Init
<1> SUFFICES ASSUME Init PROVE Book = <<>>
  BY DEF Ledger!Init
<1>1. DOMAIN ledger = {}
  BY DEF Init
<1>2. Book = [n \in {} |-> ShipmentView(ledger[n])]
  BY <1>1 DEF Book
<1> QED
  BY <1>2

(* However the statements of the calls interleave, fail, time out or die   *)
(* with the process, the committed database moves only by the atomic       *)
(* lawful steps of ShipmentLedger: each call takes effect at its commit,   *)
(* and as if it had run alone.                                             *)
THEOREM ServicesImplementLedger == Spec => LedgerSpec
<1>1. Inv /\ Transactions /\ Histories /\ [Next]_vars => [Ledger!Next]_Book
  BY LedgerStep
<1>2. Spec => Ledger!Init /\ [][Ledger!Next]_Book
  BY <1>1, LedgerInitially, HistoryInvariant, PTL DEF Spec
<1> QED
  BY <1>2 DEF LedgerSpec, Ledger!Spec
=============================================================================
