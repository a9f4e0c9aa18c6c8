---------------------------- MODULE StartupProofs ----------------------------
(***************************************************************************)
(* Proofs about what happens before anybody works with the application:    *)
(* the migrations of the database, for any rows, numbers, runs of alembic  *)
(* and crashes, and the first run, for any number of processes.            *)
(*                                                                         *)
(* The nine upgrades and eight downgrades are data, and what holds of all  *)
(* of them is proved of each and stated once (Ordered, Fits, Starts,       *)
(* Reverts).  The invariant, Orderly, says what a database looks like      *)
(* after any number of statements of a script (IsAfter), which rows are    *)
(* where while a table is rebuilt (RowsOK), and what an interrupted        *)
(* upgrade leaves behind: the table, or the copy, that its first statement *)
(* made, at which every later attempt collides (Obstacle, Blocked).        *)
(***************************************************************************)
EXTENDS MCStartup, WellFoundedInduction, TLAPS

(* ------------------------- revisions and scripts ----------------------- *)

Ops == {"check", "create", "index", "unindex", "drop", "tmp", "copy", "rename",
        "sequence", "barcode", "fill"}

(* The tables that are rebuilt by a batch.                                 *)
Batched == {"users", "shipments", "shipment_status_history"}

ScriptOf(way, v) == IF way = "up" THEN Up[v + 1] ELSE Down[v]

(* The revisions that can be left upwards or downwards.                    *)
Legal(way, v) == (way = "up" /\ v \in 0..8) \/ (way = "down" /\ v \in 2..9)

(* Within a batch: a copy exists, and later the table does not.            *)
InBatch(s) == s.op \in {"tmp", "copy"} \/ (s.op = "drop" /\ s.table \in Batched)

Follows(s, j, op) == j > 1 /\ s[j - 1].op = op /\ s[j - 1].table = s[j].table

(* The statements of a batch, and a table and its index, are a chain.      *)
Ordered(s) ==
  /\ Len(s) \in Nat \ {0}
  /\ \A j \in 1..Len(s) :
       /\ s[j].op \in Ops
       /\ s[j].op \in {"tmp", "copy", "rename"} => s[j].table \in Batched
       /\ s[j].op = "copy" => Follows(s, j, "tmp")
       /\ s[j].op = "drop" /\ s[j].table \in Batched => Follows(s, j, "copy")
       /\ s[j].op = "rename" => Follows(s, j, "drop")
       /\ s[j].op = "index" => Follows(s, j, "create")
       /\ InBatch(s[j]) =>
            /\ j < Len(s) /\ s[j + 1].table = s[j].table
            /\ s[j].op = "tmp" => s[j + 1].op = "copy"
            /\ s[j].op = "copy" => s[j + 1].op = "drop"
            /\ s[j].op = "drop" => s[j + 1].op = "rename"

(* What a statement needs is there, and what it makes is not.              *)
Fits(s, way, v) ==
  \A j \in 1..Len(s) :
    /\ s[j].op = "check" => way = "up" /\ v > 0 /\ j = 1
    /\ s[j].op = "create" =>
         /\ way = "up" /\ s[j].table \in REQUIRED_SCHEMA_TABLES \ DOMAIN Schema(v)
         /\ \A i \in 1..(j - 1) : s[i].table # s[j].table
    /\ s[j].op = "index" =>
         /\ way = "up" /\ s[j].table \notin Indexed(v)
         /\ \A i \in 1..(j - 1) : s[i].table = s[j].table => s[i].op # "index"
    /\ s[j].op = "unindex" =>
         /\ way = "down" /\ s[j].table \in Indexed(v)
         /\ \A i \in 1..(j - 1) : s[i].table # s[j].table
    /\ s[j].op = "drop" /\ s[j].table \notin Batched =>
         /\ way = "down" /\ s[j].table \in DOMAIN Schema(v) \ OldTables
         /\ s[j].table \in Indexed(v) =>
              \E i \in 1..(j - 1) : s[i].op = "unindex" /\ s[i].table = s[j].table
         /\ \A i \in 1..(j - 1) : s[i].table = s[j].table => s[i].op = "unindex"
    /\ s[j].op = "tmp" =>
         \A i \in 1..(j - 1) : s[i].table = s[j].table => s[i].op \in {"barcode", "fill"}
    /\ s[j].op = "barcode" =>
         /\ way = "down" /\ v = 6 /\ s[j].table \in Shapes(6)
         /\ \A i \in 1..(j - 1) : s[i].table # s[j].table
    /\ v = 0 => s[j].op \in {"create", "index"}
    /\ v > 0 /\ s[j].table \in Batched => s[j].op \notin {"create", "index", "unindex"}

(* The tables that the first n statements with these operations are about. *)
Done(s, n, ops) == {s[j].table : j \in {i \in 1..n : s[i].op \in ops}}

Removed(s, n) == {t \in Done(s, n, {"drop"}) : t \notin Batched}

(* A downgrade removes what its upgrade has added.                         *)
Reverts(s, v) ==
  /\ Removed(s, Len(s)) = DOMAIN Schema(v) \ DOMAIN Schema(v - 1)
  /\ Done(s, Len(s), {"unindex"}) = Indexed(v) \ Indexed(v - 1)
  /\ Done(s, Len(s), {"rename", "barcode"}) = Shapes(v) \cap DOMAIN Schema(v - 1)

(* The position of the first statement of an upgrade that changes anything. *)
First(s) == IF s[1].op = "check" THEN 2 ELSE 1

Starts(s) ==
  /\ First(s) \in {1, 2} /\ First(s) <= Len(s) /\ s[First(s)].op \in {"create", "tmp"}
  /\ First(s) = 2 => s[1].op = "check"
  /\ \A j \in 1..Len(s) :
       s[j].op # "barcode" /\ s[j].op # "unindex" /\ (s[j].op = "drop" => s[j].table \in Batched)

(* The scripts, statement by statement.                                    *)
Upgrade1(s) ==
  /\ Len(s) = 8 /\ DOMAIN s = 1..8
  /\ s[1].op = "create" /\ s[1].table = "users"
  /\ s[2].op = "create" /\ s[2].table = "couriers"
  /\ s[3].op = "create" /\ s[3].table = "shipments"
  /\ s[4].op = "index" /\ s[4].table = "shipments"
  /\ s[5].op = "create" /\ s[5].table = "shipment_status_history"
  /\ s[6].op = "index" /\ s[6].table = "shipment_status_history"
  /\ s[7].op = "create" /\ s[7].table = "audit_events"
  /\ s[8].op = "index" /\ s[8].table = "audit_events"

Upgrade2(s) ==
  /\ Len(s) = 5 /\ DOMAIN s = 1..5
  /\ s[1].op = "check" /\ s[1].table = "policy"
  /\ s[2].op = "tmp" /\ s[2].table = "users"
  /\ s[3].op = "copy" /\ s[3].table = "users"
  /\ s[4].op = "drop" /\ s[4].table = "users"
  /\ s[5].op = "rename" /\ s[5].table = "users"

Upgrade3(s) ==
  /\ Len(s) = 5 /\ DOMAIN s = 1..5
  /\ s[1].op = "check" /\ s[1].table = "credentials"
  /\ s[2].op = "tmp" /\ s[2].table = "users"
  /\ s[3].op = "copy" /\ s[3].table = "users"
  /\ s[4].op = "drop" /\ s[4].table = "users"
  /\ s[5].op = "rename" /\ s[5].table = "users"

Upgrade4(s) ==
  /\ Len(s) = 11 /\ DOMAIN s = 1..11
  /\ s[1].op = "check" /\ s[1].table = "shipment_data"
  /\ s[2].op = "tmp" /\ s[2].table = "shipments"
  /\ s[3].op = "copy" /\ s[3].table = "shipments"
  /\ s[4].op = "drop" /\ s[4].table = "shipments"
  /\ s[5].op = "rename" /\ s[5].table = "shipments"
  /\ s[6].op = "tmp" /\ s[6].table = "shipment_status_history"
  /\ s[7].op = "copy" /\ s[7].table = "shipment_status_history"
  /\ s[8].op = "drop" /\ s[8].table = "shipment_status_history"
  /\ s[9].op = "rename" /\ s[9].table = "shipment_status_history"
  /\ s[10].op = "create" /\ s[10].table = "shipment_problems"
  /\ s[11].op = "index" /\ s[11].table = "shipment_problems"

Upgrade5(s) ==
  /\ Len(s) = 2 /\ DOMAIN s = 1..2
  /\ s[1].op = "create" /\ s[1].table = "shipment_number_sequences"
  /\ s[2].op = "sequence" /\ s[2].table = "shipment_number_sequences"

Upgrade6(s) ==
  /\ Len(s) = 5 /\ DOMAIN s = 1..5
  /\ s[1].op = "check" /\ s[1].table = "barcodes"
  /\ s[2].op = "tmp" /\ s[2].table = "shipments"
  /\ s[3].op = "copy" /\ s[3].table = "shipments"
  /\ s[4].op = "drop" /\ s[4].table = "shipments"
  /\ s[5].op = "rename" /\ s[5].table = "shipments"

Upgrade7(s) ==
  /\ Len(s) = 8 /\ DOMAIN s = 1..8
  /\ s[1].op = "create" /\ s[1].table = "clients"
  /\ s[2].op = "index" /\ s[2].table = "clients"
  /\ s[3].op = "tmp" /\ s[3].table = "shipments"
  /\ s[4].op = "copy" /\ s[4].table = "shipments"
  /\ s[5].op = "drop" /\ s[5].table = "shipments"
  /\ s[6].op = "rename" /\ s[6].table = "shipments"
  /\ s[7].op = "create" /\ s[7].table = "shipment_weight_checks"
  /\ s[8].op = "index" /\ s[8].table = "shipment_weight_checks"

Upgrade8(s) ==
  /\ Len(s) = 6 /\ DOMAIN s = 1..6
  /\ s[1].op = "tmp" /\ s[1].table = "shipments"
  /\ s[2].op = "copy" /\ s[2].table = "shipments"
  /\ s[3].op = "drop" /\ s[3].table = "shipments"
  /\ s[4].op = "rename" /\ s[4].table = "shipments"
  /\ s[5].op = "create" /\ s[5].table = "shipment_services"
  /\ s[6].op = "index" /\ s[6].table = "shipment_services"

Upgrade9(s) ==
  /\ Len(s) = 2 /\ DOMAIN s = 1..2
  /\ s[1].op = "create" /\ s[1].table = "shipment_sms_events"
  /\ s[2].op = "index" /\ s[2].table = "shipment_sms_events"

Downgrade2(s) ==
  /\ Len(s) = 4 /\ DOMAIN s = 1..4
  /\ s[1].op = "tmp" /\ s[1].table = "users"
  /\ s[2].op = "copy" /\ s[2].table = "users"
  /\ s[3].op = "drop" /\ s[3].table = "users"
  /\ s[4].op = "rename" /\ s[4].table = "users"

Downgrade3(s) ==
  /\ Len(s) = 4 /\ DOMAIN s = 1..4
  /\ s[1].op = "tmp" /\ s[1].table = "users"
  /\ s[2].op = "copy" /\ s[2].table = "users"
  /\ s[3].op = "drop" /\ s[3].table = "users"
  /\ s[4].op = "rename" /\ s[4].table = "users"

Downgrade4(s) ==
  /\ Len(s) = 10 /\ DOMAIN s = 1..10
  /\ s[1].op = "unindex" /\ s[1].table = "shipment_problems"
  /\ s[2].op = "drop" /\ s[2].table = "shipment_problems"
  /\ s[3].op = "tmp" /\ s[3].table = "shipment_status_history"
  /\ s[4].op = "copy" /\ s[4].table = "shipment_status_history"
  /\ s[5].op = "drop" /\ s[5].table = "shipment_status_history"
  /\ s[6].op = "rename" /\ s[6].table = "shipment_status_history"
  /\ s[7].op = "tmp" /\ s[7].table = "shipments"
  /\ s[8].op = "copy" /\ s[8].table = "shipments"
  /\ s[9].op = "drop" /\ s[9].table = "shipments"
  /\ s[10].op = "rename" /\ s[10].table = "shipments"

Downgrade5(s) ==
  /\ Len(s) = 1 /\ DOMAIN s = 1..1
  /\ s[1].op = "drop" /\ s[1].table = "shipment_number_sequences"

Downgrade6(s) ==
  /\ Len(s) = 6 /\ DOMAIN s = 1..6
  /\ s[1].op = "barcode" /\ s[1].table = "shipments"
  /\ s[2].op = "fill" /\ s[2].table = "shipments"
  /\ s[3].op = "tmp" /\ s[3].table = "shipments"
  /\ s[4].op = "copy" /\ s[4].table = "shipments"
  /\ s[5].op = "drop" /\ s[5].table = "shipments"
  /\ s[6].op = "rename" /\ s[6].table = "shipments"

Downgrade7(s) ==
  /\ Len(s) = 8 /\ DOMAIN s = 1..8
  /\ s[1].op = "unindex" /\ s[1].table = "shipment_weight_checks"
  /\ s[2].op = "drop" /\ s[2].table = "shipment_weight_checks"
  /\ s[3].op = "tmp" /\ s[3].table = "shipments"
  /\ s[4].op = "copy" /\ s[4].table = "shipments"
  /\ s[5].op = "drop" /\ s[5].table = "shipments"
  /\ s[6].op = "rename" /\ s[6].table = "shipments"
  /\ s[7].op = "unindex" /\ s[7].table = "clients"
  /\ s[8].op = "drop" /\ s[8].table = "clients"

Downgrade8(s) ==
  /\ Len(s) = 6 /\ DOMAIN s = 1..6
  /\ s[1].op = "unindex" /\ s[1].table = "shipment_services"
  /\ s[2].op = "drop" /\ s[2].table = "shipment_services"
  /\ s[3].op = "tmp" /\ s[3].table = "shipments"
  /\ s[4].op = "copy" /\ s[4].table = "shipments"
  /\ s[5].op = "drop" /\ s[5].table = "shipments"
  /\ s[6].op = "rename" /\ s[6].table = "shipments"

Downgrade9(s) ==
  /\ Len(s) = 2 /\ DOMAIN s = 1..2
  /\ s[1].op = "unindex" /\ s[1].table = "shipment_sms_events"
  /\ s[2].op = "drop" /\ s[2].table = "shipment_sms_events"

LEMMA UpgradesAre ==
  /\ Upgrade1(Up[1])
  /\ Upgrade2(Up[2])
  /\ Upgrade3(Up[3])
  /\ Upgrade4(Up[4])
  /\ Upgrade5(Up[5])
  /\ Upgrade6(Up[6])
  /\ Upgrade7(Up[7])
  /\ Upgrade8(Up[8])
  /\ Upgrade9(Up[9])
<1>1. Upgrade1(Up[1])
  BY DEF Upgrade1, Up, upgrade_1, Create, CreateIndexed, Statement
<1>2. Upgrade2(Up[2])
  BY DEF Upgrade2, Up, upgrade_2, Check, Batch, Statement
<1>3. Upgrade3(Up[3])
  BY DEF Upgrade3, Up, upgrade_3, Check, Batch, Statement
<1>4. Upgrade4(Up[4])
  BY DEF Upgrade4, Up, upgrade_4, Check, Batch, CreateIndexed, Statement
<1>5. Upgrade5(Up[5])
  BY DEF Upgrade5, Up, upgrade_5, Create, Statement
<1>6. Upgrade6(Up[6])
  BY DEF Upgrade6, Up, upgrade_6, Check, Batch, Statement
<1>7. Upgrade7(Up[7])
  BY DEF Upgrade7, Up, upgrade_7, CreateIndexed, Batch, Statement
<1>8. Upgrade8(Up[8])
  BY DEF Upgrade8, Up, upgrade_8, Batch, CreateIndexed, Statement
<1>9. Upgrade9(Up[9])
  BY DEF Upgrade9, Up, upgrade_9, CreateIndexed, Statement
<1> QED
  BY <1>1, <1>2, <1>3, <1>4, <1>5, <1>6, <1>7, <1>8, <1>9

LEMMA DowngradesAre ==
  /\ Downgrade2(Down[2])
  /\ Downgrade3(Down[3])
  /\ Downgrade4(Down[4])
  /\ Downgrade5(Down[5])
  /\ Downgrade6(Down[6])
  /\ Downgrade7(Down[7])
  /\ Downgrade8(Down[8])
  /\ Downgrade9(Down[9])
<1>2. Downgrade2(Down[2])
  BY DEF Downgrade2, Down, downgrade_2, Batch, Statement
<1>3. Downgrade3(Down[3])
  BY DEF Downgrade3, Down, downgrade_3, Batch, Statement
<1>4. Downgrade4(Down[4])
  BY DEF Downgrade4, Down, downgrade_4, DropTable, Batch, Statement
<1>5. Downgrade5(Down[5])
  BY DEF Downgrade5, Down, downgrade_5, Statement
<1>6. Downgrade6(Down[6])
  BY DEF Downgrade6, Down, downgrade_6, Batch, Statement
<1>7. Downgrade7(Down[7])
  BY DEF Downgrade7, Down, downgrade_7, DropTable, Batch, Statement
<1>8. Downgrade8(Down[8])
  BY DEF Downgrade8, Down, downgrade_8, DropTable, Batch, Statement
<1>9. Downgrade9(Down[9])
  BY DEF Downgrade9, Down, downgrade_9, DropTable, Statement
<1> QED
  BY <1>2, <1>3, <1>4, <1>5, <1>6, <1>7, <1>8, <1>9

(* The tables that a revision shapes, and those that it indexes.           *)
LEMMA ShapesAre ==
  /\ Shapes(1) = {"users", "couriers", "shipments", "shipment_status_history", "audit_events"}
  /\ Shapes(2) = {"users"}
  /\ Shapes(3) = {"users"}
  /\ Shapes(4) = {"shipments", "shipment_status_history", "shipment_problems"}
  /\ Shapes(5) = {"shipment_number_sequences"}
  /\ Shapes(6) = {"shipments"}
  /\ Shapes(7) = {"clients", "shipments", "shipment_weight_checks"}
  /\ Shapes(8) = {"shipments", "shipment_services"}
  /\ Shapes(9) = {"shipment_sms_events"}
<1>1. Shapes(1) = {"users", "couriers", "shipments", "shipment_status_history", "audit_events"}
  BY UpgradesAre DEF Upgrade1, Shapes, Targets
<1>2. Shapes(2) = {"users"}
  BY UpgradesAre DEF Upgrade2, Shapes, Targets
<1>3. Shapes(3) = {"users"}
  BY UpgradesAre DEF Upgrade3, Shapes, Targets
<1>4. Shapes(4) = {"shipments", "shipment_status_history", "shipment_problems"}
  BY UpgradesAre DEF Upgrade4, Shapes, Targets
<1>5. Shapes(5) = {"shipment_number_sequences"}
  BY UpgradesAre DEF Upgrade5, Shapes, Targets
<1>6. Shapes(6) = {"shipments"}
  BY UpgradesAre DEF Upgrade6, Shapes, Targets
<1>7. Shapes(7) = {"clients", "shipments", "shipment_weight_checks"}
  BY UpgradesAre DEF Upgrade7, Shapes, Targets
<1>8. Shapes(8) = {"shipments", "shipment_services"}
  BY UpgradesAre DEF Upgrade8, Shapes, Targets
<1>9. Shapes(9) = {"shipment_sms_events"}
  BY UpgradesAre DEF Upgrade9, Shapes, Targets
<1> QED
  BY <1>1, <1>2, <1>3, <1>4, <1>5, <1>6, <1>7, <1>8, <1>9

LEMMA IndexesAre ==
  /\ Targets(Up[1], {"index"}) = {"shipments", "shipment_status_history", "audit_events"}
  /\ Targets(Up[2], {"index"}) = {}
  /\ Targets(Up[3], {"index"}) = {}
  /\ Targets(Up[4], {"index"}) = {"shipment_problems"}
  /\ Targets(Up[5], {"index"}) = {}
  /\ Targets(Up[6], {"index"}) = {}
  /\ Targets(Up[7], {"index"}) = {"clients", "shipment_weight_checks"}
  /\ Targets(Up[8], {"index"}) = {"shipment_services"}
  /\ Targets(Up[9], {"index"}) = {"shipment_sms_events"}
<1>1. Targets(Up[1], {"index"}) = {"shipments", "shipment_status_history", "audit_events"}
  BY UpgradesAre DEF Upgrade1, Targets
<1>2. Targets(Up[2], {"index"}) = {}
  BY UpgradesAre DEF Upgrade2, Targets
<1>3. Targets(Up[3], {"index"}) = {}
  BY UpgradesAre DEF Upgrade3, Targets
<1>4. Targets(Up[4], {"index"}) = {"shipment_problems"}
  BY UpgradesAre DEF Upgrade4, Targets
<1>5. Targets(Up[5], {"index"}) = {}
  BY UpgradesAre DEF Upgrade5, Targets
<1>6. Targets(Up[6], {"index"}) = {}
  BY UpgradesAre DEF Upgrade6, Targets
<1>7. Targets(Up[7], {"index"}) = {"clients", "shipment_weight_checks"}
  BY UpgradesAre DEF Upgrade7, Targets
<1>8. Targets(Up[8], {"index"}) = {"shipment_services"}
  BY UpgradesAre DEF Upgrade8, Targets
<1>9. Targets(Up[9], {"index"}) = {"shipment_sms_events"}
  BY UpgradesAre DEF Upgrade9, Targets
<1> QED
  BY <1>1, <1>2, <1>3, <1>4, <1>5, <1>6, <1>7, <1>8, <1>9

(* A revision adds its tables and indexes to those of the one before.      *)
LEMMA NextSchema ==
  ASSUME NEW v \in 0..8
  PROVE  /\ DOMAIN Schema(v + 1) = DOMAIN Schema(v) \cup Shapes(v + 1)
         /\ Indexed(v + 1) = Indexed(v) \cup Targets(Up[v + 1], {"index"})
<1>1. 1..(v + 1) = (1..v) \cup {v + 1}
  OBVIOUS
<1> QED
  BY <1>1 DEF Schema, Indexed

LEMMA NoSchema == DOMAIN Schema(0) = {} /\ Indexed(0) = {}
BY DEF Schema, Indexed

LEMMA TablesAre ==
  /\ DOMAIN Schema(1) = {"users", "couriers", "shipments",
                         "shipment_status_history", "audit_events"}
  /\ Indexed(1) = {"shipments", "shipment_status_history", "audit_events"}
  /\ DOMAIN Schema(2) = {"users", "couriers", "shipments",
                         "shipment_status_history", "audit_events"}
  /\ Indexed(2) = {"shipments", "shipment_status_history", "audit_events"}
  /\ DOMAIN Schema(3) = {"users", "couriers", "shipments",
                         "shipment_status_history", "audit_events"}
  /\ Indexed(3) = {"shipments", "shipment_status_history", "audit_events"}
  /\ DOMAIN Schema(4) = {"users", "couriers", "shipments",
                         "shipment_status_history", "audit_events",
                         "shipment_problems"}
  /\ Indexed(4) = {"shipments", "shipment_status_history", "audit_events",
                   "shipment_problems"}
  /\ DOMAIN Schema(5) = {"users", "couriers", "shipments",
                         "shipment_status_history", "audit_events",
                         "shipment_problems", "shipment_number_sequences"}
  /\ Indexed(5) = {"shipments", "shipment_status_history", "audit_events",
                   "shipment_problems"}
  /\ DOMAIN Schema(6) = {"users", "couriers", "shipments",
                         "shipment_status_history", "audit_events",
                         "shipment_problems", "shipment_number_sequences"}
  /\ Indexed(6) = {"shipments", "shipment_status_history", "audit_events",
                   "shipment_problems"}
  /\ DOMAIN Schema(7) = {"users", "couriers", "shipments",
                         "shipment_status_history", "audit_events",
                         "shipment_problems", "shipment_number_sequences",
                         "clients", "shipment_weight_checks"}
  /\ Indexed(7) = {"shipments", "shipment_status_history", "audit_events",
                   "shipment_problems", "clients", "shipment_weight_checks"}
  /\ DOMAIN Schema(8) = {"users", "couriers", "shipments",
                         "shipment_status_history", "audit_events",
                         "shipment_problems", "shipment_number_sequences",
                         "clients", "shipment_weight_checks",
                         "shipment_services"}
  /\ Indexed(8) = {"shipments", "shipment_status_history", "audit_events",
                   "shipment_problems", "clients", "shipment_weight_checks",
                   "shipment_services"}
  /\ DOMAIN Schema(9) = {"users", "couriers", "shipments",
                         "shipment_status_history", "audit_events",
                         "shipment_problems", "shipment_number_sequences",
                         "clients", "shipment_weight_checks",
                         "shipment_services", "shipment_sms_events"}
  /\ Indexed(9) = {"shipments", "shipment_status_history", "audit_events",
                   "shipment_problems", "clients", "shipment_weight_checks",
                   "shipment_services", "shipment_sms_events"}
<1>1. /\ DOMAIN Schema(1) = {"users", "couriers", "shipments",
                             "shipment_status_history", "audit_events"}
      /\ Indexed(1) = {"shipments", "shipment_status_history", "audit_events"}
  <2>1. DOMAIN Schema(1) = DOMAIN Schema(0) \cup Shapes(1)
        /\ Indexed(1) = Indexed(0) \cup Targets(Up[1], {"index"})
    BY NextSchema
  <2> QED
    BY <2>1, NoSchema, ShapesAre, IndexesAre
<1>2. /\ DOMAIN Schema(2) = {"users", "couriers", "shipments",
                             "shipment_status_history", "audit_events"}
      /\ Indexed(2) = {"shipments", "shipment_status_history", "audit_events"}
  <2>1. DOMAIN Schema(2) = DOMAIN Schema(1) \cup Shapes(2)
        /\ Indexed(2) = Indexed(1) \cup Targets(Up[2], {"index"})
    BY NextSchema
  <2> QED
    BY <2>1, <1>1, ShapesAre, IndexesAre
<1>3. /\ DOMAIN Schema(3) = {"users", "couriers", "shipments",
                             "shipment_status_history", "audit_events"}
      /\ Indexed(3) = {"shipments", "shipment_status_history", "audit_events"}
  <2>1. DOMAIN Schema(3) = DOMAIN Schema(2) \cup Shapes(3)
        /\ Indexed(3) = Indexed(2) \cup Targets(Up[3], {"index"})
    BY NextSchema
  <2> QED
    BY <2>1, <1>2, ShapesAre, IndexesAre
<1>4. /\ DOMAIN Schema(4) = {"users", "couriers", "shipments",
                             "shipment_status_history", "audit_events",
                             "shipment_problems"}
      /\ Indexed(4) = {"shipments", "shipment_status_history", "audit_events",
                       "shipment_problems"}
  <2>1. DOMAIN Schema(4) = DOMAIN Schema(3) \cup Shapes(4)
        /\ Indexed(4) = Indexed(3) \cup Targets(Up[4], {"index"})
    BY NextSchema
  <2> QED
    BY <2>1, <1>3, ShapesAre, IndexesAre
<1>5. /\ DOMAIN Schema(5) = {"users", "couriers", "shipments",
                             "shipment_status_history", "audit_events",
                             "shipment_problems", "shipment_number_sequences"}
      /\ Indexed(5) = {"shipments", "shipment_status_history", "audit_events",
                       "shipment_problems"}
  <2>1. DOMAIN Schema(5) = DOMAIN Schema(4) \cup Shapes(5)
        /\ Indexed(5) = Indexed(4) \cup Targets(Up[5], {"index"})
    BY NextSchema
  <2> QED
    BY <2>1, <1>4, ShapesAre, IndexesAre
<1>6. /\ DOMAIN Schema(6) = {"users", "couriers", "shipments",
                             "shipment_status_history", "audit_events",
                             "shipment_problems", "shipment_number_sequences"}
      /\ Indexed(6) = {"shipments", "shipment_status_history", "audit_events",
                       "shipment_problems"}
  <2>1. DOMAIN Schema(6) = DOMAIN Schema(5) \cup Shapes(6)
        /\ Indexed(6) = Indexed(5) \cup Targets(Up[6], {"index"})
    BY NextSchema
  <2> QED
    BY <2>1, <1>5, ShapesAre, IndexesAre
<1>7. /\ DOMAIN Schema(7) = {"users", "couriers", "shipments",
                             "shipment_status_history", "audit_events",
                             "shipment_problems", "shipment_number_sequences",
                             "clients", "shipment_weight_checks"}
      /\ Indexed(7) = {"shipments", "shipment_status_history", "audit_events",
                       "shipment_problems", "clients",
                       "shipment_weight_checks"}
  <2>1. DOMAIN Schema(7) = DOMAIN Schema(6) \cup Shapes(7)
        /\ Indexed(7) = Indexed(6) \cup Targets(Up[7], {"index"})
    BY NextSchema
  <2> QED
    BY <2>1, <1>6, ShapesAre, IndexesAre
<1>8. /\ DOMAIN Schema(8) = {"users", "couriers", "shipments",
                             "shipment_status_history", "audit_events",
                             "shipment_problems", "shipment_number_sequences",
                             "clients", "shipment_weight_checks",
                             "shipment_services"}
      /\ Indexed(8) = {"shipments", "shipment_status_history", "audit_events",
                       "shipment_problems", "clients",
                       "shipment_weight_checks", "shipment_services"}
  <2>1. DOMAIN Schema(8) = DOMAIN Schema(7) \cup Shapes(8)
        /\ Indexed(8) = Indexed(7) \cup Targets(Up[8], {"index"})
    BY NextSchema
  <2> QED
    BY <2>1, <1>7, ShapesAre, IndexesAre
<1>9. /\ DOMAIN Schema(9) = {"users", "couriers", "shipments",
                             "shipment_status_history", "audit_events",
                             "shipment_problems", "shipment_number_sequences",
                             "clients", "shipment_weight_checks",
                             "shipment_services", "shipment_sms_events"}
      /\ Indexed(9) = {"shipments", "shipment_status_history", "audit_events",
                       "shipment_problems", "clients",
                       "shipment_weight_checks", "shipment_services",
                       "shipment_sms_events"}
  <2>1. DOMAIN Schema(9) = DOMAIN Schema(8) \cup Shapes(9)
        /\ Indexed(9) = Indexed(8) \cup Targets(Up[9], {"index"})
    BY NextSchema
  <2> QED
    BY <2>1, <1>8, ShapesAre, IndexesAre
<1> QED
  BY <1>1, <1>2, <1>3, <1>4, <1>5, <1>6, <1>7, <1>8, <1>9

LEMMA OldTablesAre ==
  /\ OldTables = {"users", "couriers", "shipments", "shipment_status_history", "audit_events"}
  /\ REQUIRED_SCHEMA_TABLES = DOMAIN Schema(9)
BY TablesAre DEF OldTables, REQUIRED_SCHEMA_TABLES, EXPECTED_SCHEMA_REVISION

LEMMA UpgradesFit ==
  ASSUME NEW v \in 0..8, NEW s, s = Up[v + 1]
  PROVE  Ordered(s) /\ Fits(s, "up", v) /\ Starts(s)
<1>1. CASE v = 0
  <2>1. Upgrade1(s)
    BY <1>1, UpgradesAre
  <2>2. Ordered(s)
    BY <2>1 DEF Upgrade1, Ordered, Ops, Batched, InBatch, Follows
  <2>3. Fits(s, "up", 0)
    <3>1. {"users", "couriers", "shipments", "shipment_status_history", "audit_events"}
          \subseteq REQUIRED_SCHEMA_TABLES \ DOMAIN Schema(0)
      BY TablesAre, NoSchema, OldTablesAre
    <3>2. {"shipments", "shipment_status_history", "audit_events"} \cap Indexed(0) = {}
      BY TablesAre, NoSchema
    <3> QED
      BY <3>1, <3>2, <2>1 DEF Upgrade1, Fits, Batched
  <2>4. Starts(s)
    BY <2>1 DEF Upgrade1, Starts, First, Batched
  <2> QED
    BY <1>1, <2>2, <2>3, <2>4
<1>2. CASE v = 1
  <2>1. Upgrade2(s)
    BY <1>2, UpgradesAre
  <2>2. Ordered(s)
    BY <2>1 DEF Upgrade2, Ordered, Ops, Batched, InBatch, Follows
  <2>3. Fits(s, "up", 1)
    BY <2>1, TablesAre, NoSchema, OldTablesAre DEF Upgrade2, Fits, Batched
  <2>4. Starts(s)
    BY <2>1 DEF Upgrade2, Starts, First, Batched
  <2> QED
    BY <1>2, <2>2, <2>3, <2>4
<1>3. CASE v = 2
  <2>1. Upgrade3(s)
    BY <1>3, UpgradesAre
  <2>2. Ordered(s)
    BY <2>1 DEF Upgrade3, Ordered, Ops, Batched, InBatch, Follows
  <2>3. Fits(s, "up", 2)
    BY <2>1, TablesAre, NoSchema, OldTablesAre DEF Upgrade3, Fits, Batched
  <2>4. Starts(s)
    BY <2>1 DEF Upgrade3, Starts, First, Batched
  <2> QED
    BY <1>3, <2>2, <2>3, <2>4
<1>4. CASE v = 3
  <2>1. Upgrade4(s)
    BY <1>4, UpgradesAre
  <2>2. Ordered(s)
    BY <2>1 DEF Upgrade4, Ordered, Ops, Batched, InBatch, Follows
  <2>3. Fits(s, "up", 3)
    <3>1. {"shipment_problems"}
          \subseteq REQUIRED_SCHEMA_TABLES \ DOMAIN Schema(3)
      BY TablesAre, NoSchema, OldTablesAre
    <3>2. {"shipment_problems"} \cap Indexed(3) = {}
      BY TablesAre, NoSchema
    <3> QED
      BY <3>1, <3>2, <2>1 DEF Upgrade4, Fits, Batched
  <2>4. Starts(s)
    BY <2>1 DEF Upgrade4, Starts, First, Batched
  <2> QED
    BY <1>4, <2>2, <2>3, <2>4
<1>5. CASE v = 4
  <2>1. Upgrade5(s)
    BY <1>5, UpgradesAre
  <2>2. Ordered(s)
    BY <2>1 DEF Upgrade5, Ordered, Ops, Batched, InBatch, Follows
  <2>3. Fits(s, "up", 4)
    <3>1. {"shipment_number_sequences"}
          \subseteq REQUIRED_SCHEMA_TABLES \ DOMAIN Schema(4)
      BY TablesAre, NoSchema, OldTablesAre
    <3>2. {} \cap Indexed(4) = {}
      BY TablesAre, NoSchema
    <3> QED
      BY <3>1, <3>2, <2>1 DEF Upgrade5, Fits, Batched
  <2>4. Starts(s)
    BY <2>1 DEF Upgrade5, Starts, First, Batched
  <2> QED
    BY <1>5, <2>2, <2>3, <2>4
<1>6. CASE v = 5
  <2>1. Upgrade6(s)
    BY <1>6, UpgradesAre
  <2>2. Ordered(s)
    BY <2>1 DEF Upgrade6, Ordered, Ops, Batched, InBatch, Follows
  <2>3. Fits(s, "up", 5)
    BY <2>1, TablesAre, NoSchema, OldTablesAre DEF Upgrade6, Fits, Batched
  <2>4. Starts(s)
    BY <2>1 DEF Upgrade6, Starts, First, Batched
  <2> QED
    BY <1>6, <2>2, <2>3, <2>4
<1>7. CASE v = 6
  <2>1. Upgrade7(s)
    BY <1>7, UpgradesAre
  <2>2. Ordered(s)
    BY <2>1 DEF Upgrade7, Ordered, Ops, Batched, InBatch, Follows
  <2>3. Fits(s, "up", 6)
    <3>1. {"clients", "shipment_weight_checks"}
          \subseteq REQUIRED_SCHEMA_TABLES \ DOMAIN Schema(6)
      BY TablesAre, NoSchema, OldTablesAre
    <3>2. {"clients", "shipment_weight_checks"} \cap Indexed(6) = {}
      BY TablesAre, NoSchema
    <3> QED
      BY <3>1, <3>2, <2>1 DEF Upgrade7, Fits, Batched
  <2>4. Starts(s)
    BY <2>1 DEF Upgrade7, Starts, First, Batched
  <2> QED
    BY <1>7, <2>2, <2>3, <2>4
<1>8. CASE v = 7
  <2>1. Upgrade8(s)
    BY <1>8, UpgradesAre
  <2>2. Ordered(s)
    BY <2>1 DEF Upgrade8, Ordered, Ops, Batched, InBatch, Follows
  <2>3. Fits(s, "up", 7)
    <3>1. {"shipment_services"}
          \subseteq REQUIRED_SCHEMA_TABLES \ DOMAIN Schema(7)
      BY TablesAre, NoSchema, OldTablesAre
    <3>2. {"shipment_services"} \cap Indexed(7) = {}
      BY TablesAre, NoSchema
    <3> QED
      BY <3>1, <3>2, <2>1 DEF Upgrade8, Fits, Batched
  <2>4. Starts(s)
    BY <2>1 DEF Upgrade8, Starts, First, Batched
  <2> QED
    BY <1>8, <2>2, <2>3, <2>4
<1>9. CASE v = 8
  <2>1. Upgrade9(s)
    BY <1>9, UpgradesAre
  <2>2. Ordered(s)
    BY <2>1 DEF Upgrade9, Ordered, Ops, Batched, InBatch, Follows
  <2>3. Fits(s, "up", 8)
    <3>1. {"shipment_sms_events"}
          \subseteq REQUIRED_SCHEMA_TABLES \ DOMAIN Schema(8)
      BY TablesAre, NoSchema, OldTablesAre
    <3>2. {"shipment_sms_events"} \cap Indexed(8) = {}
      BY TablesAre, NoSchema
    <3> QED
      BY <3>1, <3>2, <2>1 DEF Upgrade9, Fits, Batched
  <2>4. Starts(s)
    BY <2>1 DEF Upgrade9, Starts, First, Batched
  <2> QED
    BY <1>9, <2>2, <2>3, <2>4
<1> QED
  BY <1>1, <1>2, <1>3, <1>4, <1>5, <1>6, <1>7, <1>8, <1>9

LEMMA DowngradesFit ==
  ASSUME NEW v \in 2..9, NEW s, s = Down[v]
  PROVE  Ordered(s) /\ Fits(s, "down", v) /\ Reverts(s, v)
<1>2. CASE v = 2
  <2>1. Downgrade2(s)
    BY <1>2, DowngradesAre
  <2>2. Ordered(s)
    BY <2>1 DEF Downgrade2, Ordered, Ops, Batched, InBatch, Follows
  <2>3. Fits(s, "down", 2)
    BY <2>1, TablesAre, ShapesAre, OldTablesAre DEF Downgrade2, Fits, Batched
  <2>4. Reverts(s, 2)
    BY <2>1, TablesAre, ShapesAre DEF Downgrade2, Reverts, Removed, Done, Batched
  <2> QED
    BY <1>2, <2>2, <2>3, <2>4
<1>3. CASE v = 3
  <2>1. Downgrade3(s)
    BY <1>3, DowngradesAre
  <2>2. Ordered(s)
    BY <2>1 DEF Downgrade3, Ordered, Ops, Batched, InBatch, Follows
  <2>3. Fits(s, "down", 3)
    BY <2>1, TablesAre, ShapesAre, OldTablesAre DEF Downgrade3, Fits, Batched
  <2>4. Reverts(s, 3)
    BY <2>1, TablesAre, ShapesAre DEF Downgrade3, Reverts, Removed, Done, Batched
  <2> QED
    BY <1>3, <2>2, <2>3, <2>4
<1>4. CASE v = 4
  <2>1. Downgrade4(s)
    BY <1>4, DowngradesAre
  <2>2. Ordered(s)
    BY <2>1 DEF Downgrade4, Ordered, Ops, Batched, InBatch, Follows
  <2>3. Fits(s, "down", 4)
    BY <2>1, TablesAre, ShapesAre, OldTablesAre DEF Downgrade4, Fits, Batched
  <2>4. Reverts(s, 4)
    BY <2>1, TablesAre, ShapesAre DEF Downgrade4, Reverts, Removed, Done, Batched
  <2> QED
    BY <1>4, <2>2, <2>3, <2>4
<1>5. CASE v = 5
  <2>1. Downgrade5(s)
    BY <1>5, DowngradesAre
  <2>2. Ordered(s)
    BY <2>1 DEF Downgrade5, Ordered, Ops, Batched, InBatch, Follows
  <2>3. Fits(s, "down", 5)
    BY <2>1, TablesAre, ShapesAre, OldTablesAre DEF Downgrade5, Fits, Batched
  <2>4. Reverts(s, 5)
    BY <2>1, TablesAre, ShapesAre DEF Downgrade5, Reverts, Removed, Done, Batched
  <2> QED
    BY <1>5, <2>2, <2>3, <2>4
<1>6. CASE v = 6
  <2>1. Downgrade6(s)
    BY <1>6, DowngradesAre
  <2>2. Ordered(s)
    BY <2>1 DEF Downgrade6, Ordered, Ops, Batched, InBatch, Follows
  <2>3. Fits(s, "down", 6)
    BY <2>1, TablesAre, ShapesAre, OldTablesAre DEF Downgrade6, Fits, Batched
  <2>4. Reverts(s, 6)
    BY <2>1, TablesAre, ShapesAre DEF Downgrade6, Reverts, Removed, Done, Batched
  <2> QED
    BY <1>6, <2>2, <2>3, <2>4
<1>7. CASE v = 7
  <2>1. Downgrade7(s)
    BY <1>7, DowngradesAre
  <2>2. Ordered(s)
    BY <2>1 DEF Downgrade7, Ordered, Ops, Batched, InBatch, Follows
  <2>3. Fits(s, "down", 7)
    BY <2>1, TablesAre, ShapesAre, OldTablesAre DEF Downgrade7, Fits, Batched
  <2>4. Reverts(s, 7)
    BY <2>1, TablesAre, ShapesAre DEF Downgrade7, Reverts, Removed, Done, Batched
  <2> QED
    BY <1>7, <2>2, <2>3, <2>4
<1>8. CASE v = 8
  <2>1. Downgrade8(s)
    BY <1>8, DowngradesAre
  <2>2. Ordered(s)
    BY <2>1 DEF Downgrade8, Ordered, Ops, Batched, InBatch, Follows
  <2>3. Fits(s, "down", 8)
    BY <2>1, TablesAre, ShapesAre, OldTablesAre DEF Downgrade8, Fits, Batched
  <2>4. Reverts(s, 8)
    BY <2>1, TablesAre, ShapesAre DEF Downgrade8, Reverts, Removed, Done, Batched
  <2> QED
    BY <1>8, <2>2, <2>3, <2>4
<1>9. CASE v = 9
  <2>1. Downgrade9(s)
    BY <1>9, DowngradesAre
  <2>2. Ordered(s)
    BY <2>1 DEF Downgrade9, Ordered, Ops, Batched, InBatch, Follows
  <2>3. Fits(s, "down", 9)
    BY <2>1, TablesAre, ShapesAre, OldTablesAre DEF Downgrade9, Fits, Batched
  <2>4. Reverts(s, 9)
    BY <2>1, TablesAre, ShapesAre DEF Downgrade9, Reverts, Removed, Done, Batched
  <2> QED
    BY <1>9, <2>2, <2>3, <2>4
<1> QED
  BY <1>2, <1>3, <1>4, <1>5, <1>6, <1>7, <1>8, <1>9


(* ----------------------------- the database ---------------------------- *)

(* The revisions that have shaped a table.                                 *)
Marks == SUBSET (1..9)

Tables == UNION {[D -> Marks] : D \in SUBSET REQUIRED_SCHEMA_TABLES}
Copy == [shape : Marks, filled : BOOLEAN, indexed : BOOLEAN]
Copies == UNION {[D -> Copy] : D \in SUBSET Batched}
Numbers == [value : 0..MaxNumber, exact : BOOLEAN]

Databases == [version : 0..9, tables : Tables, indexed : SUBSET REQUIRED_SCHEMA_TABLES,
              copies : Copies, filled : SUBSET OldTables, numbers : SUBSET Numbers, next : Nat]

Db(version, tables, indexed, copies, filled, numbers, next) ==
  [version |-> version, tables |-> tables, indexed |-> indexed, copies |-> copies,
   filled |-> filled, numbers |-> numbers, next |-> next]

Ahead(db) == db.next # 0 => \A i \in db.numbers : i.exact => i.value < db.next

Sound(db) == db \in Databases /\ db.indexed \subseteq DOMAIN db.tables /\ Ahead(db)

LEMMA TablesIs ==
  ASSUME NEW D \in SUBSET REQUIRED_SCHEMA_TABLES, NEW f \in [D -> Marks]
  PROVE  f \in Tables
BY DEF Tables

LEMMA CopiesIs ==
  ASSUME NEW D \in SUBSET Batched, NEW f \in [D -> Copy]
  PROVE  f \in Copies
BY DEF Copies

LEMMA MapsAre ==
  ASSUME NEW db \in Databases
  PROVE  /\ DOMAIN db.tables \subseteq REQUIRED_SCHEMA_TABLES
         /\ db.tables \in [DOMAIN db.tables -> Marks]
         /\ DOMAIN db.copies \subseteq Batched
         /\ db.copies \in [DOMAIN db.copies -> Copy]
<1>1. db.tables \in Tables /\ db.copies \in Copies
  BY DEF Databases
<1>2. PICK D \in SUBSET REQUIRED_SCHEMA_TABLES : db.tables \in [D -> Marks]
  BY <1>1 DEF Tables
<1>3. PICK E \in SUBSET Batched : db.copies \in [E -> Copy]
  BY <1>1 DEF Copies
<1> QED
  BY <1>2, <1>3

LEMMA WithIs ==
  ASSUME NEW D, NEW S, NEW f \in [D -> S], NEW x, NEW value \in S
  PROVE  /\ With(f, x, value) \in [D \cup {x} -> S]
         /\ With(f, x, value)[x] = value
         /\ \A y \in D : y # x => With(f, x, value)[y] = f[y]
BY DEF With

LEMMA WithoutIs ==
  ASSUME NEW D, NEW S, NEW f \in [D -> S], NEW x
  PROVE  /\ Without(f, x) \in [D \ {x} -> S]
         /\ \A y \in D \ {x} : Without(f, x)[y] = f[y]
BY DEF Without

(* What a statement does.                                                  *)
LEMMA CreateIs ==
  ASSUME NEW db \in Databases, NEW s, s.op = "create"
  PROVE  Effect(s, db) =
         Db(db.version, With(db.tables, s.table, {db.version + 1}), db.indexed, db.copies,
            IF s.table \in OldTables THEN db.filled \cup {s.table} ELSE db.filled,
            db.numbers, db.next)
BY DEF Effect, Db, Databases

LEMMA IndexIs ==
  ASSUME NEW db \in Databases, NEW s, s.op = "index"
  PROVE  Effect(s, db) =
         Db(db.version, db.tables, db.indexed \cup {s.table}, db.copies, db.filled,
            db.numbers, db.next)
BY DEF Effect, Db, Databases

LEMMA UnindexIs ==
  ASSUME NEW db \in Databases, NEW s, s.op = "unindex"
  PROVE  Effect(s, db) =
         Db(db.version, db.tables, db.indexed \ {s.table}, db.copies, db.filled,
            db.numbers, db.next)
BY DEF Effect, Db, Databases

LEMMA DropIs ==
  ASSUME NEW db \in Databases, NEW s, s.op = "drop"
  PROVE  Effect(s, db) =
         Db(db.version, Without(db.tables, s.table), db.indexed \ {s.table}, db.copies,
            db.filled \ {s.table}, db.numbers,
            IF s.table = "shipment_number_sequences" THEN 0 ELSE db.next)
BY DEF Effect, Dropped, Db, Databases

LEMMA TmpIs ==
  ASSUME NEW db \in Databases, NEW s, s.op = "tmp"
  PROVE  Effect(s, db) =
         Db(db.version, db.tables, db.indexed,
            With(db.copies, s.table,
                 [shape |-> Reshaped(db, s.table), filled |-> FALSE,
                  indexed |-> s.table \in db.indexed]),
            db.filled, db.numbers, db.next)
BY DEF Effect, Db, Databases

LEMMA CopyIs ==
  ASSUME NEW db \in Databases, NEW s, s.op = "copy"
  PROVE  Effect(s, db) =
         Db(db.version, db.tables, db.indexed,
            [db.copies EXCEPT ![s.table] =
               [db.copies[s.table] EXCEPT !.filled = s.table \in db.filled]],
            db.filled, db.numbers, db.next)
BY DEF Effect, Db, Databases

LEMMA RenameIs ==
  ASSUME NEW db \in Databases, NEW s, s.op = "rename"
  PROVE  Effect(s, db) =
         Db(db.version, With(db.tables, s.table, db.copies[s.table].shape),
            IF db.copies[s.table].indexed THEN db.indexed \cup {s.table} ELSE db.indexed,
            Without(db.copies, s.table),
            IF db.copies[s.table].filled THEN db.filled \cup {s.table} ELSE db.filled,
            db.numbers, db.next)
BY DEF Effect, Db, Databases

LEMMA SequenceIs ==
  ASSUME NEW db \in Databases, NEW s, s.op = "sequence"
  PROVE  Effect(s, db) =
         Db(db.version, db.tables, db.indexed, db.copies, db.filled, db.numbers,
            highest_compatible(db.numbers) + 1)
BY DEF Effect, Db, Databases

LEMMA BarcodeIs ==
  ASSUME NEW db \in Databases, NEW s, s.op = "barcode"
  PROVE  Effect(s, db) =
         Db(db.version, [db.tables EXCEPT ![s.table] = db.tables[s.table] \ {6}],
            db.indexed, db.copies, db.filled, db.numbers, db.next)
BY DEF Effect, Db, Databases

(* Every set of natural numbers that is not empty has a least one.         *)
LEMMA Least ==
  ASSUME NEW S, S \subseteq Nat, S # {}
  PROVE  \E x \in S : \A y \in S : x <= y
<1>0. IsWellFoundedOn(OpToRel(<, Nat), Nat)
  BY NatLessThanWellFounded
<1> DEFINE R == OpToRel(<, Nat)
<1>1. IsWellFoundedOn(R, Nat)
  BY <1>0
<1>2. \A x, y \in Nat : <<y, x>> \in R <=> y < x
  BY DEF OpToRel
<1> HIDE DEF R
<1>3. PICK x \in S : \A y \in S : ~(<<y, x>> \in R)
  BY <1>1, WFMin
<1>4. \A y \in S : ~(y < x)
  BY <1>2, <1>3
<1>5. \A y \in S : x <= y
  BY <1>4
<1> QED
  BY <1>5

(* The highest number there is, the least that none is beyond.             *)
LEMMA HighestIs ==
  ASSUME NEW numbers \in SUBSET Numbers
  PROVE  /\ highest_compatible(numbers) \in 0..MaxNumber
         /\ \A i \in numbers : i.exact => i.value <= highest_compatible(numbers)
<1>1. MaxNumber \in Nat /\ \A i \in numbers : i.value \in 0..MaxNumber
  BY BoundsAssumption DEF Numbers
<1> DEFINE S == {n \in 0..MaxNumber : \A i \in numbers : i.exact => i.value <= n}
<1>2. MaxNumber \in S /\ S \subseteq Nat
  BY <1>1
<1>3. PICK n \in S : \A m \in S : n <= m
  <2> HIDE DEF S
  <2> QED
    BY <1>2, Least
<1>4. n = 0 \/ \E i \in numbers : i.exact /\ i.value = n
  <2> SUFFICES ASSUME n # 0, \A i \in numbers : i.exact => i.value # n
               PROVE  FALSE
    OBVIOUS
  <2>1. n - 1 \in 0..MaxNumber /\ n \in Nat /\ ~(n <= n - 1)
    BY <1>1
  <2>2. \A i \in numbers : i.exact => i.value <= n - 1
    BY <1>1, <2>1
  <2> QED
    BY <1>3, <2>1, <2>2
<1>5. /\ n \in 0..MaxNumber /\ \A i \in numbers : i.exact => i.value <= n
      /\ n = 0 \/ \E i \in numbers : i.exact /\ i.value = n
  BY <1>4
<1> HIDE DEF S
<1> QED
  BY <1>5 DEF highest_compatible

(* What a statement needs, to make a database out of a database.           *)
Needs(s, db) ==
  /\ s.op \in Ops
  /\ s.op = "create" => s.table \in REQUIRED_SCHEMA_TABLES /\ db.version < 9
  /\ s.op = "index" => s.table \in DOMAIN db.tables
  /\ s.op = "tmp" =>
       s.table \in Batched \cap DOMAIN db.tables /\ (run.way = "up" => db.version < 9)
  /\ s.op \in {"copy", "rename"} => s.table \in DOMAIN db.copies
  /\ s.op = "barcode" => s.table \in DOMAIN db.tables

LEMMA EffectSound ==
  ASSUME NEW db, Sound(db), NEW s, Needs(s, db), NEW result, result = Effect(s, db)
  PROVE  Sound(result) /\ result.version = db.version /\ result.numbers = db.numbers
<1> DEFINE t == s.table
<1>1. /\ db \in Databases /\ s.op \in Ops /\ db.indexed \subseteq DOMAIN db.tables
      /\ db.version \in 0..9 /\ db.indexed \subseteq REQUIRED_SCHEMA_TABLES
      /\ db.tables \in Tables /\ db.copies \in Copies /\ db.filled \subseteq OldTables
      /\ db.numbers \subseteq Numbers /\ db.next \in Nat
  BY DEF Sound, Needs, Databases
<1>2. /\ DOMAIN db.tables \subseteq REQUIRED_SCHEMA_TABLES
      /\ db.tables \in [DOMAIN db.tables -> Marks]
      /\ DOMAIN db.copies \subseteq Batched
      /\ db.copies \in [DOMAIN db.copies -> Copy]
  BY <1>1, MapsAre
<1>3. Batched \subseteq REQUIRED_SCHEMA_TABLES /\ Batched \subseteq OldTables
  BY OldTablesAre, TablesAre DEF Batched
<1>4. CASE s.op = "create"
  <2>1. PICK tables : tables = With(db.tables, t, {db.version + 1})
    OBVIOUS
  <2>2. PICK filled : filled = IF t \in OldTables THEN db.filled \cup {t} ELSE db.filled
    OBVIOUS
  <2>3. result = Db(db.version, tables, db.indexed, db.copies, filled, db.numbers, db.next)
    BY <1>1, <1>4, <2>1, <2>2, CreateIs
  <2>4. t \in REQUIRED_SCHEMA_TABLES /\ {db.version + 1} \in Marks
    BY <1>1, <1>4 DEF Needs, Marks
  <2>5. tables \in [DOMAIN db.tables \cup {t} -> Marks]
    BY <1>2, <2>1, <2>4, WithIs
  <2>6. tables \in Tables /\ DOMAIN tables = DOMAIN db.tables \cup {t}
    BY <1>2, <2>4, <2>5, TablesIs
  <2>7. filled \subseteq OldTables
    BY <1>1, <2>2
  <2> QED
    BY <1>1, <2>3, <2>6, <2>7 DEF Sound, Db, Databases, Ahead
<1>5. CASE s.op = "index"
  <2>1. result = Db(db.version, db.tables, db.indexed \cup {t}, db.copies, db.filled, db.numbers,
                 db.next)
    BY <1>1, <1>5, IndexIs
  <2>2. t \in DOMAIN db.tables
    BY <1>5 DEF Needs
  <2> QED
    BY <1>1, <1>2, <2>1, <2>2 DEF Sound, Db, Databases, Ahead
<1>6. CASE s.op = "unindex"
  <2>1. result = Db(db.version, db.tables, db.indexed \ {t}, db.copies, db.filled, db.numbers,
                 db.next)
    BY <1>1, <1>6, UnindexIs
  <2> QED
    BY <1>1, <2>1 DEF Sound, Db, Databases, Ahead
<1>7. CASE s.op = "drop"
  <2>1. PICK tables : tables = Without(db.tables, t)
    OBVIOUS
  <2>2. PICK next : next = IF t = "shipment_number_sequences" THEN 0 ELSE db.next
    OBVIOUS
  <2>3. result = Db(db.version, tables, db.indexed \ {t}, db.copies, db.filled \ {t}, db.numbers,
                 next)
    BY <1>1, <1>7, <2>1, <2>2, DropIs
  <2>4. tables \in Tables /\ DOMAIN tables = DOMAIN db.tables \ {t}
    <3>1. tables \in [DOMAIN db.tables \ {t} -> Marks]
      BY <1>2, <2>1, WithoutIs
    <3> QED
      BY <1>2, <3>1, TablesIs
  <2>5. next \in Nat /\ (next = 0 \/ next = db.next)
    BY <1>1, <2>2
  <2> QED
    BY <1>1, <2>3, <2>4, <2>5 DEF Sound, Db, Databases, Ahead
<1>8. CASE s.op = "tmp"
  <2>1. PICK copy : copy = [shape |-> Reshaped(db, t), filled |-> FALSE,
                            indexed |-> t \in db.indexed]
    OBVIOUS
  <2>2. PICK copies : copies = With(db.copies, t, copy)
    OBVIOUS
  <2>3. result = Db(db.version, db.tables, db.indexed, copies, db.filled, db.numbers, db.next)
    BY <1>1, <1>8, <2>1, <2>2, TmpIs
  <2>4. t \in Batched /\ t \in DOMAIN db.tables
    BY <1>8 DEF Needs
  <2>5. Reshaped(db, t) \in Marks
    <3>1. db.tables[t] \subseteq 1..9
      BY <1>2, <2>4 DEF Marks
    <3>2. run.way = "up" => db.version + 1 \in 1..9
      BY <1>1, <1>8 DEF Needs
    <3> QED
      BY <3>1, <3>2 DEF Reshaped, Marks
  <2>6. copy \in Copy
    BY <2>1, <2>5 DEF Copy
  <2>7. copies \in Copies
    <3>1. copies \in [DOMAIN db.copies \cup {t} -> Copy]
      BY <1>2, <2>2, <2>6, WithIs
    <3> QED
      BY <1>2, <2>4, <3>1, CopiesIs
  <2> QED
    BY <1>1, <2>3, <2>7 DEF Sound, Db, Databases, Ahead
<1>9. CASE s.op = "copy"
  <2>1. PICK copy : copy = [db.copies[t] EXCEPT !.filled = t \in db.filled]
    OBVIOUS
  <2>2. PICK copies : copies = [db.copies EXCEPT ![t] = copy]
    OBVIOUS
  <2>3. result = Db(db.version, db.tables, db.indexed, copies, db.filled, db.numbers, db.next)
    BY <1>1, <1>9, <2>1, <2>2, CopyIs
  <2>4. t \in DOMAIN db.copies
    BY <1>9 DEF Needs
  <2>5. copy \in Copy
    <3>1. db.copies[t] \in Copy
      BY <1>2, <2>4
    <3>2. (t \in db.filled) \in BOOLEAN
      OBVIOUS
    <3> QED
      BY <2>1, <3>1, <3>2 DEF Copy
  <2>6. copies \in [DOMAIN db.copies -> Copy]
    BY <1>2, <2>2, <2>4, <2>5
  <2>7. copies \in Copies
    BY <1>2, <2>6, CopiesIs
  <2> QED
    BY <1>1, <2>3, <2>7 DEF Sound, Db, Databases, Ahead
<1>10. CASE s.op = "rename"
  <2>1. PICK tables : tables = With(db.tables, t, db.copies[t].shape)
    OBVIOUS
  <2>2. PICK copies : copies = Without(db.copies, t)
    OBVIOUS
  <2>3. PICK indexed : indexed = IF db.copies[t].indexed THEN db.indexed \cup {t} ELSE db.indexed
    OBVIOUS
  <2>4. PICK filled : filled = IF db.copies[t].filled THEN db.filled \cup {t} ELSE db.filled
    OBVIOUS
  <2>5. result = Db(db.version, tables, indexed, copies, filled, db.numbers, db.next)
    BY <1>1, <1>10, <2>1, <2>2, <2>3, <2>4, RenameIs
  <2>6. t \in DOMAIN db.copies /\ t \in Batched /\ db.copies[t].shape \in Marks
    BY <1>2, <1>10 DEF Needs, Copy
  <2>7. tables \in Tables /\ DOMAIN tables = DOMAIN db.tables \cup {t}
    <3>1. PICK shape \in Marks : shape = db.copies[t].shape
      BY <2>6
    <3>2. tables = With(db.tables, t, shape)
      BY <2>1, <3>1
    <3>3. tables \in [DOMAIN db.tables \cup {t} -> Marks]
      BY <1>2, <3>2, WithIs
    <3> QED
      BY <1>2, <1>3, <2>6, <3>3, TablesIs
  <2>8. copies \in Copies
    <3>1. copies \in [DOMAIN db.copies \ {t} -> Copy]
      BY <1>2, <2>2, WithoutIs
    <3> QED
      BY <1>2, <3>1, CopiesIs
  <2>9. /\ indexed \subseteq DOMAIN tables /\ indexed \subseteq REQUIRED_SCHEMA_TABLES
        /\ filled \subseteq OldTables
    BY <1>1, <1>3, <2>3, <2>4, <2>6, <2>7
  <2> QED
    BY <1>1, <2>5, <2>7, <2>8, <2>9 DEF Sound, Db, Databases, Ahead
<1>11. CASE s.op = "sequence"
  <2>1. PICK next : next = highest_compatible(db.numbers) + 1
    OBVIOUS
  <2>2. result = Db(db.version, db.tables, db.indexed, db.copies, db.filled, db.numbers, next)
    BY <1>1, <1>11, <2>1, SequenceIs
  <2>3. next \in Nat /\ \A i \in db.numbers : i.exact => i.value < next
    <3>1. /\ highest_compatible(db.numbers) \in 0..MaxNumber
          /\ \A i \in db.numbers : i.exact => i.value <= highest_compatible(db.numbers)
      BY <1>1, HighestIs
    <3>2. MaxNumber \in Nat /\ \A i \in db.numbers : i.value \in Nat
      BY <1>1, BoundsAssumption DEF Numbers
    <3> QED
      BY <2>1, <3>1, <3>2
  <2> QED
    BY <1>1, <2>2, <2>3 DEF Sound, Db, Databases, Ahead
<1>12. CASE s.op = "barcode"
  <2>1. PICK tables : tables = [db.tables EXCEPT ![t] = db.tables[t] \ {6}]
    OBVIOUS
  <2>2. result = Db(db.version, tables, db.indexed, db.copies, db.filled, db.numbers, db.next)
    BY <1>1, <1>12, <2>1, BarcodeIs
  <2>3. t \in DOMAIN db.tables
    BY <1>12 DEF Needs
  <2>4. tables \in [DOMAIN db.tables -> Marks]
    BY <1>2, <2>1, <2>3 DEF Marks
  <2>5. tables \in Tables /\ DOMAIN tables = DOMAIN db.tables
    BY <1>2, <2>4, TablesIs
  <2> QED
    BY <1>1, <2>2, <2>5 DEF Sound, Db, Databases, Ahead
<1>13. CASE s.op \in {"check", "fill"}
  <2>1. result = db
    BY <1>13 DEF Effect
  <2> QED
    BY <2>1
<1> QED
  BY <1>1, <1>4, <1>5, <1>6, <1>7, <1>8, <1>9, <1>10, <1>11, <1>12, <1>13 DEF Ops

(* --------------------------- between statements ------------------------ *)

(* The table between its drop and the renaming of its copy, and its copy.  *)
Gone(s, n) == {t \in Batched : n > 0 /\ s[n].op = "drop" /\ s[n].table = t}
Copied(s, n) == {t \in Batched : n > 0 /\ InBatch(s[n]) /\ s[n].table = t}

(* Statement j on the way through a batch.                                 *)
LEMMA PhaseIs ==
  ASSUME NEW s, Ordered(s), NEW j \in 1..Len(s), NEW t, t = s[j].table
  PROVE  /\ s[j].op \in {"create", "index", "unindex", "check", "sequence", "barcode", "fill"}
              => Gone(s, j - 1) = {} /\ Copied(s, j - 1) = {} /\ Gone(s, j) = {} /\ Copied(s, j) = {}
         /\ s[j].op = "drop" /\ t \notin Batched
              => Gone(s, j - 1) = {} /\ Copied(s, j - 1) = {} /\ Gone(s, j) = {} /\ Copied(s, j) = {}
         /\ s[j].op = "tmp"
              => /\ Gone(s, j - 1) = {} /\ Copied(s, j - 1) = {} /\ Gone(s, j) = {}
                 /\ Copied(s, j) = {t} /\ t \in Batched
         /\ s[j].op = "copy"
              => /\ Gone(s, j - 1) = {} /\ Copied(s, j - 1) = {t} /\ Gone(s, j) = {}
                 /\ Copied(s, j) = {t} /\ t \in Batched
         /\ s[j].op = "drop" /\ t \in Batched
              => Gone(s, j - 1) = {} /\ Copied(s, j - 1) = {t} /\ Gone(s, j) = {t} /\ Copied(s, j) = {t}
         /\ s[j].op = "rename"
              => /\ Gone(s, j - 1) = {t} /\ Copied(s, j - 1) = {t} /\ Gone(s, j) = {}
                 /\ Copied(s, j) = {} /\ t \in Batched
<1>1. Len(s) \in Nat /\ s[j].op \in Ops
  BY DEF Ordered
<1>2. CASE j = 1
  <2>1. Gone(s, j - 1) = {} /\ Copied(s, j - 1) = {}
    BY <1>2 DEF Gone, Copied
  <2> QED
    BY <1>1, <1>2, <2>1 DEF Ordered, Follows, InBatch, Gone, Copied, Ops
<1>3. CASE j > 1
  <2>1. PICK i \in 1..Len(s) : i = j - 1
    BY <1>1, <1>3
  <2>2. i > 0 /\ j > 0 /\ i + 1 = j
    BY <2>1
  <2>3. /\ s[i].op \in Ops
        /\ s[i].op \in {"tmp", "copy"} => s[i].table \in Batched
        /\ InBatch(s[i]) =>
             /\ s[j].table = s[i].table
             /\ s[i].op = "tmp" => s[j].op = "copy"
             /\ s[i].op = "copy" => s[j].op = "drop"
             /\ s[i].op = "drop" => s[j].op = "rename"
    BY <2>1, <2>2 DEF Ordered
  <2>4. /\ s[j].op \in {"tmp", "copy", "rename"} => s[j].table \in Batched
        /\ s[j].op = "copy" => s[i].op = "tmp" /\ s[i].table = t
        /\ s[j].op = "drop" /\ t \in Batched => s[i].op = "copy" /\ s[i].table = t
        /\ s[j].op = "rename" => s[i].op = "drop" /\ s[i].table = t
    BY <2>1 DEF Ordered, Follows
  <2> QED
    BY <1>1, <2>1, <2>2, <2>3, <2>4 DEF InBatch, Gone, Copied, Ops
<1> QED
  BY <1>2, <1>3

(* A script begins and ends outside of a batch.                            *)
LEMMA EndsAre ==
  ASSUME NEW s, Ordered(s)
  PROVE  /\ Gone(s, 0) = {} /\ Copied(s, 0) = {}
         /\ Gone(s, Len(s)) = {} /\ Copied(s, Len(s)) = {}
<1>1. Len(s) \in 1..Len(s) /\ ~(Len(s) < Len(s))
  BY DEF Ordered
<1>2. ~InBatch(s[Len(s)])
  BY <1>1 DEF Ordered
<1> QED
  BY <1>2 DEF Gone, Copied, InBatch

LEMMA DoneIs ==
  ASSUME NEW s, NEW j \in Nat, j > 0, NEW ops
  PROVE  /\ Done(s, 0, ops) = {}
         /\ s[j].op \in ops => Done(s, j, ops) = Done(s, j - 1, ops) \cup {s[j].table}
         /\ s[j].op \notin ops => Done(s, j, ops) = Done(s, j - 1, ops)
<1>1. 1..j = (1..(j - 1)) \cup {j} /\ 1..0 = {}
  OBVIOUS
<1> QED
  BY <1>1 DEF Done

(* The shape of a table at revision v, and the one a script gives it.      *)
Shaped(v, t) == {i \in 1..v : t \in Shapes(i)}
Reshape(way, v, t) == IF way = "up" THEN Shaped(v, t) \cup {v + 1} ELSE Shaped(v, t) \ {v}

(* The schema of revision v after the first n statements of a script.      *)
TablesAfter(s, n, v) ==
  (DOMAIN Schema(v) \cup Done(s, n, {"create"})) \ (Removed(s, n) \cup Gone(s, n))

ShapeAfter(s, n, way, v, t) ==
  IF t \in Done(s, n, {"create", "rename", "barcode"}) THEN Reshape(way, v, t) ELSE Shaped(v, t)

IndexedAfter(s, n, v) ==
  (Indexed(v) \cup Done(s, n, {"index"})) \ (Done(s, n, {"unindex"}) \cup Gone(s, n))

IsAfter(db, s, n, way, v) ==
  /\ DOMAIN db.tables = TablesAfter(s, n, v)
  /\ \A t \in DOMAIN db.tables : db.tables[t] = ShapeAfter(s, n, way, v, t)
  /\ db.indexed = IndexedAfter(s, n, v)
  /\ DOMAIN db.copies = Copied(s, n)
  /\ \A t \in DOMAIN db.copies :
       db.copies[t].shape = Reshape(way, v, t) /\ db.copies[t].indexed = (t \in Indexed(v))

LEMMA RemovedIs ==
  ASSUME NEW s, NEW j \in Nat, j > 0
  PROVE  /\ Removed(s, 0) = {}
         /\ s[j].op = "drop" /\ s[j].table \notin Batched
              => Removed(s, j) = Removed(s, j - 1) \cup {s[j].table}
         /\ s[j].op # "drop" \/ s[j].table \in Batched => Removed(s, j) = Removed(s, j - 1)
<1> DEFINE ops == {"drop"}
<1>1. /\ Done(s, 0, ops) = {}
      /\ s[j].op \in ops => Done(s, j, ops) = Done(s, j - 1, ops) \cup {s[j].table}
      /\ s[j].op \notin ops => Done(s, j, ops) = Done(s, j - 1, ops)
  BY DoneIs
<1> QED
  BY <1>1 DEF Removed

(* A table that earlier statements are not about is untouched by them.     *)
LEMMA UntouchedIs ==
  ASSUME NEW s, NEW j \in Nat, j > 0, NEW t, NEW ops,
         \A i \in 1..(j - 1) : s[i].table = t => s[i].op \notin ops
  PROVE  t \notin Done(s, j - 1, ops)
BY DEF Done

LEMMA OldTablesStay ==
  ASSUME NEW v \in 1..9
  PROVE  OldTables \subseteq DOMAIN Schema(v) /\ Batched \subseteq DOMAIN Schema(v)
<1>1. DOMAIN Schema(1) \subseteq DOMAIN Schema(v)
  BY DEF Schema
<1>2. Batched \subseteq OldTables
  BY OldTablesAre, TablesAre DEF Batched
<1> QED
  BY <1>1, <1>2 DEF OldTables

LEMMA SchemaGrows ==
  ASSUME NEW u \in 0..9, NEW v \in 0..u
  PROVE  DOMAIN Schema(v) \subseteq DOMAIN Schema(u)
BY DEF Schema

LEMMA ShapedIs ==
  ASSUME NEW v \in 0..9, NEW t
  PROVE  /\ t \notin DOMAIN Schema(v) => Shaped(v, t) = {}
         /\ t \in DOMAIN Schema(v) => Schema(v)[t] = Shaped(v, t)
BY DEF Schema, Shaped

(* How the sets of a database move with statement j.                       *)
LEMMA TablesMove ==
  ASSUME NEW s, Ordered(s), NEW way, NEW v \in 0..9, Fits(s, way, v),
         NEW j \in 1..Len(s), NEW t, t = s[j].table
  PROVE  /\ s[j].op \in {"create", "rename"}
              => TablesAfter(s, j, v) = TablesAfter(s, j - 1, v) \cup {t}
         /\ s[j].op = "drop" => TablesAfter(s, j, v) = TablesAfter(s, j - 1, v) \ {t}
         /\ s[j].op \notin {"create", "rename", "drop"}
              => TablesAfter(s, j, v) = TablesAfter(s, j - 1, v)
<1>0. j \in Nat /\ j > 0 /\ s[j].op \in Ops
  BY DEF Ordered
<1> DEFINE D == DOMAIN Schema(v)
           C(n) == Done(s, n, {"create"})
           R(n) == Removed(s, n)
<1>1. \A n : TablesAfter(s, n, v) = (D \cup C(n)) \ (R(n) \cup Gone(s, n))
  BY DEF TablesAfter
<1>2. /\ s[j].op = "create" => C(j) = C(j - 1) \cup {t}
      /\ s[j].op # "create" => C(j) = C(j - 1)
  BY <1>0, DoneIs
<1>3. /\ s[j].op = "drop" /\ t \notin Batched => R(j) = R(j - 1) \cup {t}
      /\ s[j].op # "drop" \/ t \in Batched => R(j) = R(j - 1)
  BY <1>0, RemovedIs
<1>4. t \in Batched => t \notin R(j - 1)
  BY DEF Removed
<1> HIDE DEF D, C, R
<1>5. CASE s[j].op = "create"
  <2>1. t \notin Done(s, j - 1, {"drop"})
    BY <1>0, <1>5, UntouchedIs DEF Fits
  <2>2. t \notin R(j - 1)
    BY <2>1 DEF R, Removed
  <2>3. Gone(s, j) = {} /\ Gone(s, j - 1) = {}
    BY <1>5, PhaseIs
  <2> QED
    BY <1>1, <1>2, <1>3, <1>5, <2>2, <2>3
<1>6. CASE s[j].op = "rename"
  <2>1. Gone(s, j) = {} /\ Gone(s, j - 1) = {t} /\ t \in Batched
    BY <1>6, PhaseIs
  <2>2. v > 0
    BY <1>6 DEF Fits
  <2>3. t \in D
    BY <2>1, <2>2, OldTablesStay DEF D
  <2> QED
    BY <1>1, <1>2, <1>3, <1>4, <1>6, <2>1, <2>3
<1>7. CASE s[j].op = "drop" /\ t \in Batched
  <2>1. Gone(s, j) = {t} /\ Gone(s, j - 1) = {}
    BY <1>7, PhaseIs
  <2> QED
    BY <1>1, <1>2, <1>3, <1>7, <2>1
<1>8. CASE s[j].op = "drop" /\ t \notin Batched
  <2>1. Gone(s, j) = {} /\ Gone(s, j - 1) = {}
    BY <1>8, PhaseIs
  <2> QED
    BY <1>1, <1>2, <1>3, <1>8, <2>1
<1>9. CASE s[j].op \notin {"create", "rename", "drop"}
  <2>1. Gone(s, j) = {} /\ Gone(s, j - 1) = {}
    BY <1>0, <1>9, PhaseIs DEF Ops
  <2> QED
    BY <1>1, <1>2, <1>3, <1>9, <2>1
<1> QED
  BY <1>5, <1>6, <1>7, <1>8, <1>9

IndexesMoved(s, j, v) ==
  /\ s[j].op = "index" => /\ s[j].table \notin IndexedAfter(s, j - 1, v)
                          /\ IndexedAfter(s, j, v) = IndexedAfter(s, j - 1, v) \cup {s[j].table}
  /\ s[j].op = "unindex" => s[j].table \in IndexedAfter(s, j - 1, v)
  /\ s[j].op \in {"unindex", "drop"}
       => IndexedAfter(s, j, v) = IndexedAfter(s, j - 1, v) \ {s[j].table}
  /\ s[j].op = "tmp" => (s[j].table \in IndexedAfter(s, j - 1, v) <=> s[j].table \in Indexed(v))
  /\ s[j].op = "rename" /\ s[j].table \in Indexed(v)
       => IndexedAfter(s, j, v) = IndexedAfter(s, j - 1, v) \cup {s[j].table}
  /\ s[j].op = "rename" /\ s[j].table \notin Indexed(v)
       => IndexedAfter(s, j, v) = IndexedAfter(s, j - 1, v)
  /\ s[j].op \notin {"index", "unindex", "drop", "rename"}
       => IndexedAfter(s, j, v) = IndexedAfter(s, j - 1, v)

LEMMA IndexesMove ==
  ASSUME NEW s, Ordered(s), NEW way \in {"up", "down"}, NEW v \in 0..9, Fits(s, way, v),
         NEW j \in 1..Len(s)
  PROVE  IndexesMoved(s, j, v)
<1> PICK t : t = s[j].table
  OBVIOUS
<1>0. /\ j \in Nat /\ j > 0 /\ s[j].op \in Ops
      /\ \A i \in 1..(j - 1) : i \in 1..Len(s)
  BY DEF Ordered
<1> DEFINE I == Indexed(v)
           A(n) == Done(s, n, {"index"})
           U(n) == Done(s, n, {"unindex"})
<1>1. \A n : IndexedAfter(s, n, v) = (I \cup A(n)) \ (U(n) \cup Gone(s, n))
  BY DEF IndexedAfter
<1>2. /\ s[j].op = "index" => A(j) = A(j - 1) \cup {t}
      /\ s[j].op # "index" => A(j) = A(j - 1)
  BY <1>0, DoneIs
<1>3. /\ s[j].op = "unindex" => U(j) = U(j - 1) \cup {t}
      /\ s[j].op # "unindex" => U(j) = U(j - 1)
  BY <1>0, DoneIs
<1>4. way = "up" => U(j - 1) = {}
  BY <1>0 DEF Done, Fits
<1>5. way = "down" => A(j - 1) = {}
  BY <1>0 DEF Done, Fits
<1>6. v > 0 /\ t \in Batched => t \notin A(j - 1) /\ t \notin U(j - 1)
  BY <1>0 DEF Done, Fits
<1>7. CASE s[j].op = "index"
  <2>1. way = "up" /\ t \notin I
    BY <1>7 DEF Fits
  <2>2. t \notin A(j - 1)
    BY <1>0, <1>7, UntouchedIs DEF Fits
  <2>3. Gone(s, j) = {} /\ Gone(s, j - 1) = {}
    BY <1>7, PhaseIs
  <2> HIDE DEF I, A, U
  <2> QED
    BY <1>1, <1>2, <1>3, <1>4, <1>7, <2>1, <2>2, <2>3 DEF IndexesMoved
<1>8. CASE s[j].op = "unindex"
  <2>1. way = "down" /\ t \in I
    BY <1>8 DEF Fits
  <2>2. t \notin U(j - 1)
    BY <1>0, <1>8, UntouchedIs DEF Fits
  <2>3. Gone(s, j) = {} /\ Gone(s, j - 1) = {}
    BY <1>8, PhaseIs
  <2> HIDE DEF I, A, U
  <2> QED
    BY <1>1, <1>2, <1>3, <1>5, <1>8, <2>1, <2>2, <2>3 DEF IndexesMoved
<1>9. CASE s[j].op = "drop" /\ t \in Batched
  <2>1. Gone(s, j) = {t} /\ Gone(s, j - 1) = {}
    BY <1>9, PhaseIs
  <2> HIDE DEF I, A, U
  <2> QED
    BY <1>1, <1>2, <1>3, <1>9, <2>1 DEF IndexesMoved
<1>10. CASE s[j].op = "drop" /\ t \notin Batched
  <2>1. Gone(s, j) = {} /\ Gone(s, j - 1) = {}
    BY <1>10, PhaseIs
  <2>2. way = "down"
    BY <1>10 DEF Fits
  <2>3. t \in I => t \in U(j - 1)
    <3>1. t \in I => \E i \in 1..(j - 1) : s[i].op = "unindex" /\ s[i].table = t
      BY <1>10 DEF Fits
    <3> QED
      BY <3>1 DEF Done
  <2> HIDE DEF I, A, U
  <2> QED
    BY <1>1, <1>2, <1>3, <1>5, <1>10, <2>1, <2>2, <2>3 DEF IndexesMoved
<1>11. CASE s[j].op = "tmp"
  <2>1. Gone(s, j) = {} /\ Gone(s, j - 1) = {} /\ t \in Batched
    BY <1>11, PhaseIs
  <2>2. v > 0
    BY <1>11 DEF Fits
  <2> HIDE DEF I, A, U
  <2>3. IndexedAfter(s, j, v) = IndexedAfter(s, j - 1, v)
    BY <1>1, <1>2, <1>3, <1>11, <2>1
  <2>4. t \in IndexedAfter(s, j - 1, v) <=> t \in I
    BY <1>1, <1>6, <2>1, <2>2
  <2> QED
    BY <1>11, <2>3, <2>4 DEF I, IndexesMoved
<1>12. CASE s[j].op = "rename"
  <2>1. Gone(s, j) = {} /\ Gone(s, j - 1) = {t} /\ t \in Batched
    BY <1>12, PhaseIs
  <2>2. v > 0
    BY <1>12 DEF Fits
  <2> HIDE DEF I, A, U
  <2>3. IndexedAfter(s, j, v) = IF t \in I THEN IndexedAfter(s, j - 1, v) \cup {t}
                                ELSE IndexedAfter(s, j - 1, v)
    BY <1>1, <1>2, <1>3, <1>6, <1>12, <2>1, <2>2
  <2> QED
    BY <1>12, <2>3 DEF I, IndexesMoved
<1>13. CASE s[j].op \in {"create", "copy", "check", "sequence", "barcode", "fill"}
  <2>1. Gone(s, j) = {} /\ Gone(s, j - 1) = {}
    BY <1>13, PhaseIs
  <2> HIDE DEF I, A, U
  <2> QED
    BY <1>1, <1>2, <1>3, <1>13, <2>1 DEF IndexesMoved
<1> QED
  BY <1>0, <1>7, <1>8, <1>9, <1>10, <1>11, <1>12, <1>13 DEF Ops, IndexesMoved

ShapeMoved(s, j, way, v, x) ==
  /\ s[j].op \in {"create", "rename", "barcode"} /\ x = s[j].table
       => ShapeAfter(s, j, way, v, x) = Reshape(way, v, x)
  /\ s[j].op \notin {"create", "rename", "barcode"} \/ x # s[j].table
       => ShapeAfter(s, j, way, v, x) = ShapeAfter(s, j - 1, way, v, x)

LEMMA ShapesMove ==
  ASSUME NEW s, NEW way, NEW v, NEW j \in Nat, j > 0, NEW x
  PROVE  ShapeMoved(s, j, way, v, x)
<1> DEFINE ops == {"create", "rename", "barcode"}
<1>1. /\ s[j].op \in ops => Done(s, j, ops) = Done(s, j - 1, ops) \cup {s[j].table}
      /\ s[j].op \notin ops => Done(s, j, ops) = Done(s, j - 1, ops)
  BY DoneIs
<1> QED
  BY <1>1 DEF ShapeAfter, ShapeMoved

LEMMA DbIs ==
  ASSUME NEW version, NEW tables, NEW indexed, NEW copies, NEW filled, NEW numbers, NEW next,
         NEW db, db = Db(version, tables, indexed, copies, filled, numbers, next)
  PROVE  /\ db.version = version /\ db.tables = tables /\ db.indexed = indexed
         /\ db.copies = copies /\ db.filled = filled /\ db.numbers = numbers /\ db.next = next
BY DEF Db

(* On an orderly database every statement of a script is possible, and     *)
(* leaves what the statements up to it should leave.                       *)
LEMMA AfterStatement ==
  ASSUME NEW way \in {"up", "down"}, run.way = way, NEW v \in 0..9, Legal(way, v),
         NEW s, Ordered(s), Fits(s, way, v), NEW j \in 1..Len(s),
         NEW db, Sound(db), db.version = v, IsAfter(db, s, j - 1, way, v),
         NEW result, result = Effect(s[j], db)
  PROVE  Possible(s[j], db) /\ IsAfter(result, s, j, way, v)
<1> PICK t : t = s[j].table
  OBVIOUS
<1>0. j \in Nat /\ j > 0 /\ s[j].op \in Ops /\ \A i \in 1..(j - 1) : i \in 1..Len(s)
  BY DEF Ordered
<1>1. db \in Databases /\ db.indexed \subseteq DOMAIN db.tables
  BY DEF Sound
<1>2. /\ db.tables \in [DOMAIN db.tables -> Marks]
      /\ db.copies \in [DOMAIN db.copies -> Copy]
  BY <1>1, MapsAre
<1>3. /\ DOMAIN db.tables = TablesAfter(s, j - 1, v)
      /\ \A x \in DOMAIN db.tables : db.tables[x] = ShapeAfter(s, j - 1, way, v, x)
      /\ db.indexed = IndexedAfter(s, j - 1, v)
      /\ DOMAIN db.copies = Copied(s, j - 1)
      /\ \A x \in DOMAIN db.copies : /\ db.copies[x].shape = Reshape(way, v, x)
                                     /\ db.copies[x].indexed = (x \in Indexed(v))
  BY DEF IsAfter
<1>4. /\ s[j].op \in {"create", "rename"}
           => TablesAfter(s, j, v) = TablesAfter(s, j - 1, v) \cup {t}
      /\ s[j].op = "drop" => TablesAfter(s, j, v) = TablesAfter(s, j - 1, v) \ {t}
      /\ s[j].op \notin {"create", "rename", "drop"}
           => TablesAfter(s, j, v) = TablesAfter(s, j - 1, v)
  BY TablesMove
<1>5. /\ s[j].op = "index" => /\ t \notin IndexedAfter(s, j - 1, v)
                              /\ IndexedAfter(s, j, v) = IndexedAfter(s, j - 1, v) \cup {t}
      /\ s[j].op = "unindex" => t \in IndexedAfter(s, j - 1, v)
      /\ s[j].op \in {"unindex", "drop"}
           => IndexedAfter(s, j, v) = IndexedAfter(s, j - 1, v) \ {t}
      /\ s[j].op = "tmp" => (t \in IndexedAfter(s, j - 1, v) <=> t \in Indexed(v))
      /\ s[j].op = "rename" /\ t \in Indexed(v)
           => IndexedAfter(s, j, v) = IndexedAfter(s, j - 1, v) \cup {t}
      /\ s[j].op = "rename" /\ t \notin Indexed(v)
           => IndexedAfter(s, j, v) = IndexedAfter(s, j - 1, v)
      /\ s[j].op \notin {"index", "unindex", "drop", "rename"}
           => IndexedAfter(s, j, v) = IndexedAfter(s, j - 1, v)
  BY IndexesMove DEF IndexesMoved
<1>6. \A x :
        /\ s[j].op \in {"create", "rename", "barcode"} /\ x = t
             => ShapeAfter(s, j, way, v, x) = Reshape(way, v, x)
        /\ s[j].op \notin {"create", "rename", "barcode"} \/ x # t
             => ShapeAfter(s, j, way, v, x) = ShapeAfter(s, j - 1, way, v, x)
  <2> TAKE x
  <2>1. j \in Nat /\ j > 0 /\ t = s[j].table
    BY <1>0
  <2>2. ShapeMoved(s, j, way, v, x)
    BY <2>1, ShapesMove
  <2> QED
    BY <2>1, <2>2 DEF ShapeMoved
<1>7. CASE s[j].op = "create"
  <2>1. way = "up" /\ t \notin DOMAIN Schema(v)
    BY <1>7 DEF Fits
  <2>2. Copied(s, j) = {} /\ Copied(s, j - 1) = {}
    BY <1>7, PhaseIs
  <2>3. t \notin TablesAfter(s, j - 1, v)
    <3>1. t \notin Done(s, j - 1, {"create"})
      BY <1>0, <1>7, UntouchedIs DEF Fits
    <3> QED
      BY <2>1, <3>1 DEF TablesAfter
  <2>4. Possible(s[j], db)
    BY <1>3, <1>7, <2>3 DEF Possible
  <2>5. {v + 1} = Reshape(way, v, t)
    BY <2>1, ShapedIs DEF Reshape
  <2>6. PICK mark \in Marks : mark = {v + 1}
    <3>1. v + 1 \in 1..9
      BY <1>7 DEF Fits, Legal
    <3> QED
      BY <3>1 DEF Marks
  <2>7. PICK tables : tables = With(db.tables, t, mark)
    OBVIOUS
  <2>8. /\ DOMAIN tables = DOMAIN db.tables \cup {t} /\ tables[t] = mark
        /\ \A y \in DOMAIN db.tables : y # t => tables[y] = db.tables[y]
    BY <2>7 DEF With
  <2>9. PICK filled : filled = IF t \in OldTables THEN db.filled \cup {t} ELSE db.filled
    OBVIOUS
  <2>10. result = Db(v, tables, db.indexed, db.copies, filled, db.numbers, db.next)
    BY <1>1, <1>7, <2>6, <2>7, <2>9, CreateIs
  <2>11. result.tables = tables /\ result.indexed = db.indexed /\ result.copies = db.copies
    BY <2>10, DbIs
  <2>12. tables[t] = Reshape(way, v, t)
    BY <2>5, <2>6, <2>8
  <2>13. \A x \in DOMAIN tables : tables[x] = ShapeAfter(s, j, way, v, x)
    BY <1>3, <1>6, <1>7, <2>8, <2>12
  <2> QED
    BY <1>3, <1>4, <1>5, <1>7, <2>2, <2>4, <2>8, <2>11, <2>13 DEF IsAfter
<1>8. CASE s[j].op = "index"
  <2>2. Copied(s, j) = {} /\ Copied(s, j - 1) = {}
    BY <1>8, PhaseIs
  <2>3. Possible(s[j], db)
    BY <1>3, <1>5, <1>8 DEF Possible
  <2>4. result = Db(v, db.tables, db.indexed \cup {t}, db.copies, db.filled, db.numbers, db.next)
    BY <1>1, <1>8, IndexIs
  <2>5. /\ result.tables = db.tables /\ result.indexed = db.indexed \cup {t}
        /\ result.copies = db.copies
    BY <2>4, DbIs
  <2> QED
    BY <1>3, <1>4, <1>5, <1>6, <1>8, <2>2, <2>3, <2>5 DEF IsAfter
<1>9. CASE s[j].op = "unindex"
  <2>2. Copied(s, j) = {} /\ Copied(s, j - 1) = {}
    BY <1>9, PhaseIs
  <2>3. Possible(s[j], db)
    BY <1>3, <1>5, <1>9 DEF Possible
  <2>4. result = Db(v, db.tables, db.indexed \ {t}, db.copies, db.filled, db.numbers, db.next)
    BY <1>1, <1>9, UnindexIs
  <2>5. /\ result.tables = db.tables /\ result.indexed = db.indexed \ {t}
        /\ result.copies = db.copies
    BY <2>4, DbIs
  <2> QED
    BY <1>3, <1>4, <1>5, <1>6, <1>9, <2>2, <2>3, <2>5 DEF IsAfter
<1>10. CASE s[j].op = "drop"
  <2>1. Copied(s, j) = Copied(s, j - 1)
    <3>1. CASE t \in Batched
      BY <1>10, <3>1, PhaseIs
    <3>2. CASE t \notin Batched
      BY <1>10, <3>2, PhaseIs
    <3> QED
      BY <3>1, <3>2
  <2>2. t \in DOMAIN db.tables
    <3>1. CASE t \in Batched
      <4>1. Gone(s, j - 1) = {} /\ t \notin Removed(s, j - 1)
        BY <1>10, <3>1, PhaseIs DEF Removed
      <4>2. v \in 1..9
        BY <1>10 DEF Fits
      <4> QED
        BY <1>3, <3>1, <4>1, <4>2, OldTablesStay DEF TablesAfter
    <3>2. CASE t \notin Batched
      <4>1. Gone(s, j - 1) = {}
        BY <1>10, <3>2, PhaseIs
      <4>2. /\ t \in DOMAIN Schema(v)
            /\ \A i \in 1..(j - 1) : s[i].table = t => s[i].op = "unindex"
        BY <1>10, <3>2 DEF Fits
      <4>3. t \notin Done(s, j - 1, {"drop"})
        BY <4>2 DEF Done
      <4> QED
        BY <1>3, <4>1, <4>2, <4>3 DEF TablesAfter, Removed
    <3> QED
      BY <3>1, <3>2
  <2>3. Possible(s[j], db)
    BY <1>10, <2>2 DEF Possible
  <2>4. PICK tables : tables = Without(db.tables, t)
    OBVIOUS
  <2>5. /\ DOMAIN tables = DOMAIN db.tables \ {t}
        /\ \A y \in DOMAIN db.tables \ {t} : tables[y] = db.tables[y]
    BY <2>4 DEF Without
  <2>6. PICK next : next = IF t = "shipment_number_sequences" THEN 0 ELSE db.next
    OBVIOUS
  <2>7. result = Db(v, tables, db.indexed \ {t}, db.copies, db.filled \ {t}, db.numbers, next)
    BY <1>1, <1>10, <2>4, <2>6, DropIs
  <2>8. /\ result.tables = tables /\ result.indexed = db.indexed \ {t}
        /\ result.copies = db.copies
    BY <2>7, DbIs
  <2>9. \A x \in DOMAIN tables : tables[x] = ShapeAfter(s, j, way, v, x)
    BY <1>3, <1>6, <1>10, <2>5
  <2> QED
    BY <1>3, <1>4, <1>5, <1>10, <2>1, <2>3, <2>5, <2>8, <2>9 DEF IsAfter
<1>11. CASE s[j].op = "tmp"
  <2>1. Copied(s, j) = {t} /\ Copied(s, j - 1) = {} /\ Gone(s, j - 1) = {} /\ t \in Batched
    BY <1>11, PhaseIs
  <2>2. v \in 1..9
    BY <1>11 DEF Fits
  <2>3. t \in DOMAIN db.tables
    <3>1. t \notin Removed(s, j - 1)
      BY <2>1 DEF Removed
    <3> QED
      BY <1>3, <2>1, <2>2, <3>1, OldTablesStay DEF TablesAfter
  <2>4. Possible(s[j], db)
    BY <1>3, <1>11, <2>1, <2>3 DEF Possible
  <2>5. Reshaped(db, t) = Reshape(way, v, t)
    <3>1. \A i \in 1..(j - 1) : s[i].table = t => s[i].op \in {"barcode", "fill"}
      BY <1>11 DEF Fits
    <3>2. t \in Done(s, j - 1, {"create", "rename", "barcode"}) => way = "down"
      <4>1. t \in Done(s, j - 1, {"create", "rename", "barcode"})
              => \E i \in 1..(j - 1) : s[i].op = "barcode"
        BY <3>1 DEF Done
      <4> QED
        BY <1>0, <4>1 DEF Fits
    <3>3. db.tables[t] = ShapeAfter(s, j - 1, way, v, t)
      BY <1>3, <2>3
    <3> QED
      BY <3>2, <3>3 DEF Reshaped, Reshape, ShapeAfter
  <2>6. PICK copy : copy = [shape |-> Reshaped(db, t), filled |-> FALSE,
                            indexed |-> t \in db.indexed]
    OBVIOUS
  <2>7. PICK copies : copies = With(db.copies, t, copy)
    OBVIOUS
  <2>8. DOMAIN copies = {t} /\ copies[t] = copy
    BY <1>3, <2>1, <2>7 DEF With
  <2>9. result = Db(v, db.tables, db.indexed, copies, db.filled, db.numbers, db.next)
    BY <1>1, <1>11, <2>6, <2>7, TmpIs
  <2>10. result.tables = db.tables /\ result.indexed = db.indexed /\ result.copies = copies
    BY <2>9, DbIs
  <2>11. copy.shape = Reshape(way, v, t) /\ copy.indexed = (t \in Indexed(v))
    BY <1>3, <1>5, <1>11, <2>5, <2>6
  <2> QED
    BY <1>3, <1>4, <1>5, <1>6, <1>11, <2>1, <2>4, <2>8, <2>10, <2>11 DEF IsAfter
<1>12. CASE s[j].op = "copy"
  <2>1. Copied(s, j) = {t} /\ Copied(s, j - 1) = {t}
    BY <1>12, PhaseIs
  <2>2. Possible(s[j], db)
    BY <1>12 DEF Possible
  <2>3. PICK copy : copy = [db.copies[t] EXCEPT !.filled = t \in db.filled]
    OBVIOUS
  <2>4. PICK copies : copies = [db.copies EXCEPT ![t] = copy]
    OBVIOUS
  <2>5. result = Db(v, db.tables, db.indexed, copies, db.filled, db.numbers, db.next)
    BY <1>1, <1>12, <2>3, <2>4, CopyIs
  <2>6. result.tables = db.tables /\ result.indexed = db.indexed /\ result.copies = copies
    BY <2>5, DbIs
  <2>7. t \in DOMAIN db.copies /\ db.copies[t] \in Copy
    BY <1>2, <1>3, <2>1
  <2>8. copy.shape = db.copies[t].shape /\ copy.indexed = db.copies[t].indexed
    BY <2>3, <2>7 DEF Copy
  <2>9. DOMAIN copies = {t} /\ copies[t] = copy
    BY <1>2, <1>3, <2>1, <2>4
  <2> QED
    BY <1>3, <1>4, <1>5, <1>6, <1>12, <2>1, <2>2, <2>6, <2>7, <2>8, <2>9 DEF IsAfter
<1>13. CASE s[j].op = "rename"
  <2>1. Copied(s, j) = {} /\ Copied(s, j - 1) = {t}
    BY <1>13, PhaseIs
  <2>2. Possible(s[j], db)
    BY <1>13 DEF Possible
  <2>3. /\ t \in DOMAIN db.copies /\ db.copies[t].shape \in Marks
        /\ db.copies[t].shape = Reshape(way, v, t) /\ db.copies[t].indexed = (t \in Indexed(v))
    BY <1>2, <1>3, <2>1 DEF Copy
  <2>4. PICK mark \in Marks : mark = db.copies[t].shape
    BY <2>3
  <2>5. PICK tables : tables = With(db.tables, t, mark)
    OBVIOUS
  <2>6. /\ DOMAIN tables = DOMAIN db.tables \cup {t} /\ tables[t] = mark
        /\ \A y \in DOMAIN db.tables : y # t => tables[y] = db.tables[y]
    BY <2>5 DEF With
  <2>7. PICK indexed : indexed = IF db.copies[t].indexed THEN db.indexed \cup {t} ELSE db.indexed
    OBVIOUS
  <2>8. PICK filled : filled = IF db.copies[t].filled THEN db.filled \cup {t} ELSE db.filled
    OBVIOUS
  <2>9. PICK copies : copies = Without(db.copies, t)
    OBVIOUS
  <2>10. DOMAIN copies = {}
    BY <1>3, <2>1, <2>9 DEF Without
  <2>11. result = Db(v, tables, indexed, copies, filled, db.numbers, db.next)
    BY <1>1, <1>13, <2>4, <2>5, <2>7, <2>8, <2>9, RenameIs
  <2>12. result.tables = tables /\ result.indexed = indexed /\ result.copies = copies
    BY <2>11, DbIs
  <2>13. \A x \in DOMAIN tables : tables[x] = ShapeAfter(s, j, way, v, x)
    BY <1>3, <1>6, <1>13, <2>3, <2>4, <2>6
  <2>14. indexed = IndexedAfter(s, j, v)
    BY <1>3, <1>5, <1>13, <2>3, <2>7
  <2> QED
    BY <1>3, <1>4, <1>13, <2>1, <2>2, <2>6, <2>10, <2>12, <2>13, <2>14 DEF IsAfter
<1>14. CASE s[j].op = "barcode"
  <2>1. Copied(s, j) = {} /\ Copied(s, j - 1) = {} /\ Gone(s, j - 1) = {}
    BY <1>14, PhaseIs
  <2>2. /\ way = "down" /\ v = 6 /\ t \in Shapes(6)
        /\ \A i \in 1..(j - 1) : s[i].table # t
    BY <1>14 DEF Fits
  <2>3. t \in DOMAIN db.tables
    <3>1. t \in DOMAIN Schema(6)
      BY <2>2 DEF Schema
    <3>2. t \notin Removed(s, j - 1)
      BY <2>2 DEF Removed, Done
    <3> QED
      BY <1>3, <2>1, <2>2, <3>1, <3>2 DEF TablesAfter
  <2>4. db.tables[t] = Shaped(v, t)
    <3>1. t \notin Done(s, j - 1, {"create", "rename", "barcode"})
      BY <2>2 DEF Done
    <3> QED
      BY <1>3, <2>3, <3>1 DEF ShapeAfter
  <2>5. Possible(s[j], db)
    BY <1>14, <2>2, <2>4 DEF Possible, Shaped
  <2>6. PICK tables : tables = [db.tables EXCEPT ![t] = db.tables[t] \ {6}]
    OBVIOUS
  <2>7. result = Db(v, tables, db.indexed, db.copies, db.filled, db.numbers, db.next)
    BY <1>1, <1>14, <2>6, BarcodeIs
  <2>8. result.tables = tables /\ result.indexed = db.indexed /\ result.copies = db.copies
    BY <2>7, DbIs
  <2>9. /\ DOMAIN tables = DOMAIN db.tables /\ tables[t] = db.tables[t] \ {6}
        /\ \A y \in DOMAIN db.tables : y # t => tables[y] = db.tables[y]
    BY <1>2, <2>3, <2>6
  <2>10. tables[t] = Reshape(way, v, t)
    BY <2>2, <2>4, <2>9 DEF Reshape
  <2>11. \A x \in DOMAIN tables : tables[x] = ShapeAfter(s, j, way, v, x)
    BY <1>3, <1>6, <1>14, <2>9, <2>10
  <2> QED
    BY <1>3, <1>4, <1>5, <1>14, <2>1, <2>5, <2>8, <2>9, <2>11 DEF IsAfter
<1>15. CASE s[j].op \in {"check", "sequence", "fill"}
  <2>1. Copied(s, j) = {} /\ Copied(s, j - 1) = {}
    BY <1>15, PhaseIs
  <2>2. Possible(s[j], db)
    BY <1>15 DEF Possible
  <2>3. result.tables = db.tables /\ result.indexed = db.indexed /\ result.copies = db.copies
    <3>1. CASE s[j].op = "sequence"
      <4>1. PICK next : next = highest_compatible(db.numbers) + 1
        OBVIOUS
      <4>2. result = Db(v, db.tables, db.indexed, db.copies, db.filled, db.numbers, next)
        BY <1>1, <3>1, <4>1, SequenceIs
      <4> QED
        BY <4>2, DbIs
    <3>2. CASE s[j].op \in {"check", "fill"}
      BY <3>2 DEF Effect
    <3> QED
      BY <1>15, <3>1, <3>2
  <2> QED
    BY <1>3, <1>4, <1>5, <1>6, <1>15, <2>1, <2>2, <2>3 DEF IsAfter
<1> QED
  BY <1>0, <1>7, <1>8, <1>9, <1>10, <1>11, <1>12, <1>13, <1>14, <1>15 DEF Ops

(* ------------------------- from schema to schema ----------------------- *)

LEMMA UpgradeDomain ==
  ASSUME NEW v \in 0..8
  PROVE  DOMAIN Up[v + 1] = 1..Len(Up[v + 1])
<1>1. /\ DOMAIN Up[1] = 1..Len(Up[1]) /\ DOMAIN Up[2] = 1..Len(Up[2])
      /\ DOMAIN Up[3] = 1..Len(Up[3]) /\ DOMAIN Up[4] = 1..Len(Up[4])
      /\ DOMAIN Up[5] = 1..Len(Up[5]) /\ DOMAIN Up[6] = 1..Len(Up[6])
      /\ DOMAIN Up[7] = 1..Len(Up[7]) /\ DOMAIN Up[8] = 1..Len(Up[8])
      /\ DOMAIN Up[9] = 1..Len(Up[9])
  BY UpgradesAre DEF Upgrade1, Upgrade2, Upgrade3, Upgrade4, Upgrade5, Upgrade6, Upgrade7,
       Upgrade8, Upgrade9
<1>2. v = 0 \/ v = 1 \/ v = 2 \/ v = 3 \/ v = 4 \/ v = 5 \/ v = 6 \/ v = 7 \/ v = 8
  OBVIOUS
<1> QED
  BY <1>1, <1>2

LEMMA TargetsAre ==
  ASSUME NEW v \in 0..8, NEW ops
  PROVE  Targets(Up[v + 1], ops) = Done(Up[v + 1], Len(Up[v + 1]), ops)
BY UpgradeDomain DEF Targets, Done

(* The old tables are the ones the first upgrade creates.                   *)
LEMMA FirstTables == OldTables = Shapes(1)
<1>1. 1..1 = {1}
  OBVIOUS
<1>2. {Shapes(i) : i \in 1..1} = {Shapes(1)}
  BY <1>1
<1>3. DOMAIN Schema(1) = UNION {Shapes(i) : i \in 1..1}
  BY DEF Schema
<1> QED
  BY <1>2, <1>3 DEF OldTables

(* A database with the tables, indexes and shapes of a revision.           *)
LEMMA SchemaIs ==
  ASSUME NEW r \in 0..9, NEW db \in Databases,
         DOMAIN db.tables = DOMAIN Schema(r),
         \A t \in DOMAIN db.tables : db.tables[t] = Shaped(r, t),
         db.indexed = Indexed(r), DOMAIN db.copies = {}
  PROVE  IsSchema(db, r)
<1>1. /\ db.tables \in [DOMAIN db.tables -> Marks]
      /\ db.copies \in [DOMAIN db.copies -> Copy]
  BY MapsAre
<1>2. db.tables = Schema(r)
  <2>1. PICK f : f = db.tables
    OBVIOUS
  <2>2. PICK g : g = Schema(r)
    OBVIOUS
  <2>3. /\ f = [t \in DOMAIN f |-> f[t]] /\ g = [t \in DOMAIN g |-> g[t]]
        /\ DOMAIN f = DOMAIN g
    BY <1>1, <2>1, <2>2 DEF Schema
  <2>4. \A t \in DOMAIN f : f[t] = g[t]
    BY <2>1, <2>2, ShapedIs
  <2> QED
    BY <2>1, <2>2, <2>3, <2>4
<1>3. db.copies = << >>
  <2>1. PICK f : f = db.copies
    OBVIOUS
  <2>2. f \in [{} -> Copy]
    BY <1>1, <2>1
  <2> QED
    BY <2>1, <2>2
<1> QED
  BY <1>2, <1>3 DEF IsSchema

LEMMA AtStart ==
  ASSUME NEW s, Ordered(s), NEW way, NEW v \in 0..9, NEW db, IsSchema(db, v)
  PROVE  IsAfter(db, s, 0, way, v)
<1>1. /\ Gone(s, 0) = {} /\ Copied(s, 0) = {}
  BY EndsAre
<1>2. Removed(s, 0) = {} /\ \A ops : Done(s, 0, ops) = {}
  BY DEF Removed, Done
<1>3. db.tables = Schema(v) /\ db.indexed = Indexed(v) /\ DOMAIN db.copies = {}
  BY DEF IsSchema
<1>4. \A t \in DOMAIN Schema(v) : Schema(v)[t] = Shaped(v, t)
  BY ShapedIs
<1> QED
  BY <1>1, <1>2, <1>3, <1>4 DEF IsAfter, TablesAfter, IndexedAfter, ShapeAfter

(* At the end of an upgrade the database is of the next revision ...       *)
LEMMA AtEndOfUpgrade ==
  ASSUME NEW v \in 0..8, NEW s, s = Up[v + 1], Ordered(s), Fits(s, "up", v), Starts(s),
         NEW db \in Databases, IsAfter(db, s, Len(s), "up", v)
  PROVE  IsSchema(db, v + 1)
<1> DEFINE n == Len(s)
<1>1. Gone(s, n) = {} /\ Copied(s, n) = {}
  BY EndsAre
<1>2. Removed(s, n) = {} /\ Done(s, n, {"unindex"}) = {} /\ Done(s, n, {"barcode"}) = {}
  BY DEF Starts, Removed, Done
<1>3. /\ DOMAIN Schema(v + 1) = DOMAIN Schema(v) \cup Shapes(v + 1)
      /\ Indexed(v + 1) = Indexed(v) \cup Done(s, n, {"index"})
  BY NextSchema, TargetsAre
<1>4. Shapes(v + 1) = Done(s, n, {"create", "rename"})
  BY TargetsAre DEF Shapes
<1>5. /\ Done(s, n, {"create", "rename"}) = Done(s, n, {"create"}) \cup Done(s, n, {"rename"})
      /\ Done(s, n, {"create", "rename", "barcode"})
           = Done(s, n, {"create", "rename"}) \cup Done(s, n, {"barcode"})
  BY DEF Done
<1>6. Done(s, n, {"rename"}) \subseteq DOMAIN Schema(v)
  <2>1. ASSUME NEW j \in 1..n, s[j].op = "rename" PROVE s[j].table \in DOMAIN Schema(v)
    <3>1. s[j].table \in Batched /\ v \in 1..9
      BY <2>1 DEF Ordered, Fits
    <3> QED
      BY <3>1, OldTablesStay
  <2> QED
    BY <2>1 DEF Done
<1>7. DOMAIN db.tables = DOMAIN Schema(v + 1)
  <2>1. DOMAIN db.tables = DOMAIN Schema(v) \cup Done(s, n, {"create"})
    BY <1>1, <1>2 DEF IsAfter, TablesAfter
  <2>2. Shapes(v + 1) = Done(s, n, {"create"}) \cup Done(s, n, {"rename"})
    BY <1>4, <1>5
  <2> HIDE DEF n
  <2> QED
    BY <1>3, <1>6, <2>1, <2>2
<1>8. db.indexed = Indexed(v + 1) /\ DOMAIN db.copies = {}
  BY <1>1, <1>2, <1>3 DEF IsAfter, IndexedAfter
<1>9. ASSUME NEW t \in DOMAIN db.tables PROVE db.tables[t] = Shaped(v + 1, t)
  <2>1. 1..(v + 1) = (1..v) \cup {v + 1}
    OBVIOUS
  <2>2. Shaped(v + 1, t) = IF t \in Shapes(v + 1) THEN Shaped(v, t) \cup {v + 1} ELSE Shaped(v, t)
    BY <2>1 DEF Shaped
  <2>3. db.tables[t] = ShapeAfter(s, n, "up", v, t)
    BY DEF IsAfter
  <2> QED
    BY <1>2, <1>4, <1>5, <2>2, <2>3 DEF ShapeAfter, Reshape
<1>10. v + 1 \in 0..9
  OBVIOUS
<1> QED
  BY <1>7, <1>8, <1>9, <1>10, SchemaIs

(* ... and at the end of a downgrade of the one before.                    *)
LEMMA AtEndOfDowngrade ==
  ASSUME NEW v \in 2..9, NEW s, Ordered(s), Fits(s, "down", v), Reverts(s, v),
         NEW db \in Databases, IsAfter(db, s, Len(s), "down", v)
  PROVE  IsSchema(db, v - 1)
<1> DEFINE n == Len(s)
<1>0. v - 1 \in 0..8 /\ v - 1 \in 0..9 /\ (v - 1) + 1 = v /\ 1..v = (1..(v - 1)) \cup {v}
      /\ v \in 0..9
  OBVIOUS
<1>1. Gone(s, n) = {} /\ Copied(s, n) = {}
  BY EndsAre
<1>2. Done(s, n, {"create"}) = {} /\ Done(s, n, {"index"}) = {}
  BY DEF Fits, Done
<1>3. /\ DOMAIN Schema(v - 1) \subseteq DOMAIN Schema(v)
      /\ Indexed(v - 1) \subseteq Indexed(v)
  BY <1>0 DEF Schema, Indexed
<1>4. /\ Removed(s, n) = DOMAIN Schema(v) \ DOMAIN Schema(v - 1)
      /\ Done(s, n, {"unindex"}) = Indexed(v) \ Indexed(v - 1)
      /\ Done(s, n, {"rename", "barcode"}) = Shapes(v) \cap DOMAIN Schema(v - 1)
  BY DEF Reverts
<1>5. Done(s, n, {"create", "rename", "barcode"})
        = Done(s, n, {"create"}) \cup Done(s, n, {"rename", "barcode"})
  BY DEF Done
<1>6. DOMAIN db.tables = DOMAIN Schema(v - 1)
  BY <1>1, <1>2, <1>3, <1>4 DEF IsAfter, TablesAfter
<1>7. db.indexed = Indexed(v - 1) /\ DOMAIN db.copies = {}
  BY <1>1, <1>2, <1>3, <1>4 DEF IsAfter, IndexedAfter
<1>8. ASSUME NEW t \in DOMAIN db.tables PROVE db.tables[t] = Shaped(v - 1, t)
  <2>1. Shaped(v, t) = IF t \in Shapes(v) THEN Shaped(v - 1, t) \cup {v} ELSE Shaped(v - 1, t)
    BY <1>0 DEF Shaped
  <2>2. v \notin Shaped(v - 1, t)
    BY DEF Shaped
  <2>3. db.tables[t] = ShapeAfter(s, n, "down", v, t)
    BY DEF IsAfter
  <2> QED
    BY <1>2, <1>4, <1>5, <1>6, <2>1, <2>2, <2>3 DEF ShapeAfter, Reshape
<1> QED
  BY <1>0, <1>6, <1>7, <1>8, SchemaIs

(* A script as alembic runs it on revision v.                              *)
Scripted(s, way, v) ==
  /\ way \in {"up", "down"} /\ v \in 0..9 /\ Legal(way, v)
  /\ s = ScriptOf(way, v) /\ Ordered(s) /\ Fits(s, way, v)
  /\ way = "up" => v \in 0..8 /\ s = Up[v + 1] /\ Starts(s)
  /\ way = "down" => v \in 2..9 /\ s = Down[v] /\ Reverts(s, v)
  /\ v = 0 => \A j \in 1..Len(s) : s[j].table \in OldTables

LEMMA ScriptsAre ==
  ASSUME NEW way, NEW v, Legal(way, v)
  PROVE  Scripted(ScriptOf(way, v), way, v)
<1>1. CASE way = "up"
  <2>1. v \in 0..8
    BY <1>1 DEF Legal
  <2>2. PICK s : s = Up[v + 1]
    OBVIOUS
  <2>3. Ordered(s) /\ Fits(s, "up", v) /\ Starts(s)
    BY <2>1, <2>2, UpgradesFit
  <2>4. v = 0 => \A j \in 1..Len(s) : s[j].table \in OldTables
    <3>1. OldTables = {"users", "couriers", "shipments", "shipment_status_history",
                       "audit_events"}
      BY TablesAre DEF OldTables
    <3> QED
      BY <2>2, <3>1, UpgradesAre DEF Upgrade1
  <2> QED
    BY <1>1, <2>1, <2>2, <2>3, <2>4 DEF Scripted, ScriptOf
<1>2. CASE way = "down"
  <2>1. v \in 2..9
    BY <1>2 DEF Legal
  <2>2. PICK s : s = Down[v]
    OBVIOUS
  <2>3. Ordered(s) /\ Fits(s, "down", v) /\ Reverts(s, v)
    BY <2>1, <2>2, DowngradesFit
  <2> QED
    BY <1>2, <2>1, <2>2, <2>3 DEF Scripted, ScriptOf
<1> QED
  BY <1>1, <1>2 DEF Legal

(* The rows: the oldest tables are there and filled, and so is a copy that *)
(* is to take the place of one; before the first revision, the tables that *)
(* it has created.                                                         *)
RowsOK(s, n, v, open, db) ==
  /\ n > 0 =>
       /\ InBatch(s[n]) => s[n].table \in DOMAIN db.copies
       /\ s[n].op = "copy" \/ (s[n].op = "drop" /\ s[n].table \in Batched)
            => open /\ db.copies[s[n].table].filled
       /\ s[n].op = "create" => s[n].table \in DOMAIN db.tables
  /\ v > 0 => OldTables \ Gone(s, n) \subseteq db.filled \cap DOMAIN db.tables
  /\ v = 0 => ~open /\ Done(s, n, {"create"}) \subseteq db.filled \cap DOMAIN db.tables

LEMMA NeedsMet ==
  ASSUME NEW s, NEW way, run.way = way, NEW v, Scripted(s, way, v), NEW j \in 1..Len(s),
         NEW db, Sound(db), db.version = v, NEW open, RowsOK(s, j - 1, v, open, db),
         Possible(s[j], db)
  PROVE  Needs(s[j], db)
<1>0. /\ Ordered(s) /\ Fits(s, way, v) /\ s[j].op \in Ops /\ v \in 0..9 /\ j \in Nat
      /\ way = "up" => v < 9
  BY DEF Scripted, Ordered
<1>1. s[j].op = "create" => s[j].table \in REQUIRED_SCHEMA_TABLES /\ way = "up"
  BY <1>0 DEF Fits
<1>2. s[j].op = "index" => s[j].table \in DOMAIN db.tables
  <2>1. s[j].op = "index" => /\ j - 1 > 0 /\ s[j - 1].op = "create"
                             /\ s[j - 1].table = s[j].table
    BY <1>0 DEF Ordered, Follows
  <2> QED
    BY <2>1 DEF RowsOK
<1>3. s[j].op = "tmp" => s[j].table \in Batched \cap DOMAIN db.tables
  <2>1. s[j].op = "tmp" => s[j].table \in Batched
    BY <1>0 DEF Ordered
  <2> QED
    BY <2>1 DEF Possible
<1>4. s[j].op \in {"copy", "rename"} => s[j].table \in DOMAIN db.copies
  <2>1. s[j].op \in {"copy", "rename"} =>
          /\ j - 1 > 0 /\ s[j - 1].op \in {"tmp", "drop"} /\ s[j - 1].table = s[j].table
          /\ s[j].table \in Batched
    BY <1>0 DEF Ordered, Follows
  <2> QED
    BY <2>1 DEF RowsOK, InBatch
<1>5. s[j].op = "barcode" => s[j].table \in DOMAIN db.tables
  <2>1. s[j].op = "barcode" => v = 6 /\ s[j].table \in OldTables
    BY <1>0, ShapesAre, OldTablesAre, TablesAre DEF Fits
  <2>2. s[j].op = "barcode" => Gone(s, j - 1) = {}
    BY <1>0, PhaseIs
  <2> QED
    BY <2>1, <2>2 DEF RowsOK
<1> QED
  BY <1>0, <1>1, <1>2, <1>3, <1>4, <1>5 DEF Needs

(* Statement j finds the rows in order, and leaves them so.                *)
Ready(s, way, v, j, open, db) ==
  /\ run.way = way /\ Scripted(s, way, v) /\ j \in 1..Len(s)
  /\ Sound(db) /\ db.version = v /\ RowsOK(s, j - 1, v, open, db) /\ Needs(s[j], db)

Left(s, v, j, open, result) ==
  IF open \/ Opens(s[j]) THEN RowsOK(s, j, v, TRUE, result)
  ELSE RowsOK(s, j, v, FALSE, result) /\ Gone(s, j) = {}

LEMMA RowsStay ==
  ASSUME NEW s, NEW way, NEW v, NEW j, NEW open, NEW db, Ready(s, way, v, j, open, db)
  PROVE  Left(s, v, j, open, Effect(s[j], db))
<1> PICK result : result = Effect(s[j], db)
  OBVIOUS
<1> PICK later \in BOOLEAN : later <=> open \/ Opens(s[j])
  OBVIOUS
<1> SUFFICES ASSUME run.way = way, Scripted(s, way, v), j \in 1..Len(s), Sound(db), db.version = v,
                    RowsOK(s, j - 1, v, open, db), Needs(s[j], db)
             PROVE  RowsOK(s, j, v, later, result) /\ (~later => Gone(s, j) = {})
  BY DEF Ready, Left, RowsOK
<1> PICK t : t = s[j].table
  OBVIOUS
<1>0. /\ Ordered(s) /\ Fits(s, way, v) /\ s[j].op \in Ops /\ v \in 0..9 /\ j \in Nat /\ j > 0
      /\ v = 0 => t \in OldTables
  BY DEF Scripted, Ordered
<1>1. /\ db \in Databases /\ db.indexed \subseteq DOMAIN db.tables
      /\ db.copies \in [DOMAIN db.copies -> Copy] /\ db.tables \in [DOMAIN db.tables -> Marks]
  BY MapsAre DEF Sound
<1>2. /\ v > 0 => OldTables \ Gone(s, j - 1) \subseteq db.filled \cap DOMAIN db.tables
      /\ v = 0 => ~open /\ Done(s, j - 1, {"create"}) \subseteq db.filled \cap DOMAIN db.tables
  BY DEF RowsOK
<1>3. v = 0 => s[j].op \in {"create", "index"}
  BY <1>0 DEF Fits
<1>4. Batched \subseteq OldTables
  BY OldTablesAre, TablesAre DEF Batched
<1>5. /\ s[j].op = "create" => Done(s, j, {"create"}) = Done(s, j - 1, {"create"}) \cup {t}
      /\ s[j].op # "create" => Done(s, j, {"create"}) = Done(s, j - 1, {"create"})
  <2> DEFINE ops == {"create"}
  <2>1. /\ s[j].op \in ops => Done(s, j, ops) = Done(s, j - 1, ops) \cup {s[j].table}
        /\ s[j].op \notin ops => Done(s, j, ops) = Done(s, j - 1, ops)
    BY <1>0, DoneIs
  <2> QED
    BY <2>1
<1>6. CASE s[j].op = "create"
  <2>1. Gone(s, j) = {} /\ Gone(s, j - 1) = {}
    BY <1>0, <1>6, PhaseIs
  <2>2. PICK tables : tables = With(db.tables, t, {db.version + 1})
    OBVIOUS
  <2>3. PICK filled : filled = IF t \in OldTables THEN db.filled \cup {t} ELSE db.filled
    OBVIOUS
  <2>4. result = Db(v, tables, db.indexed, db.copies, filled, db.numbers, db.next)
    BY <1>1, <1>6, <2>2, <2>3, CreateIs
  <2>5. result.tables = tables /\ result.filled = filled
    BY <2>4, DbIs
  <2>6. DOMAIN tables = DOMAIN db.tables \cup {t}
    BY <2>2 DEF With
  <2>7. db.filled \subseteq filled /\ (v = 0 => t \in filled)
    BY <1>0, <2>3
  <2>8. ~Opens(s[j]) /\ ~InBatch(s[j])
    BY <1>6 DEF Opens, InBatch
  <2> QED
    BY <1>2, <1>5, <1>6, <2>1, <2>5, <2>6, <2>7, <2>8 DEF RowsOK
<1>7. CASE s[j].op \in {"index", "unindex", "check", "fill", "sequence"}
  <2>1. Gone(s, j) = {} /\ Gone(s, j - 1) = {}
    BY <1>0, <1>7, PhaseIs
  <2>2. result.tables = db.tables /\ result.filled = db.filled
    <3>1. CASE s[j].op = "index"
      <4>1. PICK indexed : indexed = db.indexed \cup {t}
        OBVIOUS
      <4>2. result = Db(v, db.tables, indexed, db.copies, db.filled, db.numbers, db.next)
        BY <1>1, <3>1, <4>1, IndexIs
      <4> QED
        BY <4>2, DbIs
    <3>2. CASE s[j].op = "unindex"
      <4>1. PICK indexed : indexed = db.indexed \ {t}
        OBVIOUS
      <4>2. result = Db(v, db.tables, indexed, db.copies, db.filled, db.numbers, db.next)
        BY <1>1, <3>2, <4>1, UnindexIs
      <4> QED
        BY <4>2, DbIs
    <3>3. CASE s[j].op = "sequence"
      <4>1. PICK next : next = highest_compatible(db.numbers) + 1
        OBVIOUS
      <4>2. result = Db(v, db.tables, db.indexed, db.copies, db.filled, db.numbers, next)
        BY <1>1, <3>3, <4>1, SequenceIs
      <4> QED
        BY <4>2, DbIs
    <3>4. CASE s[j].op \in {"check", "fill"}
      BY <3>4 DEF Effect
    <3> QED
      BY <1>7, <3>1, <3>2, <3>3, <3>4
  <2>3. ~InBatch(s[j]) /\ (v = 0 => ~Opens(s[j]))
    BY <1>3, <1>7 DEF InBatch, Opens
  <2> QED
    BY <1>2, <1>5, <1>7, <2>1, <2>2, <2>3 DEF RowsOK
<1>8. CASE s[j].op = "drop"
  <2>1. PICK tables : tables = Without(db.tables, t)
    OBVIOUS
  <2>2. PICK next : next = IF t = "shipment_number_sequences" THEN 0 ELSE db.next
    OBVIOUS
  <2>3. result = Db(v, tables, db.indexed \ {t}, db.copies, db.filled \ {t}, db.numbers, next)
    BY <1>1, <1>8, <2>1, <2>2, DropIs
  <2>4. result.tables = tables /\ result.filled = db.filled \ {t} /\ result.copies = db.copies
    BY <2>3, DbIs
  <2>5. DOMAIN tables = DOMAIN db.tables \ {t}
    BY <2>1 DEF Without
  <2>6. v > 0
    BY <1>0, <1>3, <1>8
  <2>7. CASE t \in Batched
    <3>1. Gone(s, j) = {t} /\ Gone(s, j - 1) = {}
      BY <1>0, <1>8, <2>7, PhaseIs
    <3>2. j - 1 > 0 /\ s[j - 1].op = "copy" /\ s[j - 1].table = t
      BY <1>0, <1>8, <2>7 DEF Ordered, Follows
    <3>3. t \in DOMAIN db.copies /\ open /\ db.copies[t].filled
      BY <3>2 DEF RowsOK, InBatch
    <3> QED
      BY <1>2, <1>8, <2>4, <2>5, <2>6, <3>1, <3>3 DEF RowsOK
  <2>8. CASE t \notin Batched
    <3>1. Gone(s, j) = {} /\ Gone(s, j - 1) = {}
      BY <1>0, <1>8, <2>8, PhaseIs
    <3>2. t \notin OldTables
      BY <1>0, <1>8, <2>8 DEF Fits
    <3> QED
      BY <1>2, <1>8, <2>4, <2>5, <2>6, <2>8, <3>1, <3>2 DEF RowsOK, InBatch
  <2> QED
    BY <2>7, <2>8
<1>9. CASE s[j].op = "tmp"
  <2>1. Gone(s, j) = {} /\ Gone(s, j - 1) = {}
    BY <1>0, <1>9, PhaseIs
  <2>2. PICK copy : copy = [shape |-> Reshaped(db, t), filled |-> FALSE,
                            indexed |-> t \in db.indexed]
    OBVIOUS
  <2>3. PICK copies : copies = With(db.copies, t, copy)
    OBVIOUS
  <2>4. result = Db(v, db.tables, db.indexed, copies, db.filled, db.numbers, db.next)
    BY <1>1, <1>9, <2>2, <2>3, TmpIs
  <2>5. result.tables = db.tables /\ result.filled = db.filled /\ result.copies = copies
    BY <2>4, DbIs
  <2>6. t \in DOMAIN copies
    BY <2>3 DEF With
  <2>7. v > 0
    BY <1>0, <1>3, <1>9
  <2> QED
    BY <1>2, <1>9, <2>1, <2>5, <2>6, <2>7 DEF RowsOK
<1>10. CASE s[j].op = "copy"
  <2>1. Gone(s, j) = {} /\ Gone(s, j - 1) = {} /\ t \in Batched
    BY <1>0, <1>10, PhaseIs
  <2>2. PICK copy : copy = [db.copies[t] EXCEPT !.filled = t \in db.filled]
    OBVIOUS
  <2>3. PICK copies : copies = [db.copies EXCEPT ![t] = copy]
    OBVIOUS
  <2>4. result = Db(v, db.tables, db.indexed, copies, db.filled, db.numbers, db.next)
    BY <1>1, <1>10, <2>2, <2>3, CopyIs
  <2>5. result.tables = db.tables /\ result.filled = db.filled /\ result.copies = copies
    BY <2>4, DbIs
  <2>6. v > 0
    BY <1>0, <1>3, <1>10
  <2>7. t \in DOMAIN db.copies /\ db.copies[t] \in Copy
    BY <1>1, <1>10 DEF Needs
  <2>8. t \in db.filled
    BY <1>2, <1>4, <2>1, <2>6
  <2>9. copy.filled = (t \in db.filled)
    BY <2>2, <2>7 DEF Copy
  <2>10. t \in DOMAIN copies /\ copies[t].filled
    BY <1>1, <2>3, <2>7, <2>8, <2>9
  <2>11. later
    BY <1>10 DEF Opens
  <2> QED
    BY <1>2, <1>10, <2>1, <2>5, <2>6, <2>10, <2>11 DEF RowsOK
<1>11. CASE s[j].op = "rename"
  <2>1. Gone(s, j) = {} /\ Gone(s, j - 1) = {t} /\ t \in Batched
    BY <1>0, <1>11, PhaseIs
  <2>2. j - 1 > 0 /\ s[j - 1].op = "drop" /\ s[j - 1].table = t
    BY <1>0, <1>11 DEF Ordered, Follows
  <2>3. db.copies[t].filled
    BY <2>1, <2>2 DEF RowsOK
  <2>4. PICK tables : tables = With(db.tables, t, db.copies[t].shape)
    OBVIOUS
  <2>5. PICK indexed : indexed = IF db.copies[t].indexed THEN db.indexed \cup {t} ELSE db.indexed
    OBVIOUS
  <2>6. PICK filled : filled = IF db.copies[t].filled THEN db.filled \cup {t} ELSE db.filled
    OBVIOUS
  <2>7. PICK copies : copies = Without(db.copies, t)
    OBVIOUS
  <2>8. result = Db(v, tables, indexed, copies, filled, db.numbers, db.next)
    BY <1>1, <1>11, <2>4, <2>5, <2>6, <2>7, RenameIs
  <2>9. result.tables = tables /\ result.filled = filled
    BY <2>8, DbIs
  <2>10. DOMAIN tables = DOMAIN db.tables \cup {t} /\ filled = db.filled \cup {t}
    BY <2>3, <2>4, <2>6 DEF With
  <2>11. v > 0
    BY <1>0, <1>3, <1>11
  <2> QED
    BY <1>2, <1>11, <2>1, <2>9, <2>10, <2>11 DEF RowsOK, InBatch
<1>12. CASE s[j].op = "barcode"
  <2>1. Gone(s, j) = {} /\ Gone(s, j - 1) = {}
    BY <1>0, <1>12, PhaseIs
  <2>2. PICK tables : tables = [db.tables EXCEPT ![t] = db.tables[t] \ {6}]
    OBVIOUS
  <2>3. result = Db(v, tables, db.indexed, db.copies, db.filled, db.numbers, db.next)
    BY <1>1, <1>12, <2>2, BarcodeIs
  <2>4. result.tables = tables /\ result.filled = db.filled
    BY <2>3, DbIs
  <2>5. DOMAIN tables = DOMAIN db.tables
    BY <1>1, <2>2
  <2>6. v > 0
    BY <1>0, <1>3, <1>12
  <2> QED
    BY <1>2, <1>12, <2>1, <2>4, <2>5, <2>6 DEF RowsOK, InBatch
<1> QED
  BY <1>0, <1>6, <1>7, <1>8, <1>9, <1>10, <1>11, <1>12 DEF Ops

(* ----------------------- interrupted upgrades -------------------------- *)

(* What the first statement of an upgrade made is in its way for ever.     *)
FirstOf(u) == Up[u + 1][First(Up[u + 1])]

Obstacle(u, db) ==
  IF FirstOf(u).op = "create" THEN FirstOf(u).table \in DOMAIN db.tables
                              ELSE FirstOf(u).table \in DOMAIN db.copies

(* Nobody is about to rename that copy.                                    *)
Apart(u, s, n) ==
  FirstOf(u).op = "tmp" /\ n > 0 => ~(InBatch(s[n]) /\ s[n].table = FirstOf(u).table)

LEMMA FirstIs ==
  ASSUME NEW u \in 0..8
  PROVE  /\ FirstOf(u).op \in {"create", "tmp"}
         /\ FirstOf(u).op = "create" => FirstOf(u).table \notin DOMAIN Schema(u)
<1>1. PICK s : s = Up[u + 1]
  OBVIOUS
<1>2. Ordered(s) /\ Fits(s, "up", u) /\ Starts(s)
  BY <1>1, UpgradesFit
<1>3. First(s) \in 1..Len(s) /\ s[First(s)].op \in {"create", "tmp"}
  BY <1>2 DEF Starts, Ordered
<1>4. s[First(s)].op = "create" => s[First(s)].table \notin DOMAIN Schema(u)
  BY <1>2, <1>3 DEF Fits
<1> QED
  BY <1>1, <1>3, <1>4 DEF FirstOf

(* Only a drop loses a table, and only a rename a copy.                    *)
LEMMA NothingLost ==
  ASSUME NEW s, s.op \in Ops, NEW db \in Databases, NEW result, result = Effect(s, db), NEW x
  PROVE  /\ x \in DOMAIN db.tables /\ ~(s.op = "drop" /\ s.table = x) => x \in DOMAIN result.tables
         /\ x \in DOMAIN db.copies /\ ~(s.op = "rename" /\ s.table = x) => x \in DOMAIN result.copies
<1> PICK t : t = s.table
  OBVIOUS
<1>1. /\ db.copies \in [DOMAIN db.copies -> Copy] /\ db.tables \in [DOMAIN db.tables -> Marks]
  BY MapsAre
<1>2. CASE s.op = "create"
  <2>1. PICK tables : tables = With(db.tables, t, {db.version + 1})
    OBVIOUS
  <2>2. PICK filled : filled = IF t \in OldTables THEN db.filled \cup {t} ELSE db.filled
    OBVIOUS
  <2>3. result = Db(db.version, tables, db.indexed, db.copies, filled, db.numbers, db.next)
    BY <1>2, <2>1, <2>2, CreateIs
  <2>4. result.tables = tables /\ result.copies = db.copies
    BY <2>3, DbIs
  <2> QED
    BY <1>2, <2>1, <2>4 DEF With
<1>3. CASE s.op = "index"
  <2>1. PICK indexed : indexed = db.indexed \cup {t}
    OBVIOUS
  <2>2. result = Db(db.version, db.tables, indexed, db.copies, db.filled, db.numbers, db.next)
    BY <1>3, <2>1, IndexIs
  <2> QED
    BY <2>2, DbIs
<1>4. CASE s.op = "unindex"
  <2>1. PICK indexed : indexed = db.indexed \ {t}
    OBVIOUS
  <2>2. result = Db(db.version, db.tables, indexed, db.copies, db.filled, db.numbers, db.next)
    BY <1>4, <2>1, UnindexIs
  <2> QED
    BY <2>2, DbIs
<1>5. CASE s.op = "drop"
  <2>1. PICK tables : tables = Without(db.tables, t)
    OBVIOUS
  <2>2. PICK next : next = IF t = "shipment_number_sequences" THEN 0 ELSE db.next
    OBVIOUS
  <2>3. result = Db(db.version, tables, db.indexed \ {t}, db.copies, db.filled \ {t}, db.numbers,
                    next)
    BY <1>5, <2>1, <2>2, DropIs
  <2>4. result.tables = tables /\ result.copies = db.copies
    BY <2>3, DbIs
  <2> QED
    BY <1>5, <2>1, <2>4 DEF Without
<1>6. CASE s.op = "tmp"
  <2>1. PICK copy : copy = [shape |-> Reshaped(db, t), filled |-> FALSE,
                            indexed |-> t \in db.indexed]
    OBVIOUS
  <2>2. PICK copies : copies = With(db.copies, t, copy)
    OBVIOUS
  <2>3. result = Db(db.version, db.tables, db.indexed, copies, db.filled, db.numbers, db.next)
    BY <1>6, <2>1, <2>2, TmpIs
  <2>4. result.tables = db.tables /\ result.copies = copies
    BY <2>3, DbIs
  <2> QED
    BY <1>6, <2>2, <2>4 DEF With
<1>7. CASE s.op = "copy"
  <2>1. PICK copy : copy = [db.copies[t] EXCEPT !.filled = t \in db.filled]
    OBVIOUS
  <2>2. PICK copies : copies = [db.copies EXCEPT ![t] = copy]
    OBVIOUS
  <2>3. result = Db(db.version, db.tables, db.indexed, copies, db.filled, db.numbers, db.next)
    BY <1>7, <2>1, <2>2, CopyIs
  <2>4. result.tables = db.tables /\ result.copies = copies
    BY <2>3, DbIs
  <2> QED
    BY <1>1, <1>7, <2>2, <2>4
<1>8. CASE s.op = "rename"
  <2>1. PICK tables : tables = With(db.tables, t, db.copies[t].shape)
    OBVIOUS
  <2>2. PICK indexed : indexed = IF db.copies[t].indexed THEN db.indexed \cup {t} ELSE db.indexed
    OBVIOUS
  <2>3. PICK filled : filled = IF db.copies[t].filled THEN db.filled \cup {t} ELSE db.filled
    OBVIOUS
  <2>4. PICK copies : copies = Without(db.copies, t)
    OBVIOUS
  <2>5. result = Db(db.version, tables, indexed, copies, filled, db.numbers, db.next)
    BY <1>8, <2>1, <2>2, <2>3, <2>4, RenameIs
  <2>6. result.tables = tables /\ result.copies = copies
    BY <2>5, DbIs
  <2> QED
    BY <1>8, <2>1, <2>4, <2>6 DEF With, Without
<1>9. CASE s.op = "sequence"
  <2>1. PICK next : next = highest_compatible(db.numbers) + 1
    OBVIOUS
  <2>2. result = Db(db.version, db.tables, db.indexed, db.copies, db.filled, db.numbers, next)
    BY <1>9, <2>1, SequenceIs
  <2> QED
    BY <2>2, DbIs
<1>10. CASE s.op = "barcode"
  <2>1. PICK tables : tables = [db.tables EXCEPT ![t] = db.tables[t] \ {6}]
    OBVIOUS
  <2>2. result = Db(db.version, tables, db.indexed, db.copies, db.filled, db.numbers, db.next)
    BY <1>10, <2>1, BarcodeIs
  <2>3. result.tables = tables /\ result.copies = db.copies
    BY <2>2, DbIs
  <2> QED
    BY <1>1, <1>10, <2>1, <2>3
<1>11. CASE s.op \in {"check", "fill"}
  BY <1>11 DEF Effect
<1> QED
  BY <1>2, <1>3, <1>4, <1>5, <1>6, <1>7, <1>8, <1>9, <1>10, <1>11 DEF Ops

(* The obstacle survives every statement of every script on its revision   *)
(* and below, and stops the upgrade that meets it.                         *)
LEMMA ObstacleStays ==
  ASSUME NEW u \in 0..8, NEW s, NEW way, NEW v, Scripted(s, way, v), v <= u,
         NEW j \in 1..Len(s), NEW db \in Databases, Possible(s[j], db),
         Obstacle(u, db), Apart(u, s, j - 1), way = "up" /\ v = u => j <= First(s),
         NEW result, result = Effect(s[j], db)
  PROVE  /\ Obstacle(u, result) /\ Apart(u, s, j)
         /\ way = "up" /\ v = u => j + 1 <= First(s)
<1> PICK t : t = s[j].table
  OBVIOUS
<1> PICK x : x = FirstOf(u).table
  OBVIOUS
<1>0. /\ Ordered(s) /\ Fits(s, way, v) /\ s[j].op \in Ops /\ v \in 0..9 /\ j \in Nat
      /\ way \in {"up", "down"} /\ (way = "up" => s = Up[v + 1] /\ Starts(s))
      /\ way = "down" => v \in 2..9
  BY DEF Scripted, Ordered
<1>1. /\ FirstOf(u).op \in {"create", "tmp"}
      /\ FirstOf(u).op = "create" => x \notin DOMAIN Schema(u)
  BY FirstIs
<1>2. CASE way = "up" /\ v = u
  <2>1. FirstOf(u) = s[First(s)]
    BY <1>0, <1>2 DEF FirstOf
  <2>2. j # First(s)
    BY <1>1, <2>1 DEF Possible, Obstacle
  <2>3. j = 1 /\ First(s) = 2 /\ s[j].op = "check"
    BY <1>0, <1>2, <2>2 DEF Starts
  <2>4. result = db
    BY <2>3 DEF Effect
  <2> QED
    BY <2>3, <2>4 DEF Apart, InBatch
<1>3. CASE ~(way = "up" /\ v = u)
  <2>1. u \in 1..8
    BY <1>0, <1>3
  <2>2. FirstOf(u).op = "create" => ~(s[j].op = "drop" /\ t = x)
    <3>1. SUFFICES ASSUME FirstOf(u).op = "create", s[j].op = "drop", t = x PROVE FALSE
      OBVIOUS
    <3>2. CASE t \in Batched
      BY <1>1, <2>1, <3>1, <3>2, OldTablesStay
    <3>3. CASE t \notin Batched
      <4>1. t \in DOMAIN Schema(v)
        BY <1>0, <3>1, <3>3 DEF Fits
      <4> QED
        BY <1>0, <1>1, <3>1, <4>1, SchemaGrows
    <3> QED
      BY <3>2, <3>3
  <2>3. FirstOf(u).op = "tmp" => ~(s[j].op = "rename" /\ t = x)
    <3>1. s[j].op = "rename" => /\ j - 1 > 0 /\ s[j - 1].op = "drop" /\ s[j - 1].table = t
                                /\ t \in Batched
      BY <1>0 DEF Ordered, Follows
    <3> QED
      BY <3>1 DEF Apart, InBatch
  <2>4. Obstacle(u, result)
    BY <1>0, <1>1, <2>2, <2>3, NothingLost DEF Obstacle
  <2>5. Apart(u, s, j)
    <3>1. SUFFICES ASSUME FirstOf(u).op = "tmp", InBatch(s[j]), t = x PROVE FALSE
      BY DEF Apart
    <3>2. s[j].op # "tmp"
      BY <3>1 DEF Possible, Obstacle
    <3>3. /\ j - 1 > 0 /\ s[j - 1].table = t /\ s[j - 1].op \in {"tmp", "copy"}
      <4>1. s[j].op = "copy" \/ (s[j].op = "drop" /\ s[j].table \in Batched)
        BY <3>1, <3>2 DEF InBatch
      <4>2. Follows(s, j, "tmp") \/ Follows(s, j, "copy")
        BY <1>0, <4>1 DEF Ordered
      <4> QED
        BY <1>0, <4>2 DEF Follows
    <3> QED
      BY <3>1, <3>3 DEF Apart, InBatch
  <2> QED
    BY <1>3, <2>4, <2>5
<1> QED
  BY <1>2, <1>3

(* The first statement of an upgrade makes the obstacle ...                *)
LEMMA ObstacleArises ==
  ASSUME NEW s, NEW v, Scripted(s, "up", v), NEW db \in Databases,
         NEW result, result = Effect(s[First(s)], db)
  PROVE  Obstacle(v, result)
<1> PICK t : t = s[First(s)].table
  OBVIOUS
<1>1. v \in 0..8 /\ s = Up[v + 1]
  BY DEF Scripted
<1>2. FirstOf(v) = s[First(s)] /\ FirstOf(v).op \in {"create", "tmp"}
  BY <1>1, FirstIs DEF FirstOf
<1>3. CASE s[First(s)].op = "create"
  <2>1. PICK tables : tables = With(db.tables, t, {db.version + 1})
    OBVIOUS
  <2>2. PICK filled : filled = IF t \in OldTables THEN db.filled \cup {t} ELSE db.filled
    OBVIOUS
  <2>3. result = Db(db.version, tables, db.indexed, db.copies, filled, db.numbers, db.next)
    BY <1>3, <2>1, <2>2, CreateIs
  <2>4. result.tables = tables
    BY <2>3, DbIs
  <2>5. t \in DOMAIN tables
    BY <2>1 DEF With
  <2> QED
    BY <1>2, <1>3, <2>4, <2>5 DEF Obstacle
<1>4. CASE s[First(s)].op = "tmp"
  <2>1. PICK copy : copy = [shape |-> Reshaped(db, t), filled |-> FALSE,
                            indexed |-> t \in db.indexed]
    OBVIOUS
  <2>2. PICK copies : copies = With(db.copies, t, copy)
    OBVIOUS
  <2>3. result = Db(db.version, db.tables, db.indexed, copies, db.filled, db.numbers, db.next)
    BY <1>4, <2>1, <2>2, TmpIs
  <2>4. result.copies = copies
    BY <2>3, DbIs
  <2>5. t \in DOMAIN copies
    BY <2>2 DEF With
  <2> QED
    BY <1>2, <1>4, <2>4, <2>5 DEF Obstacle
<1> QED
  BY <1>2, <1>3, <1>4

(* ... and no later one removes it from the disk: the renaming is part of  *)
(* the transaction that the copying has opened.                            *)
LEMMA ObstacleOnDisk ==
  ASSUME NEW s, NEW v, Scripted(s, "up", v), NEW j \in 1..Len(s), NEW db \in Databases,
         NEW open, ~open, RowsOK(s, j - 1, v, open, db), Obstacle(v, db),
         NEW result, result = Effect(s[j], db)
  PROVE  Obstacle(v, result)
<1> PICK t : t = s[j].table
  OBVIOUS
<1> PICK x : x = FirstOf(v).table
  OBVIOUS
<1>0. /\ Ordered(s) /\ Fits(s, "up", v) /\ Starts(s) /\ s[j].op \in Ops /\ v \in 0..8
      /\ j \in Nat
  BY DEF Scripted, Ordered
<1>1. /\ FirstOf(v).op \in {"create", "tmp"}
      /\ FirstOf(v).op = "create" => x \notin DOMAIN Schema(v)
  BY <1>0, FirstIs
<1>2. s[j].op # "rename"
  <2>1. s[j].op = "rename" => /\ j - 1 > 0 /\ s[j - 1].op = "drop" /\ s[j - 1].table \in Batched
    BY <1>0 DEF Ordered, Follows
  <2> QED
    BY <2>1 DEF RowsOK
<1>3. FirstOf(v).op = "create" => ~(s[j].op = "drop" /\ t = x)
  <2>1. s[j].op = "drop" => t \in Batched /\ v \in 1..9
    BY <1>0 DEF Starts, Fits
  <2> QED
    BY <1>1, <2>1, OldTablesStay
<1> QED
  BY <1>0, <1>1, <1>2, <1>3, NothingLost DEF Obstacle

(* ------------------------------ invariant ------------------------------ *)

Runs == [way : {"none", "up", "down"}, target : 0..9, pc : Nat \ {0}, open : BOOLEAN,
         view : Databases \cup {<< >>}]

(* What alembic is doing: an open transaction sees a database of its own,  *)
(* of the noted revision, with the numbers that are committed.             *)
RunOK ==
  /\ run \in Runs /\ started \in BOOLEAN
  /\ run.way = "none" => run = Idle
  /\ run.open => /\ Working /\ Sound(run.view)
                 /\ run.view.version = disk.version /\ run.view.numbers = disk.numbers
                 /\ run.way = "up" => run.pc > First(Script)
  /\ ~run.open => run.view = << >>
  /\ run.way # "none" => ~started /\ (~Working => run.pc = 1)
  /\ Working => Legal(run.way, disk.version) /\ run.pc <= Len(Script) + 1
  /\ run.way = "up" => run.target = 9
  /\ run.way = "down" => disk.version >= run.target /\ run.target >= 1
  /\ started => verify_database_schema(disk)

Rows(db) == OldTables \subseteq db.filled \cap DOMAIN db.tables

RowsInv ==
  /\ disk.version > 0 => Rows(disk)
  /\ Working => RowsOK(Script, run.pc - 1, disk.version, run.open, Seen)

(* No run died or broke off: the schema is what the statements so far make *)
(* of the noted revision, and an upgrade that has begun left its mark.     *)
Clean ==
  IF Working
  THEN /\ IsAfter(Seen, Script, run.pc - 1, run.way, disk.version)
       /\ run.way = "up" => IF run.pc > First(Script) THEN Obstacle(disk.version, disk)
                            ELSE IsSchema(disk, disk.version)
  ELSE IsSchema(disk, disk.version)

(* An upgrade of revision u was broken off: none gets beyond u again.      *)
Blocked(u) ==
  /\ disk.version <= u /\ Obstacle(u, disk) /\ Obstacle(u, Seen)
  /\ Working => /\ Apart(u, Script, run.pc - 1)
                /\ run.way = "up" /\ disk.version = u => run.pc <= First(Script)

SchemaOK ==
  /\ "down" \notin torn => Clean \/ \E u \in 0..8 : Blocked(u)
  /\ torn = {} => Clean

Orderly ==
  /\ Sound(disk) /\ defects \subseteq Defects /\ torn \subseteq {"up", "down"}
  /\ RunOK /\ RowsInv /\ SchemaOK

(* ------------------------------- at rest ------------------------------- *)

(* Before the first statement of a script, and when alembic does not run.  *)
AtRest ==
  /\ RunOK /\ Sound(disk) /\ ~run.open /\ run.pc = 1
  /\ disk.version > 0 => Rows(disk)

LEMMA SeenIs ==
  ASSUME RunOK, Sound(disk)
  PROVE  /\ Sound(Seen) /\ Seen.version = disk.version /\ Seen.numbers = disk.numbers
         /\ Seen \in Databases /\ disk \in Databases /\ disk.version \in 0..9
BY DEF RunOK, Seen, Sound, Databases

LEMMA ScriptIs ==
  ASSUME RunOK, Sound(disk), Working
  PROVE  /\ Scripted(Script, run.way, disk.version)
         /\ run.way \in {"up", "down"} /\ run.pc \in 1..(Len(Script) + 1) /\ Len(Script) \in Nat
         /\ disk.version # run.target
<1>1. Seen.version = disk.version
  BY SeenIs
<1>2. run.way \in {"up", "down"} /\ Legal(run.way, disk.version) /\ disk.version # run.target
  BY <1>1 DEF RunOK, Runs, Working
<1>3. Script = ScriptOf(run.way, disk.version)
  BY <1>1, <1>2 DEF Script, ScriptOf
<1>4. Scripted(Script, run.way, disk.version)
  BY <1>2, <1>3, ScriptsAre
<1>5. Len(Script) \in Nat
  BY <1>4 DEF Scripted, Ordered
<1>6. run.pc \in Nat \ {0} /\ run.pc <= Len(Script) + 1
  BY DEF RunOK, Runs
<1> QED
  BY <1>2, <1>4, <1>5, <1>6

LEMMA RestIsOrderly ==
  AtRest => /\ RowsInv
            /\ IsSchema(disk, disk.version) => Clean
            /\ \A u \in 0..8 : disk.version <= u /\ Obstacle(u, disk) => Blocked(u)
<1> SUFFICES ASSUME AtRest
             PROVE  /\ RowsInv
                    /\ IsSchema(disk, disk.version) => Clean
                    /\ \A u \in 0..8 : disk.version <= u /\ Obstacle(u, disk) => Blocked(u)
  OBVIOUS
<1>1. RunOK /\ Sound(disk) /\ ~run.open /\ run.pc = 1 /\ run.pc - 1 = 0 /\ Seen = disk
  BY DEF AtRest, Seen
<1>2. CASE ~Working
  BY <1>1, <1>2 DEF AtRest, RowsInv, Clean, Blocked
<1>3. CASE Working
  <2>1. PICK s : s = Script
    OBVIOUS
  <2>2. Scripted(s, run.way, disk.version) /\ Ordered(s) /\ disk.version \in 0..9
    BY <1>1, <1>3, <2>1, ScriptIs DEF Scripted
  <2>3. run.way = "up" => First(s) \in {1, 2}
    BY <2>2 DEF Scripted, Starts
  <2>4. Gone(s, 0) = {} /\ Done(s, 0, {"create"}) = {}
    BY <2>2, EndsAre DEF Done
  <2>5. RowsOK(s, 0, disk.version, run.open, disk)
    BY <1>1, <2>4 DEF AtRest, RowsOK, Rows
  <2>6. RowsInv
    BY <1>1, <2>1, <2>5 DEF AtRest, RowsInv
  <2>7. IsSchema(disk, disk.version) => Clean
    <3>1. IsSchema(disk, disk.version) => IsAfter(disk, s, 0, run.way, disk.version)
      BY <2>2, AtStart
    <3> QED
      BY <1>1, <1>3, <2>1, <2>3, <3>1 DEF Clean
  <2>8. ASSUME NEW u \in 0..8, disk.version <= u, Obstacle(u, disk) PROVE Blocked(u)
    BY <1>1, <2>1, <2>3, <2>8 DEF Blocked, Apart
  <2> QED
    BY <2>6, <2>7, <2>8
<1> QED
  BY <1>2, <1>3

LEMMA IdleIsRest ==
  /\ run = Idle /\ Sound(disk) /\ started \in BOOLEAN
  /\ started => verify_database_schema(disk)
  /\ disk.version > 0 => Rows(disk)
  => AtRest
<1> SUFFICES ASSUME run = Idle, Sound(disk), started \in BOOLEAN,
                    started => verify_database_schema(disk), disk.version > 0 => Rows(disk)
             PROVE  AtRest
  OBVIOUS
<1>1. /\ run \in Runs /\ run.way = "none" /\ run.target = 0 /\ run.pc = 1 /\ run.open = FALSE
      /\ run.view = << >>
  BY DEF Idle, Runs
<1>2. ~Working
  BY <1>1 DEF Working
<1> QED
  BY <1>1, <1>2 DEF AtRest, RunOK

(* A step to a state of rest that keeps the schema, or an obstacle.        *)
LEMMA RestHolds ==
  ASSUME AtRest', defects' \subseteq Defects, torn' \subseteq {"up", "down"},
         torn' = {} => IsSchema(disk', disk'.version),
         "down" \notin torn' => \/ IsSchema(disk', disk'.version)
                                \/ \E u \in 0..8 : disk'.version <= u /\ Obstacle(u, disk')
  PROVE  Orderly'
<1>1. /\ RowsInv'
      /\ IsSchema(disk, disk.version)' => Clean'
      /\ (\A u \in 0..8 : disk.version <= u /\ Obstacle(u, disk) => Blocked(u))'
  BY RestIsOrderly, PTL
<1>2. /\ IsSchema(disk', disk'.version) => Clean'
      /\ \A u \in 0..8 : disk'.version <= u /\ Obstacle(u, disk') => Blocked(u)'
  BY <1>1 DEF IsSchema, Obstacle
<1>3. SchemaOK'
  BY <1>2 DEF SchemaOK
<1> QED
  BY <1>1, <1>3 DEF Orderly, AtRest

(* ------------------------------- actions ------------------------------- *)

(* What of the schema survives when alembic stops, for whatever reason.    *)
LEMMA WhatStays ==
  ASSUME Orderly
  PROVE  /\ ~Working /\ torn = {} => IsSchema(disk, disk.version)
         /\ "down" \notin torn /\ ~(Working /\ run.way = "down") =>
              \/ IsSchema(disk, disk.version)
              \/ \E u \in 0..8 : disk.version <= u /\ Obstacle(u, disk)
         /\ ~Working /\ "down" \notin torn =>
              \/ IsSchema(disk, disk.version)
              \/ \E u \in 0..8 : disk.version <= u /\ Obstacle(u, disk)
<1>1. RunOK /\ Sound(disk) /\ SchemaOK
  BY DEF Orderly
<1>2. disk.version \in 0..9 /\ run.way \in {"none", "up", "down"}
  BY <1>1, SeenIs DEF RunOK, Runs
<1>3. Working => run.way \in {"up", "down"}
  BY <1>2 DEF Working
<1>4. Working /\ run.way = "up" => disk.version \in 0..8
  BY <1>1, ScriptIs DEF Scripted
<1>5. \A u \in 0..8 : Blocked(u) => disk.version <= u /\ Obstacle(u, disk)
  BY DEF Blocked
<1>6. Clean /\ ~(Working /\ run.way = "down") =>
        \/ IsSchema(disk, disk.version)
        \/ Working /\ run.way = "up" /\ Obstacle(disk.version, disk)
  BY <1>3 DEF Clean
<1>7. disk.version <= disk.version
  BY <1>2
<1> QED
  BY <1>1, <1>4, <1>5, <1>6, <1>7 DEF SchemaOK, Clean

LEMMA BeginHolds ==
  ASSUME Orderly, NEW way \in {"up", "down"}, NEW target \in 1..EXPECTED_SCHEMA_REVISION,
         Begin(way, target)
  PROVE  Orderly'
<1>1. /\ RunOK /\ Sound(disk) /\ RowsInv /\ run = Idle /\ started = FALSE
      /\ disk' = disk /\ started' = started /\ defects' = defects /\ torn' = torn
      /\ run' = [Idle EXCEPT !.way = way, !.target = target]
  BY DEF Orderly, Begin, RunOK
<1>2. /\ run'.way = way /\ run'.target = target /\ run'.pc = 1 /\ run'.open = FALSE
      /\ run'.view = << >> /\ run' \in Runs
  <2>1. run' = [way |-> way, target |-> target, pc |-> 1, open |-> FALSE, view |-> << >>]
    BY <1>1 DEF Idle
  <2>2. way \in {"none", "up", "down"} /\ target \in 0..9
    BY DEF EXPECTED_SCHEMA_REVISION
  <2> QED
    BY <2>1, <2>2 DEF Runs
<1>3. ~Working
  BY <1>1 DEF Working, Idle
<1>4. disk.version \in 0..9
  BY <1>1, SeenIs
<1>5. way = "up" => target = 9
  BY DEF Begin, EXPECTED_SCHEMA_REVISION
<1>6. way = "down" => target >= 1 /\ target < disk.version
  BY <1>4 DEF Begin
<1>7. Seen' = disk
  BY <1>1, <1>2 DEF Seen
<1>8. Working' => disk.version # target
  BY <1>2, <1>7 DEF Working
<1>9. Working' => Legal(way, disk.version)
  BY <1>4, <1>5, <1>6, <1>8 DEF Legal
<1>10. Working' => Len(Script') \in Nat
  <2>1. Working' => Scripted(ScriptOf(way, disk.version), way, disk.version)
    BY <1>9, ScriptsAre
  <2>2. Script' = ScriptOf(way, disk.version)
    BY <1>2, <1>7 DEF Script, ScriptOf
  <2> QED
    BY <2>1, <2>2 DEF Scripted, Ordered
<1>11. RunOK'
  BY <1>1, <1>2, <1>4, <1>5, <1>6, <1>9, <1>10 DEF RunOK
<1>12. AtRest'
  BY <1>1, <1>2, <1>11 DEF AtRest, RowsInv
<1> QED
  BY <1>1, <1>3, <1>12, WhatStays, RestHolds DEF Orderly

(* The end of a run by a failure.                                          *)
LEMMA FailHolds ==
  ASSUME Orderly, run.way # "none", run' = Idle, UNCHANGED <<disk, started, defects>>,
         torn' = {} => IsSchema(disk, disk.version), torn' \subseteq {"up", "down"},
         "down" \notin torn' => \/ IsSchema(disk, disk.version)
                                \/ \E u \in 0..8 : disk.version <= u /\ Obstacle(u, disk)
  PROVE  Orderly'
<1>1. started \in BOOLEAN /\ ~started /\ Sound(disk) /\ (disk.version > 0 => Rows(disk))
      /\ defects \subseteq Defects
  BY DEF Orderly, RunOK, RowsInv
<1>2. /\ run = Idle /\ Sound(disk) /\ started \in BOOLEAN
      /\ started => verify_database_schema(disk)
      /\ disk.version > 0 => Rows(disk)
      => AtRest
  BY IdleIsRest
<1>3. (/\ run = Idle /\ Sound(disk) /\ started \in BOOLEAN
       /\ started => verify_database_schema(disk)
       /\ disk.version > 0 => Rows(disk)
       => AtRest)'
  BY IdleIsRest, PTL
<1>4. AtRest'
  BY <1>1, <1>3 DEF Sound, Rows, Ahead, verify_database_schema
<1> QED
  BY <1>1, <1>4, RestHolds

LEMMA RefuseHolds ==
  ASSUME Orderly, Refuse
  PROVE  Orderly'
<1>1. /\ AtStatement /\ Now.op = "check" /\ Working /\ run' = Idle
      /\ UNCHANGED <<disk, started, defects, torn>>
  BY DEF Refuse, Fail, AtStatement
<1>2. RunOK /\ Sound(disk) /\ SchemaOK /\ torn \subseteq {"up", "down"}
  BY DEF Orderly
<1>3. /\ Scripted(Script, run.way, disk.version) /\ run.pc \in 1..(Len(Script) + 1)
      /\ Len(Script) \in Nat
  BY <1>1, <1>2, ScriptIs
<1>4. run.pc \in 1..Len(Script)
  BY <1>1, <1>3 DEF AtStatement
<1>5. run.way = "up" /\ run.pc = 1 /\ First(Script) \in {1, 2}
  BY <1>1, <1>3, <1>4 DEF Scripted, Fits, Starts, Now
<1>6. Clean => IsSchema(disk, disk.version)
  BY <1>1, <1>5 DEF Clean
<1>7. torn = {} => IsSchema(disk, disk.version)
  BY <1>2, <1>6 DEF SchemaOK
<1> QED
  BY <1>1, <1>2, <1>5, <1>7, WhatStays, FailHolds

(* No statement of an orderly run collides.                                *)
LEMMA CollideHolds ==
  ASSUME Orderly, Collide
  PROVE  Orderly'
<1>1. /\ AtStatement /\ ~Possible(Now, Seen) /\ Working /\ run' = Idle
      /\ UNCHANGED <<disk, started, defects, torn>>
  BY DEF Collide, Fail, AtStatement
<1>2. RunOK /\ Sound(disk) /\ SchemaOK /\ torn \subseteq {"up", "down"}
  BY DEF Orderly
<1>3. /\ Scripted(Script, run.way, disk.version) /\ run.pc \in 1..(Len(Script) + 1)
      /\ run.way \in {"up", "down"} /\ Len(Script) \in Nat
  BY <1>1, <1>2, ScriptIs
<1>4. run.pc \in 1..Len(Script)
  BY <1>1, <1>3 DEF AtStatement
<1>5. Sound(Seen) /\ Seen.version = disk.version /\ disk.version \in 0..9
  BY <1>2, SeenIs
<1>6. Clean => IsAfter(Seen, Script, run.pc - 1, run.way, disk.version)
  BY <1>1 DEF Clean
<1>7. ~Clean
  <2>1. PICK result : result = Effect(Script[run.pc], Seen)
    OBVIOUS
  <2>2. PICK way \in {"up", "down"} : way = run.way
    BY <1>3
  <2>3. Clean => Possible(Script[run.pc], Seen)
    <3>1. /\ Legal(way, disk.version) /\ Ordered(Script) /\ Fits(Script, way, disk.version)
      BY <1>3, <2>2 DEF Scripted
    <3> QED
      BY <1>4, <1>5, <1>6, <2>1, <2>2, <3>1, AfterStatement
  <2> QED
    BY <1>1, <2>3 DEF Now
<1>8. /\ torn # {}
      /\ "down" \notin torn => \E u \in 0..8 : disk.version <= u /\ Obstacle(u, disk)
  BY <1>2, <1>7 DEF SchemaOK, Blocked
<1> QED
  BY <1>1, <1>2, <1>3, <1>8, FailHolds

LEMMA FinishHolds ==
  ASSUME Orderly, Finish
  PROVE  Orderly'
<1>1. /\ run.way # "none" /\ ~Working /\ run' = Idle
      /\ UNCHANGED <<disk, started, defects, torn>>
  BY DEF Finish, Fail
<1>2. torn \subseteq {"up", "down"}
  BY DEF Orderly
<1> QED
  BY <1>1, <1>2, WhatStays, FailHolds

(* A run that dies, or breaks off at a CHECK, leaves what was durable.     *)
LEMMA CrashHolds ==
  ASSUME Orderly, Crash \/ BreakOff
  PROVE  Orderly'
<1>1. /\ run.way # "none" /\ run' = Idle /\ torn' = torn \cup {run.way}
      /\ UNCHANGED <<disk, started, defects>>
  BY DEF Crash, BreakOff, AtStatement, Working
<1>2. torn \subseteq {"up", "down"} /\ run.way \in {"up", "down"}
  BY <1>1 DEF Orderly, RunOK, Runs
<1>3. torn' \subseteq {"up", "down"} /\ torn' # {}
  BY <1>1, <1>2
<1>4. "down" \notin torn' => "down" \notin torn /\ run.way # "down"
  BY <1>1
<1> QED
  BY <1>1, <1>3, <1>4, WhatStays, FailHolds

(* ----------------------------- application ----------------------------- *)

LEMMA ApplicationHolds ==
  ASSUME Orderly, Bootstrap \/ Shutdown \/ Allocate
  PROVE  Orderly'
<1>1. /\ RunOK /\ Sound(disk) /\ SchemaOK /\ (disk.version > 0 => Rows(disk))
      /\ defects \subseteq Defects /\ torn \subseteq {"up", "down"} /\ started \in BOOLEAN
  BY DEF Orderly, RowsInv, RunOK
<1>2. run = Idle
  BY <1>1 DEF RunOK, Bootstrap, Shutdown, Allocate
<1>3. ~Working
  BY <1>2 DEF Working, Idle
<1>4. (/\ run = Idle /\ Sound(disk) /\ started \in BOOLEAN
       /\ started => verify_database_schema(disk)
       /\ disk.version > 0 => Rows(disk)
       => AtRest)'
  BY IdleIsRest, PTL
<1>5. CASE Bootstrap \/ Shutdown
  <2>1. /\ UNCHANGED <<disk, run, defects, torn>> /\ started' \in BOOLEAN
        /\ started' => verify_database_schema(disk)
    BY <1>1, <1>5 DEF Bootstrap, Shutdown
  <2>2. AtRest'
    BY <1>1, <1>2, <1>4, <2>1 DEF Sound, Rows, Ahead, verify_database_schema
  <2> QED
    BY <1>1, <1>3, <2>1, <2>2, WhatStays, RestHolds
<1>6. CASE Allocate
  <2>1. /\ started /\ disk.next \in 1..(MaxNumber - 1)
        /\ disk' = [disk EXCEPT !.next = @ + 1,
                                !.numbers = @ \cup {[value |-> disk.next, exact |-> TRUE]}]
        /\ UNCHANGED <<run, started, defects, torn>>
    BY <1>6 DEF Allocate
  <2>2. PICK identifier : identifier = [value |-> disk.next, exact |-> TRUE]
    OBVIOUS
  <2>3. PICK numbers : numbers = disk.numbers \cup {identifier}
    OBVIOUS
  <2>4. disk \in Databases /\ disk.next \in Nat /\ disk.numbers \subseteq Numbers
    BY <1>1 DEF Sound, Databases
  <2>5. disk' = Db(disk.version, disk.tables, disk.indexed, disk.copies, disk.filled, numbers,
                   disk.next + 1)
    BY <2>1, <2>2, <2>3, <2>4 DEF Databases, Db
  <2>6. /\ disk'.version = disk.version /\ disk'.tables = disk.tables
        /\ disk'.indexed = disk.indexed /\ disk'.copies = disk.copies
        /\ disk'.filled = disk.filled /\ disk'.numbers = numbers /\ disk'.next = disk.next + 1
    BY <2>5, DbIs
  <2>7. identifier \in Numbers /\ identifier.value = disk.next
    BY <2>1, <2>2, BoundsAssumption DEF Numbers
  <2>8. numbers \subseteq Numbers
    BY <2>3, <2>4, <2>7
  <2>9. \A i \in numbers : i.exact => i.value < disk.next + 1
    <3>1. ASSUME NEW i \in disk.numbers, i.exact PROVE i.value < disk.next + 1
      <4>1. i.value \in Nat /\ i.value < disk.next
        BY <1>1, <2>1, <2>4, <3>1 DEF Sound, Ahead, Numbers
      <4> QED
        BY <2>4, <4>1
    <3> QED
      BY <2>3, <2>4, <2>7, <3>1
  <2>10. Sound(disk')
    <3>1. disk' \in Databases
      BY <2>4, <2>5, <2>8 DEF Databases, Db
    <3> QED
      BY <1>1, <2>6, <2>9, <3>1 DEF Sound, Ahead
  <2>11. verify_database_schema(disk') /\ (disk'.version > 0 => Rows(disk'))
    BY <1>1, <2>1, <2>6 DEF RunOK, verify_database_schema, Rows
  <2>12. AtRest'
    BY <1>1, <1>2, <1>4, <2>1, <2>10, <2>11 DEF Sound, Rows, Ahead, verify_database_schema
  <2>13. /\ IsSchema(disk', disk'.version) <=> IsSchema(disk, disk.version)
         /\ \A u : Obstacle(u, disk') <=> Obstacle(u, disk)
    BY <2>6 DEF IsSchema, Obstacle
  <2> QED
    BY <1>1, <1>3, <2>1, <2>6, <2>12, <2>13, WhatStays, RestHolds
<1> QED
  BY <1>5, <1>6

(* ----------------------------- the revision ---------------------------- *)

(* After all statements of a script the schema is that of the next, or the *)
(* previous, revision; the first one has created the oldest tables.        *)
LEMMA StampHolds ==
  ASSUME Orderly, Stamp
  PROVE  Orderly'
<1>1. /\ Working /\ run.pc = Len(Script) + 1
      /\ disk' = [Seen EXCEPT !.version = IF run.way = "up" THEN @ + 1 ELSE @ - 1]
      /\ run' = [Idle EXCEPT !.way = run.way, !.target = run.target]
      /\ UNCHANGED <<started, defects, torn>>
  BY DEF Stamp
<1>2. /\ RunOK /\ Sound(disk) /\ RowsInv /\ SchemaOK /\ torn \subseteq {"up", "down"}
      /\ defects \subseteq Defects
  BY DEF Orderly
<1> PICK s : s = Script
  OBVIOUS
<1> PICK way \in {"up", "down"} : way = run.way
  BY <1>1, <1>2, ScriptIs
<1> PICK v \in 0..9 : v = disk.version
  BY <1>2, SeenIs
<1>3. Scripted(s, way, v) /\ v # run.target /\ Len(s) \in Nat
  BY <1>1, <1>2, ScriptIs
<1>4. Sound(Seen) /\ Seen.version = v /\ Seen \in Databases
  BY <1>2, SeenIs
<1>5. Ordered(s) /\ Fits(s, way, v) /\ Legal(way, v)
  BY <1>3 DEF Scripted
<1> DEFINE w == IF way = "up" THEN v + 1 ELSE v - 1
<1>6. /\ w \in 1..9 /\ (way = "up" => w = v + 1 /\ v \in 0..8)
      /\ way = "down" => w = v - 1 /\ v \in 2..9
  BY <1>5 DEF Legal
<1>7. disk' = Db(w, Seen.tables, Seen.indexed, Seen.copies, Seen.filled, Seen.numbers, Seen.next)
  BY <1>1, <1>4 DEF Db, Databases
<1> HIDE DEF w
<1>8. /\ disk'.version = w /\ disk'.tables = Seen.tables /\ disk'.indexed = Seen.indexed
      /\ disk'.copies = Seen.copies /\ disk'.filled = Seen.filled
      /\ disk'.numbers = Seen.numbers /\ disk'.next = Seen.next
  BY <1>7, DbIs
<1>9. Sound(disk')
  <2>1. w \in 0..9
    BY <1>6
  <2>2. disk' \in Databases
    BY <1>4, <1>7, <2>1 DEF Databases, Db
  <2> QED
    BY <1>4, <1>8, <2>2 DEF Sound, Ahead
<1>10. /\ run'.way = way /\ run'.target = run.target /\ run'.pc = 1 /\ run'.open = FALSE
       /\ run'.view = << >> /\ run' \in Runs
  <2>1. run' = [way |-> way, target |-> run.target, pc |-> 1, open |-> FALSE, view |-> << >>]
    BY <1>1 DEF Idle
  <2>2. way \in {"none", "up", "down"} /\ run.target \in 0..9
    BY <1>2 DEF RunOK, Runs
  <2> QED
    BY <2>1, <2>2 DEF Runs
<1>11. Seen'.version = w
  BY <1>8, <1>10 DEF Seen
<1>12. /\ way = "up" => run.target = 9
       /\ way = "down" => run.target >= 1 /\ run.target <= w
  <2>1. run.target \in 0..9
    BY <1>2 DEF RunOK, Runs
  <2> QED
    BY <1>2, <1>3, <1>6, <2>1 DEF RunOK
<1>13. Working' => Legal(way, w) /\ Len(Script') \in Nat
  <2>1. Working' => w # run.target
    BY <1>10, <1>11 DEF Working
  <2>2. Working' => Legal(way, w)
    <3>1. run.target \in 0..9
      BY <1>2 DEF RunOK, Runs
    <3> QED
      BY <1>6, <1>12, <2>1, <3>1 DEF Legal
  <2>3. Script' = ScriptOf(way, w)
    BY <1>10, <1>11 DEF Script, ScriptOf
  <2>4. Working' => Scripted(ScriptOf(way, w), way, w)
    BY <2>2, ScriptsAre
  <2> QED
    BY <2>2, <2>3, <2>4 DEF Scripted, Ordered
<1>14. RunOK'
  <2>1. started' = FALSE
    BY <1>1, <1>2 DEF RunOK
  <2>3. Working' => run'.pc <= Len(Script') + 1
    BY <1>10, <1>13
  <2>4. disk'.version = w /\ run'.way # "none"
    BY <1>8, <1>10
  <2>5. Working' => Legal(run'.way, disk'.version)
    BY <1>10, <1>13, <2>4
  <2>6. /\ run'.way = "up" => run'.target = 9
        /\ run'.way = "down" => disk'.version >= run'.target /\ run'.target >= 1
    BY <1>10, <1>12, <2>4, <1>6, <1>2 DEF RunOK, Runs
  <2> QED
    BY <1>10, <2>1, <2>3, <2>4, <2>5, <2>6 DEF RunOK
<1>15. RowsOK(s, Len(s), v, run.open, Seen)
  <2>1. run.pc - 1 = Len(s)
    BY <1>1, <1>3
  <2> QED
    BY <1>1, <1>2, <2>1 DEF RowsInv
<1>16. Rows(disk')
  <2>1. CASE v > 0
    <3>1. Gone(s, Len(s)) = {}
      BY <1>5, EndsAre
    <3> QED
      BY <1>8, <1>15, <2>1, <3>1 DEF RowsOK, Rows
  <2>2. CASE v = 0
    <3>1. way = "up" /\ s = Up[1]
      BY <1>3, <2>2 DEF Scripted
    <3>2. OldTables = Done(s, Len(s), {"create", "rename"})
      <4>1. OldTables = Shapes(1) /\ 0 + 1 = 1
        BY FirstTables
      <4>2. Shapes(0 + 1) = Done(Up[0 + 1], Len(Up[0 + 1]), {"create", "rename"})
        BY TargetsAre DEF Shapes
      <4> QED
        BY <3>1, <4>1, <4>2
    <3>3. Done(s, Len(s), {"create", "rename"}) \subseteq Done(s, Len(s), {"create"})
      BY <1>5, <2>2 DEF Done, Fits
    <3> QED
      BY <1>8, <1>15, <2>2, <3>2, <3>3 DEF RowsOK, Rows
  <2> QED
    BY <2>1, <2>2
<1>17. AtRest'
  BY <1>9, <1>10, <1>14, <1>16 DEF AtRest
<1>18. Clean => IsSchema(disk', disk'.version)
  <2>1. Clean => IsAfter(Seen, s, Len(s), way, v)
    <3>1. run.pc - 1 = Len(s)
      BY <1>1, <1>3
    <3> QED
      BY <1>1, <3>1 DEF Clean
  <2>2. CASE way = "up"
    <3>1. v \in 0..8 /\ s = Up[v + 1] /\ Starts(s)
      BY <1>3, <2>2 DEF Scripted
    <3>2. Clean => IsSchema(Seen, v + 1)
      BY <1>4, <1>5, <2>1, <2>2, <3>1, AtEndOfUpgrade
    <3> QED
      BY <1>6, <1>8, <2>2, <3>2 DEF IsSchema
  <2>3. CASE way = "down"
    <3>1. v \in 2..9 /\ Reverts(s, v)
      BY <1>3, <2>3 DEF Scripted
    <3>2. Clean => IsSchema(Seen, v - 1)
      BY <1>4, <1>5, <2>1, <2>3, <3>1, AtEndOfDowngrade
    <3> QED
      BY <1>6, <1>8, <2>3, <3>2 DEF IsSchema
  <2> QED
    BY <2>2, <2>3
<1>19. ASSUME NEW u \in 0..8, Blocked(u) PROVE disk'.version <= u /\ Obstacle(u, disk')
  <2>1. Obstacle(u, disk')
    BY <1>8, <1>19 DEF Blocked, Obstacle
  <2>2. CASE way = "up"
    <3>1. First(s) <= Len(s) /\ First(s) \in Nat
      BY <1>3, <2>2 DEF Scripted, Starts
    <3>2. v # u
      BY <1>1, <1>3, <1>19, <2>2, <3>1 DEF Blocked
    <3>3. v <= u
      BY <1>19 DEF Blocked
    <3> QED
      BY <1>6, <1>8, <2>1, <2>2, <3>2, <3>3
  <2>3. CASE way = "down"
    <3>1. v <= u
      BY <1>19 DEF Blocked
    <3> QED
      BY <1>6, <1>8, <2>1, <2>3, <3>1
  <2> QED
    BY <2>2, <2>3
<1>20. torn' = {} => IsSchema(disk', disk'.version)
  BY <1>1, <1>2, <1>18 DEF SchemaOK
<1>21. "down" \notin torn' => \/ IsSchema(disk', disk'.version)
                              \/ \E u \in 0..8 : disk'.version <= u /\ Obstacle(u, disk')
  BY <1>1, <1>2, <1>18, <1>19 DEF SchemaOK
<1> QED
  BY <1>1, <1>2, <1>17, <1>20, <1>21, RestHolds

(* ------------------------------ a statement ---------------------------- *)

LEMMA ExecuteHolds ==
  ASSUME Orderly, Execute
  PROVE  Orderly'
<1> PICK s : s = Script
  OBVIOUS
<1> PICK j : j = run.pc
  OBVIOUS
<1> PICK result : result = Effect(s[j], Seen)
  OBVIOUS
<1> PICK later \in BOOLEAN : later <=> run.open \/ Opens(s[j])
  OBVIOUS
<1>1. /\ AtStatement /\ Working /\ Possible(s[j], Seen)
      /\ IF later THEN /\ run' = [run EXCEPT !.pc = @ + 1, !.open = TRUE, !.view = result]
                       /\ disk' = disk
                  ELSE run' = [run EXCEPT !.pc = @ + 1] /\ disk' = result
      /\ UNCHANGED <<started, defects, torn>>
  BY DEF Execute, AtStatement, Now
<1>2. /\ RunOK /\ Sound(disk) /\ RowsInv /\ SchemaOK /\ torn \subseteq {"up", "down"}
      /\ defects \subseteq Defects
  BY DEF Orderly
<1> PICK way \in {"up", "down"} : way = run.way
  BY <1>1, <1>2, ScriptIs
<1> PICK v \in 0..9 : v = disk.version
  BY <1>2, SeenIs
<1>3. Scripted(s, way, v) /\ v # run.target /\ Len(s) \in Nat /\ j \in 1..Len(s)
  BY <1>1, <1>2, ScriptIs DEF AtStatement
<1>4. Sound(Seen) /\ Seen.version = v /\ Seen \in Databases /\ Seen.numbers = disk.numbers
  BY <1>2, SeenIs
<1>5. Ordered(s) /\ Fits(s, way, v) /\ Legal(way, v)
  BY <1>3 DEF Scripted
<1>6. RowsOK(s, j - 1, v, run.open, Seen)
  BY <1>1, <1>2 DEF RowsInv
<1>7. Needs(s[j], Seen)
  BY <1>1, <1>3, <1>4, <1>6, NeedsMet
<1>8. Sound(result) /\ result.version = v /\ result.numbers = disk.numbers
  BY <1>4, <1>7, EffectSound
<1>9. RowsOK(s, j, v, later, result) /\ (~later => Gone(s, j) = {})
  <2>1. PICK db : db = Seen
    OBVIOUS
  <2>2. PICK open : open = run.open
    OBVIOUS
  <2>3. Sound(db) /\ db.version = v /\ result = Effect(s[j], db) /\ run.way = way
    BY <1>4, <2>1
  <2>4. RowsOK(s, j - 1, v, open, db) /\ Needs(s[j], db) /\ (later <=> open \/ Opens(s[j]))
    BY <1>6, <1>7, <2>1, <2>2
  <2>5. Scripted(s, way, v) /\ j \in 1..Len(s)
    BY <1>3
  <2>6. Ready(s, way, v, j, open, db)
    BY <2>3, <2>4, <2>5 DEF Ready
  <2>7. Left(s, v, j, open, result)
    BY <2>3, <2>6, RowsStay
  <2> QED
    BY <2>4, <2>7 DEF RowsOK, Left
<1>10. result \in Databases
  BY <1>8 DEF Sound
<1>11. /\ run'.way = way /\ run'.target = run.target /\ run'.pc = j + 1 /\ run'.open = later
       /\ run'.view = (IF later THEN result ELSE << >>) /\ run' \in Runs
  <2>1. run \in Runs /\ (~run.open => run.view = << >>) /\ (run.open => later)
    BY <1>2 DEF RunOK
  <2>2. CASE later
    <3>1. run' = [way |-> run.way, target |-> run.target, pc |-> run.pc + 1, open |-> TRUE,
                  view |-> result]
      BY <1>1, <2>1, <2>2 DEF Runs
    <3>2. /\ run.way \in {"none", "up", "down"} /\ run.target \in 0..9 /\ run.pc + 1 \in Nat \ {0}
          /\ result \in Databases \cup {<< >>}
      BY <1>10, <2>1 DEF Runs
    <3>3. run' \in Runs
      BY <3>1, <3>2 DEF Runs
    <3> QED
      BY <2>2, <3>1, <3>3
  <2>3. CASE ~later
    BY <1>1, <2>1, <2>3 DEF Runs
  <2> QED
    BY <2>2, <2>3
<1>12. Seen' = result /\ disk' = IF later THEN disk ELSE result
  BY <1>1, <1>11 DEF Seen
<1>13. Sound(disk') /\ disk'.version = v /\ disk'.numbers = disk.numbers
  BY <1>2, <1>8, <1>12
<1>14. Working' /\ Script' = s
  <2>1. Seen'.version = Seen.version
    BY <1>4, <1>8, <1>12
  <2> QED
    BY <1>1, <1>11, <2>1 DEF Working, Script
<1>15. way = "up" => /\ First(s) \in 1..Len(s) /\ Starts(s) /\ v \in 0..8 /\ s = Up[v + 1]
                     /\ s[First(s)].op \in {"create", "tmp"}
                     /\ j < First(s) => s[j].op = "check"
  BY <1>3 DEF Scripted, Starts
<1>16. way = "up" /\ later => j > First(s)
  <2>1. CASE run.open
    BY <1>2, <2>1 DEF RunOK
  <2>2. CASE Opens(s[j])
    BY <1>3, <1>15, <2>2 DEF Opens
  <2> QED
    BY <2>1, <2>2
<1>17. RunOK'
  <2>1. started' = FALSE
    BY <1>1, <1>2, <1>3 DEF RunOK
  <2>2. /\ way = "up" => run.target = 9
        /\ way = "down" => v >= run.target /\ run.target >= 1
    BY <1>2 DEF RunOK
  <2>3. j + 1 <= Len(s) + 1 /\ (way = "up" /\ later => j + 1 > First(s))
    BY <1>3, <1>15, <1>16
  <2> QED
    BY <1>5, <1>8, <1>11, <1>13, <1>14, <2>1, <2>2, <2>3 DEF RunOK
<1>18. run'.pc - 1 = j
  BY <1>3, <1>11
<1>19. RowsInv'
  <2>1. disk'.version > 0 => Rows(disk')
    <3>1. CASE later
      BY <1>2, <1>12, <3>1 DEF RowsInv
    <3>2. CASE ~later
      BY <1>9, <1>12, <1>13, <3>2 DEF RowsOK, Rows
    <3> QED
      BY <3>1, <3>2
  <2> QED
    BY <1>9, <1>11, <1>12, <1>13, <1>14, <1>18, <2>1 DEF RowsInv
<1>20. Clean => Clean'
  <2>1. SUFFICES ASSUME Clean PROVE Clean'
    OBVIOUS
  <2>2. IsAfter(Seen, s, j - 1, way, v)
    BY <1>1, <2>1 DEF Clean
  <2>3. IsAfter(result, s, j, way, v)
    BY <1>3, <1>4, <1>5, <2>2, AfterStatement
  <2>4. ASSUME way = "up"
        PROVE  IF j + 1 > First(s) THEN Obstacle(v, disk') ELSE IsSchema(disk', v)
    <3>1. IF j > First(s) THEN Obstacle(v, disk) ELSE IsSchema(disk, v)
      BY <1>1, <2>1, <2>4 DEF Clean
    <3>2. First(s) \in Nat /\ j \in Nat
      BY <1>3, <1>15, <2>4
    <3>3. CASE j < First(s)
      <4>1. ~later /\ s[j].op = "check"
        BY <1>15, <1>16, <2>4, <3>2, <3>3
      <4>2. ~run.open
        BY <4>1
      <4>3. Seen = disk
        BY <4>2 DEF Seen
      <4>4. result = Seen
        BY <4>1 DEF Effect
      <4> QED
        BY <1>12, <3>1, <3>2, <3>3, <4>1, <4>3, <4>4
    <3>4. CASE j = First(s)
      <4>1. ~later
        BY <1>16, <2>4, <3>2, <3>4
      <4>2. Obstacle(v, result)
        BY <1>3, <1>4, <2>4, <3>4, ObstacleArises
      <4> QED
        BY <1>12, <3>2, <3>4, <4>1, <4>2
    <3>5. CASE j > First(s)
      <4>1. CASE later
        BY <1>12, <3>1, <3>2, <3>5, <4>1
      <4>2. CASE ~later
        <5>1. ~run.open /\ Seen = disk
          BY <4>2 DEF Seen
        <5>2. Obstacle(v, result)
          BY <1>3, <1>4, <1>6, <2>4, <3>1, <3>5, <5>1, ObstacleOnDisk
        <5> QED
          BY <1>12, <3>2, <3>5, <4>2, <5>2
      <4> QED
        BY <4>1, <4>2
    <3> QED
      BY <3>2, <3>3, <3>4, <3>5
  <2> QED
    BY <1>11, <1>12, <1>13, <1>14, <1>18, <2>3, <2>4 DEF Clean
<1>21. ASSUME NEW u \in 0..8, Blocked(u) PROVE Blocked(u)'
  <2>1. /\ v <= u /\ Obstacle(u, disk) /\ Obstacle(u, Seen) /\ Apart(u, s, j - 1)
        /\ way = "up" /\ v = u => j <= First(s)
    BY <1>1, <1>21 DEF Blocked
  <2>2. /\ Obstacle(u, result) /\ Apart(u, s, j)
        /\ way = "up" /\ v = u => j + 1 <= First(s)
    BY <1>1, <1>3, <1>4, <2>1, ObstacleStays
  <2>3. Obstacle(u, disk')
    BY <1>12, <2>1, <2>2
  <2>4. disk'.version <= u /\ Obstacle(u, Seen')
    BY <1>12, <1>13, <2>1, <2>2
  <2>5. /\ Apart(u, Script', run'.pc - 1)
        /\ run'.way = "up" /\ disk'.version = u => run'.pc <= First(Script')
    BY <1>11, <1>13, <1>14, <1>18, <2>2
  <2>6. Apart(u, Script, run.pc - 1)' <=> Apart(u, Script', run'.pc - 1)
    BY DEF Apart
  <2>7. Obstacle(u, disk)' /\ Obstacle(u, Seen)'
    BY <2>3, <2>4 DEF Obstacle
  <2> QED
    BY <2>4, <2>5, <2>6, <2>7 DEF Blocked
<1>22. SchemaOK'
  BY <1>1, <1>2, <1>20, <1>21 DEF SchemaOK
<1> QED
  BY <1>1, <1>2, <1>13, <1>17, <1>19, <1>22 DEF Orderly

(* ------------------------- initially and always ------------------------ *)

LEMMA SchemaFits ==
  ASSUME NEW r \in 0..9
  PROVE  /\ Schema(r) \in Tables /\ Indexed(r) \subseteq DOMAIN Schema(r)
         /\ DOMAIN Schema(r) \subseteq REQUIRED_SCHEMA_TABLES
         /\ r > 0 => OldTables \subseteq DOMAIN Schema(r)
<1>1. DOMAIN Schema(r) \subseteq REQUIRED_SCHEMA_TABLES
  BY SchemaGrows DEF REQUIRED_SCHEMA_TABLES, EXPECTED_SCHEMA_REVISION
<1>2. Schema(r) \in [DOMAIN Schema(r) -> Marks]
  BY DEF Schema, Marks
<1>3. Schema(r) \in Tables
  <2>1. PICK f : f = Schema(r)
    OBVIOUS
  <2> QED
    BY <1>1, <1>2, <2>1, TablesIs
<1>4. Indexed(r) \subseteq DOMAIN Schema(r)
  <2>1. \A i \in 1..9 : Targets(Up[i], {"index"}) \subseteq Shapes(i)
    <3>1. /\ Targets(Up[1], {"index"}) \subseteq Shapes(1) /\ Targets(Up[2], {"index"}) \subseteq Shapes(2)
          /\ Targets(Up[3], {"index"}) \subseteq Shapes(3) /\ Targets(Up[4], {"index"}) \subseteq Shapes(4)
          /\ Targets(Up[5], {"index"}) \subseteq Shapes(5) /\ Targets(Up[6], {"index"}) \subseteq Shapes(6)
          /\ Targets(Up[7], {"index"}) \subseteq Shapes(7) /\ Targets(Up[8], {"index"}) \subseteq Shapes(8)
          /\ Targets(Up[9], {"index"}) \subseteq Shapes(9)
      BY IndexesAre, ShapesAre
    <3> TAKE i \in 1..9
    <3>2. i = 1 \/ i = 2 \/ i = 3 \/ i = 4 \/ i = 5 \/ i = 6 \/ i = 7 \/ i = 8 \/ i = 9
      OBVIOUS
    <3> QED
      BY <3>1, <3>2
  <2>2. \A i \in 1..r : i \in 1..9
    OBVIOUS
  <2> QED
    BY <2>1, <2>2 DEF Indexed, Schema
<1>5. r > 0 => OldTables \subseteq DOMAIN Schema(r)
  BY OldTablesStay
<1> QED
  BY <1>1, <1>3, <1>4, <1>5

LEMMA InitHolds == MigrationsInit => Orderly
<1> SUFFICES ASSUME MigrationsInit PROVE Orderly
  OBVIOUS
<1>1. PICK r \in 0..9, numbers \in SUBSET Identifiers, next \in 0..MaxNumber :
        /\ defects \in SUBSET (IF r = 0 THEN {} ELSE Defects \ CheckedBy(r))
        /\ r = 0 => numbers = {}
        /\ IF r < 5 THEN next = 0
           ELSE next > 0 /\ \A i \in numbers : i.exact /\ i.value < next
        /\ disk = [version |-> r, tables |-> Schema(r), indexed |-> Indexed(r),
                   copies |-> << >>, filled |-> IF r = 0 THEN {} ELSE OldTables,
                   numbers |-> numbers, next |-> next]
  BY DEF MigrationsInit, EXPECTED_SCHEMA_REVISION
<1>2. run = Idle /\ started = FALSE /\ torn = {}
  BY DEF MigrationsInit
<1> PICK filled : filled = IF r = 0 THEN {} ELSE OldTables
  OBVIOUS
<1> PICK tables : tables = Schema(r)
  OBVIOUS
<1> PICK indexed : indexed = Indexed(r)
  OBVIOUS
<1>3. disk = Db(r, tables, indexed, << >>, filled, numbers, next)
  BY <1>1 DEF Db
<1>4. /\ disk.version = r /\ disk.tables = tables /\ disk.indexed = indexed
      /\ disk.copies = << >> /\ disk.filled = filled
      /\ disk.numbers = numbers /\ disk.next = next
  BY <1>3, DbIs
<1>5. disk \in Databases
  <2>1. << >> \in Copies
    <3>1. << >> \in [{} -> Copy]
      OBVIOUS
    <3> QED
      BY <3>1, CopiesIs
  <2>2. tables \in Tables /\ indexed \subseteq REQUIRED_SCHEMA_TABLES /\ filled \subseteq OldTables
    BY SchemaFits
  <2>3. numbers \subseteq Numbers /\ next \in Nat
    BY BoundsAssumption, IdentifiersAssumption DEF Numbers
  <2> QED
    BY <1>3, <2>1, <2>2, <2>3 DEF Databases, Db
<1>6. Sound(disk)
  BY <1>1, <1>4, <1>5, SchemaFits DEF Sound, Ahead
<1>7. disk.version > 0 => Rows(disk)
  BY <1>4, SchemaFits DEF Rows
<1>8. AtRest
  BY <1>2, <1>6, <1>7, IdleIsRest
<1>9. IsSchema(disk, disk.version)
  BY <1>4 DEF IsSchema
<1>10. RowsInv /\ Clean
  BY <1>8, <1>9, RestIsOrderly
<1> QED
  BY <1>1, <1>2, <1>8, <1>10 DEF Orderly, AtRest, SchemaOK

LEMMA StepHolds == Orderly /\ [MigrationsNext]_migration_vars => Orderly'
<1> SUFFICES ASSUME Orderly, [MigrationsNext]_migration_vars PROVE Orderly'
  OBVIOUS
<1>1. ASSUME NEW way \in {"up", "down"}, NEW target \in 1..EXPECTED_SCHEMA_REVISION,
             Begin(way, target)
      PROVE  Orderly'
  BY <1>1, BeginHolds
<1>2. CASE Execute
  BY <1>2, ExecuteHolds
<1>3. CASE Refuse
  BY <1>3, RefuseHolds
<1>4. CASE Collide
  BY <1>4, CollideHolds
<1>5. CASE Stamp
  BY <1>5, StampHolds
<1>6. CASE Finish
  BY <1>6, FinishHolds
<1>7. CASE Crash \/ BreakOff
  BY <1>7, CrashHolds
<1>8. CASE Bootstrap \/ Allocate \/ Shutdown
  BY <1>8, ApplicationHolds
<1>9. CASE UNCHANGED migration_vars
  <2>1. disk' = disk /\ run' = run /\ started' = started /\ defects' = defects /\ torn' = torn
    BY <1>9 DEF migration_vars
  <2>2. Seen' = Seen /\ Script' = Script /\ Working' = Working
    BY <2>1 DEF Seen, Script, Working
  <2>3. Sound(disk)'
    BY <2>1 DEF Orderly, Sound, Ahead
  <2>4. RunOK'
    BY <2>1, <2>2 DEF Orderly, RunOK, Sound, Ahead, verify_database_schema
  <2>5. RowsInv'
    BY <2>1, <2>2 DEF Orderly, RowsInv, Rows, RowsOK
  <2>6. Clean' = Clean
    BY <2>1, <2>2 DEF Clean, Obstacle, IsSchema, IsAfter
  <2>7. \A u \in 0..8 : Blocked(u)' = Blocked(u)
    BY <2>1, <2>2 DEF Blocked, Obstacle, Apart
  <2>8. SchemaOK'
    BY <2>1, <2>6, <2>7 DEF Orderly, SchemaOK
  <2> QED
    BY <2>1, <2>3, <2>4, <2>5, <2>8 DEF Orderly
<1> QED
  BY <1>1, <1>2, <1>3, <1>4, <1>5, <1>6, <1>7, <1>8, <1>9 DEF MigrationsNext

LEMMA DatabaseIs ==
  ASSUME NEW db, Sound(db)
  PROVE  IsDatabase(db) /\ db # << >>
<1>1. db \in Databases /\ db.indexed \subseteq DOMAIN db.tables
  BY DEF Sound
<1>2. /\ DOMAIN db.tables \subseteq REQUIRED_SCHEMA_TABLES
      /\ db.tables \in [DOMAIN db.tables -> Marks] /\ DOMAIN db.copies \subseteq Batched
  BY <1>1, MapsAre
<1>3. IsDatabase(db)
  BY <1>1, <1>2 DEF IsDatabase, Databases, Marks, Batched, EXPECTED_SCHEMA_REVISION
<1>4. "version" \in DOMAIN db
  BY <1>1 DEF Databases
<1>5. DOMAIN << >> = {}
  OBVIOUS
<1> QED
  BY <1>3, <1>4, <1>5

LEMMA OrderlyMeans ==
  Orderly => /\ MigrationsTypeOK /\ VersionTellsSchema /\ StartedOnHead /\ RowsKept /\ NumbersAhead
<1> SUFFICES ASSUME Orderly
             PROVE  /\ MigrationsTypeOK /\ VersionTellsSchema /\ StartedOnHead /\ RowsKept
                    /\ NumbersAhead
  OBVIOUS
<1>1. RunOK /\ Sound(disk) /\ RowsInv /\ SchemaOK /\ defects \subseteq Defects
      /\ torn \subseteq {"up", "down"} /\ run \in Runs /\ started \in BOOLEAN
  BY DEF Orderly, RunOK
<1>2. MigrationsTypeOK
  <2>1. IsDatabase(disk) /\ (run.open => IsDatabase(run.view) /\ run.view # << >>)
    BY <1>1, DatabaseIs DEF RunOK
  <2>2. ~run.open => run.view = << >>
    BY <1>1 DEF RunOK
  <2>3. run.way \in {"none", "up", "down"} /\ run.target \in 0..EXPECTED_SCHEMA_REVISION
    BY <1>1 DEF Runs, EXPECTED_SCHEMA_REVISION
  <2> QED
    BY <1>1, <2>1, <2>2, <2>3 DEF MigrationsTypeOK
<1>3. run = Idle => ~Working
  BY DEF Working, Idle
<1>4. VersionTellsSchema
  BY <1>1, <1>3 DEF VersionTellsSchema, SchemaOK, Clean
<1>5. StartedOnHead
  <2> SUFFICES ASSUME started, "down" \notin torn
               PROVE  IsSchema(disk, EXPECTED_SCHEMA_REVISION)
    BY DEF StartedOnHead
  <2>1. run = Idle /\ disk.version = 9
    BY <1>1 DEF RunOK, verify_database_schema, EXPECTED_SCHEMA_REVISION
  <2>2. \A u \in 0..8 : ~Blocked(u)
    BY <2>1 DEF Blocked
  <2> QED
    BY <1>1, <1>3, <2>1, <2>2 DEF SchemaOK, Clean, EXPECTED_SCHEMA_REVISION
<1>6. RowsKept
  BY <1>1 DEF RowsInv, Rows, RowsKept
<1>7. NumbersAhead
  BY <1>1 DEF Sound, Ahead, NumbersAhead
<1> QED
  BY <1>2, <1>4, <1>5, <1>6, <1>7

(* Through every sequence of upgrades, downgrades, refusals and crashes,   *)
(* the schema is what alembic's position in the revisions makes of it, or  *)
(* an interrupted upgrade has left a table in the way of the next one.     *)
THEOREM OrderlyHolds == MigrationsSpec => []Orderly
<1>1. MigrationsInit => Orderly
  BY InitHolds
<1>2. Orderly /\ [MigrationsNext]_migration_vars => Orderly'
  BY StepHolds
<1> QED
  BY <1>1, <1>2, PTL DEF MigrationsSpec

(* ------------------------------ first run ------------------------------ *)
(* The account is created under the write lock, so that the database goes  *)
(* once, and for good, from "no account" to "one account", and whatever a  *)
(* process holds of the temporary password belongs to that one commit.     *)

(* One process at a time writes.                                           *)
OneWriter == \A p, q \in Process : pc[p] = "locked" /\ pc[q] = "locked" => p = q

(* Without an account nobody has seen or carries a password ...            *)
BeforeCommit ==
  audits = 0 => /\ account.password = NoPassword /\ ~account.must_change
                /\ known = {} /\ \A p \in Process : credential[p] = NoPassword

(* ... and with one nobody writes another.                                 *)
AfterCommit ==
  audits # 0 => /\ audits = 1 /\ account.password # NoPassword
                /\ \A p \in Process : new[p] = NoPassword

(* One carrier at most holds the account's password, which nobody has seen. *)
Unseen ==
  \A p \in Process :
    credential[p] # NoPassword =>
      /\ credential[p] = account.password /\ credential[p] \notin known
      /\ \A q \in Process : credential[q] # NoPassword => q = p

(* A new password is not one that somebody has seen.                       *)
Drawn == \A p \in Process : new[p] # NoPassword => new[p] \notin known

(* Who is beyond the login window has used a password that is known, and   *)
(* whoever works has changed it.                                           *)
SignedIn ==
  \A p \in Process :
    /\ pc[p] \in {"change", "main"} => account.password \in known
    /\ pc[p] = "main" => ~account.must_change

FirstRunInv == TypeOK /\ OneWriter /\ BeforeCommit /\ AfterCommit /\ Unseen /\ Drawn /\ SignedIn

LEMMA InitInv == Init => FirstRunInv
BY PasswordAssumption
   DEF Init, FirstRunInv, TypeOK, Stages, Nothing, OneWriter, BeforeCommit, AfterCommit, Unseen, Drawn,
       SignedIn

(* Of every process but the one that moves, everything stays as it was.    *)
LEMMA NextInv == FirstRunInv /\ [Next]_vars => FirstRunInv'
<1> SUFFICES ASSUME FirstRunInv, [Next]_vars
             PROVE  FirstRunInv'
  OBVIOUS
<1> USE PasswordAssumption
<1>1. ASSUME NEW p \in Process, Start(p) PROVE FirstRunInv'
  BY <1>1 DEF Start, Goes, FirstRunInv, TypeOK, Stages, OneWriter, BeforeCommit, AfterCommit, Unseen,
       Drawn, SignedIn
<1>2. ASSUME NEW p \in Process, lock_for_administration(p) PROVE FirstRunInv'
  BY <1>2 DEF lock_for_administration, Locked, Goes, FirstRunInv, TypeOK, Stages, OneWriter,
       BeforeCommit, AfterCommit, Unseen, Drawn, SignedIn
<1>3. ASSUME NEW p \in Process, Busy(p) PROVE FirstRunInv'
  BY <1>3 DEF Busy, Goes, FirstRunInv, TypeOK, Stages, OneWriter, BeforeCommit, AfterCommit, Unseen,
       Drawn, SignedIn
<1>4. ASSUME NEW p \in Process, AlreadyInitialized(p) PROVE FirstRunInv'
  BY <1>4 DEF AlreadyInitialized, Goes, FirstRunInv, TypeOK, Stages, OneWriter, BeforeCommit,
       AfterCommit, Unseen, Drawn, SignedIn
<1>5. ASSUME NEW p \in Process, Generate(p) PROVE FirstRunInv'
  BY <1>5 DEF Generate, Fresh, FirstRunInv, TypeOK, Stages, OneWriter, BeforeCommit, AfterCommit,
       Unseen, Drawn, SignedIn
<1>6. ASSUME NEW p \in Process, Commit(p) PROVE FirstRunInv'
  <2>1. audits = 0 /\ \A q \in Process : q # p => new[q] = NoPassword
    BY <1>6 DEF Commit, FirstRunInv, TypeOK, OneWriter, AfterCommit
  <2>2. \A q \in Process : pc[q] \notin {"change", "main"} /\ credential[q] = NoPassword
    BY <2>1 DEF FirstRunInv, TypeOK, BeforeCommit, SignedIn
  <2>3. TypeOK'
    BY <1>6, <2>1 DEF Commit, Goes, FirstRunInv, TypeOK, Stages
  <2>4. OneWriter' /\ BeforeCommit' /\ AfterCommit'
    BY <1>6, <2>1, <2>3 DEF Commit, Goes, FirstRunInv, TypeOK, OneWriter, BeforeCommit, AfterCommit
  <2>5. Unseen' /\ Drawn' /\ SignedIn'
    BY <1>6, <2>1, <2>2 DEF Commit, Goes, FirstRunInv, TypeOK, Stages, Unseen, Drawn, SignedIn
  <2> QED
    BY <2>3, <2>4, <2>5 DEF FirstRunInv
<1>7. ASSUME NEW p \in Process, ShowFirstRun(p) PROVE FirstRunInv'
  <2>1. audits = 1 /\ \A q \in Process : new[q] = NoPassword
    BY <1>7 DEF ShowFirstRun, FirstRunInv, BeforeCommit, AfterCommit
  <2>2. \A q \in Process : q # p => credential[q] = NoPassword
    BY <1>7 DEF ShowFirstRun, FirstRunInv, Unseen
  <2>3. TypeOK'
    BY <1>7, <2>1 DEF ShowFirstRun, take_temporary_password, Goes, FirstRunInv, TypeOK, Stages
  <2>4. OneWriter' /\ BeforeCommit' /\ AfterCommit'
    BY <1>7, <2>1, <2>3 DEF ShowFirstRun, Goes, FirstRunInv, TypeOK, OneWriter, BeforeCommit, AfterCommit
  <2>5. Unseen' /\ Drawn' /\ SignedIn'
    BY <1>7, <2>1, <2>2
       DEF ShowFirstRun, take_temporary_password, Goes, FirstRunInv, TypeOK, Stages, Unseen, Drawn, SignedIn
  <2> QED
    BY <2>3, <2>4, <2>5 DEF FirstRunInv
<1>8. ASSUME NEW p \in Process, ShowLogin(p) PROVE FirstRunInv'
  BY <1>8 DEF ShowLogin, Goes, FirstRunInv, TypeOK, Stages, OneWriter, BeforeCommit, AfterCommit,
       Unseen, Drawn, SignedIn
<1>9. ASSUME NEW p \in Process, CloseFirstRun(p) PROVE FirstRunInv'
  BY <1>9 DEF CloseFirstRun, Goes, FirstRunInv, TypeOK, Stages, OneWriter, BeforeCommit, AfterCommit,
       Unseen, Drawn, SignedIn
<1>10. ASSUME NEW p \in Process, SignIn(p) PROVE FirstRunInv'
  BY <1>10 DEF SignIn, Goes, FirstRunInv, TypeOK, Stages, OneWriter, BeforeCommit, AfterCommit,
       Unseen, Drawn, SignedIn
<1>11. ASSUME NEW p \in Process, ChangePassword(p) PROVE FirstRunInv'
  <2>1. PICK password \in Fresh : /\ account' = [password |-> password, must_change |-> FALSE]
                                  /\ known' = known \cup {password}
    BY <1>11 DEF ChangePassword
  <2>2. audits = 1 /\ \A q \in Process : new[q] = NoPassword
    BY <1>11 DEF ChangePassword, FirstRunInv, BeforeCommit, AfterCommit
  <2>3. \A q \in Process : credential[q] = NoPassword
    BY <1>11 DEF ChangePassword, FirstRunInv, Unseen, SignedIn
  <2>4. TypeOK' /\ OneWriter'
    BY <1>11, <2>1 DEF ChangePassword, Fresh, Goes, FirstRunInv, TypeOK, Stages, OneWriter
  <2>5. BeforeCommit' /\ AfterCommit'
    BY <1>11, <2>1, <2>2 DEF ChangePassword, Fresh, BeforeCommit, AfterCommit
  <2>6. Unseen' /\ Drawn' /\ SignedIn'
    BY <1>11, <2>1, <2>2, <2>3
       DEF ChangePassword, Goes, FirstRunInv, TypeOK, Stages, Unseen, Drawn, SignedIn
  <2> QED
    BY <2>4, <2>5, <2>6 DEF FirstRunInv
<1>12. ASSUME NEW p \in Process, Die(p) PROVE FirstRunInv'
  BY <1>12 DEF Die, Goes, FirstRunInv, TypeOK, Stages, OneWriter, BeforeCommit, AfterCommit,
       Unseen, Drawn, SignedIn
<1>13. CASE UNCHANGED vars
  BY <1>13 DEF vars, FirstRunInv, TypeOK, OneWriter, BeforeCommit, AfterCommit, Unseen, Drawn, SignedIn
<1> QED
  BY <1>1, <1>2, <1>3, <1>4, <1>5, <1>6, <1>7, <1>8, <1>9, <1>10, <1>11, <1>12, <1>13
     DEF Next, Boot

(* What the starting processes know of each other through the write lock   *)
(* holds in every reachable state: FirstRunInv is inductive.                       *)
THEOREM InvHolds == Spec => []FirstRunInv
<1>1. Init => FirstRunInv
  BY InitInv
<1>2. FirstRunInv /\ [Next]_vars => FirstRunInv'
  BY NextInv
<1> QED
  BY <1>1, <1>2, PTL DEF Spec

(* The carrier and the dialog of a process are filled exactly where the    *)
(* code of first_run.py and the dialog fills them, in every process.       *)
THEOREM TypeCorrect == Spec => []TypeOK
<1>1. FirstRunInv => TypeOK
  BY DEF FirstRunInv
<1> QED
  BY <1>1, InvHolds, PTL

(* However many processes start at once, at most one first administrator   *)
(* is committed: count and insert are under one write lock.                *)
THEOREM OneAdministratorHolds == Spec => []OneAdministrator
<1>1. FirstRunInv => OneAdministrator
  BY DEF FirstRunInv, AfterCommit, OneAdministrator
<1> QED
  BY <1>1, InvHolds, PTL

(* Nobody works under the temporary password: the commit that sets it      *)
(* comes before anybody has signed in.                                     *)
THEOREM ChangedBeforeUseHolds == Spec => []ChangedBeforeUse
<1>1. FirstRunInv => ChangedBeforeUse
  BY DEF FirstRunInv, SignedIn, ChangedBeforeUse
<1> QED
  BY <1>1, InvHolds, PTL

LEMMA StepSeenThenGone ==
  ASSUME FirstRunInv, [Next]_vars, NEW p \in Process
  PROVE  /\ screen[p] = NoPassword /\ screen'[p] # NoPassword => screen'[p] \notin known
         /\ pc'[p] = "login" /\ pc[p] # "login" =>
              credential'[p] = NoPassword /\ screen'[p] = NoPassword
<1>1. ASSUME screen[p] = NoPassword, screen'[p] # NoPassword
      PROVE  screen'[p] \notin known
  <2>1. PICK q \in Process : ShowFirstRun(q)
    BY <1>1 DEF Next, Boot, FirstRunInv, TypeOK, Start, lock_for_administration, Busy, AlreadyInitialized,
         Generate, Commit, ShowLogin, CloseFirstRun, SignIn, ChangePassword, Die, vars
  <2>2. screen'[p] = credential[p] /\ credential[p] # NoPassword
    BY <1>1, <2>1 DEF ShowFirstRun, FirstRunInv, TypeOK
  <2> QED
    BY <2>2 DEF FirstRunInv, Unseen
<1>2. ASSUME pc'[p] = "login", pc[p] # "login"
      PROVE  credential'[p] = NoPassword /\ screen'[p] = NoPassword
  BY <1>2, NextInv DEF FirstRunInv, TypeOK
<1> QED
  BY <1>1, <1>2

(* A password that somebody has seen is on no later screen, and the login  *)
(* window opens only when dialog and carrier have dropped it.              *)
THEOREM SeenThenGoneHolds == Spec => SeenThenGone
<1>1. FirstRunInv /\ [Next]_vars =>
        [\A p \in Process :
           /\ screen[p] = NoPassword /\ screen'[p] # NoPassword => screen'[p] \notin known
           /\ pc'[p] = "login" /\ pc[p] # "login" =>
                credential'[p] = NoPassword /\ screen'[p] = NoPassword]_vars
  BY StepSeenThenGone
<1> QED
  BY <1>1, InvHolds, PTL DEF Spec, SeenThenGone

(* ------------------------------- start-up ------------------------------ *)

(* A behaviour of the whole keeps the invariant of each part: a step of    *)
(* one leaves the variables of the other as they are.                      *)
LEMMA StartupHolds == StartupSpec => [](FirstRunInv /\ Orderly)
<1>1. StartupInit => FirstRunInv /\ Orderly
  BY InitInv, InitHolds DEF StartupInit
<1>2. FirstRunInv /\ Orderly /\ [StartupNext]_<<vars, migration_vars, part>>
        => FirstRunInv' /\ Orderly'
  <2> SUFFICES ASSUME FirstRunInv, Orderly, [StartupNext]_<<vars, migration_vars, part>>
               PROVE  FirstRunInv' /\ Orderly'
    OBVIOUS
  <2>1. [Next]_vars /\ [MigrationsNext]_migration_vars
    BY DEF StartupNext
  <2> QED
    BY <2>1, NextInv, StepHolds
<1> QED
  BY <1>1, <1>2, PTL DEF StartupSpec

(* Whatever upgrades, downgrades, refusals and crashes a database goes     *)
(* through: the noted revision tells the schema as long as no run was      *)
(* interrupted, the application runs on the newest schema only as long as  *)
(* no downgrade was, no row is lost, and the next shipment number is       *)
(* beyond every generated one.                                             *)
THEOREM StartupIsConsistent == StartupSpec => []StartupConsistent
<1>1. FirstRunInv /\ Orderly => StartupConsistent
  BY OrderlyMeans DEF FirstRunInv, StartupConsistent
<1> QED
  BY <1>1, StartupHolds, PTL

(* An upgrade that was interrupted, or refused, never lets the application *)
(* start on a half-made schema, however often it is tried again: what it   *)
(* has created stands in the way of every later upgrade.  A downgrade that *)
(* was interrupted is excepted: it leaves the revision it began at.        *)
THEOREM StartsOnHeadOnly == MigrationsSpec => [](StartedOnHead /\ VersionTellsSchema)
<1>1. Orderly => StartedOnHead /\ VersionTellsSchema
  BY OrderlyMeans
<1> QED
  BY <1>1, OrderlyHolds, PTL

(* No upgrade, downgrade or crash loses the rows of the oldest tables, or  *)
(* puts the next shipment number at or below one that was generated.       *)
THEOREM NothingIsLost == MigrationsSpec => [](RowsKept /\ NumbersAhead)
<1>1. Orderly => RowsKept /\ NumbersAhead
  BY OrderlyMeans
<1> QED
  BY <1>1, OrderlyHolds, PTL
=============================================================================
