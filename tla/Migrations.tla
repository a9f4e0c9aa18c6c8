----------------------------- MODULE Migrations -----------------------------
(***************************************************************************)
(* The schema of the database: the revisions 0001 to 0009 that alembic     *)
(* applies or reverts statement by statement, a process that may die       *)
(* between any two statements, and the check of the schema at start-up.    *)
(*                                                                         *)
(* The driver opens a transaction before the first INSERT or UPDATE only:  *)
(* until then every CREATE and DROP is durable at once.  Alembic commits   *)
(* after each revision.  A table is the set of revisions that have shaped  *)
(* it; all indexes of a table come and go together.                        *)
(***************************************************************************)
EXTENDS Integers, Sequences, FiniteSets

CONSTANTS
  Identifiers,     \* numbers of existing shipments: [value, exact]
  MaxNumber,       \* bound on the numbers allocated
  MaxRuns,         \* bound on the runs of alembic
  MaxCrashes       \* bound on the crashes

ASSUME BoundsAssumption == {MaxNumber, MaxRuns, MaxCrashes} \subseteq Nat
ASSUME IdentifiersAssumption == Identifiers \subseteq [value : 0..MaxNumber, exact : BOOLEAN]

EXPECTED_SCHEMA_REVISION == 9

(* ------------------------------ revisions ------------------------------ *)

Statement(op, table) == [op |-> op, table |-> table]

Create(table) == << Statement("create", table) >>
CreateIndexed(table) == << Statement("create", table), Statement("index", table) >>
DropTable(table) == << Statement("unindex", table), Statement("drop", table) >>

(* batch_alter_table(recreate="always"): a copy takes the table's place.   *)
Batch(table) == << Statement("tmp", table), Statement("copy", table),
                   Statement("drop", table), Statement("rename", table) >>

(* What a revision refuses to touch; the refusal comes first.              *)
Check(defect) == << Statement("check", defect) >>

upgrade_1 == Create("users") \o Create("couriers") \o CreateIndexed("shipments")
               \o CreateIndexed("shipment_status_history") \o CreateIndexed("audit_events")
upgrade_2 == Check("policy") \o Batch("users")
upgrade_3 == Check("credentials") \o Batch("users")
upgrade_4 == Check("shipment_data") \o Batch("shipments") \o Batch("shipment_status_history")
               \o CreateIndexed("shipment_problems")
upgrade_5 == Create("shipment_number_sequences")
               \o << Statement("sequence", "shipment_number_sequences") >>
upgrade_6 == Check("barcodes") \o Batch("shipments")
upgrade_7 == CreateIndexed("clients") \o Batch("shipments")
               \o CreateIndexed("shipment_weight_checks")
upgrade_8 == Batch("shipments") \o CreateIndexed("shipment_services")
upgrade_9 == CreateIndexed("shipment_sms_events")

Up == << upgrade_1, upgrade_2, upgrade_3, upgrade_4, upgrade_5, upgrade_6,
         upgrade_7, upgrade_8, upgrade_9 >>

downgrade_2 == Batch("users")
downgrade_3 == Batch("users")
downgrade_4 == DropTable("shipment_problems") \o Batch("shipment_status_history")
                 \o Batch("shipments")
downgrade_5 == << Statement("drop", "shipment_number_sequences") >>
(* The two ADD COLUMNs are durable, and count as one: a run that dies      *)
(* between them, or after them, leaves a column the next one collides with.*)
downgrade_6 == << Statement("barcode", "shipments"), Statement("fill", "shipments") >>
                 \o Batch("shipments")
downgrade_7 == DropTable("shipment_weight_checks") \o Batch("shipments") \o DropTable("clients")
downgrade_8 == DropTable("shipment_services") \o Batch("shipments")
downgrade_9 == DropTable("shipment_sms_events")

(* Revision 0001 is not reverted: that empties the database.               *)
Down == << << >>, downgrade_2, downgrade_3, downgrade_4, downgrade_5, downgrade_6,
           downgrade_7, downgrade_8, downgrade_9 >>

(* What may be wrong with rows.  "phone_form": a recipient's phone is long *)
(* enough in its NFKC form, which revision 4 looks at beforehand, but not  *)
(* as it is stored, which the CHECK of the copied table measures.          *)
Defects == {"policy", "credentials", "shipment_data", "phone_form", "barcodes", "orphans"}

Targets(script, ops) == {script[i].table : i \in {j \in DOMAIN script : script[j].op \in ops}}

Shapes(r) == Targets(Up[r], {"create", "rename"})

(* The tables of revision r, with the revisions that shaped them.          *)
Schema(r) ==
  [t \in UNION {Shapes(i) : i \in 1..r} |-> {i \in 1..r : t \in Shapes(i)}]

Indexed(r) == UNION {Targets(Up[i], {"index"}) : i \in 1..r}

REQUIRED_SCHEMA_TABLES == DOMAIN Schema(EXPECTED_SCHEMA_REVISION)

(* Tables that exist, and are filled, in every database.                   *)
OldTables == DOMAIN Schema(1)
-----------------------------------------------------------------------------
VARIABLES
  disk,        \* the committed database
  run,         \* the running alembic
  started,     \* the application runs
  runs,        \* runs of alembic so far
  crashes,     \* crashes so far
  defects,     \* what is wrong with the rows
  torn         \* history: "up", "down": a run died, or broke off at a CHECK

migration_vars == <<disk, run, started, runs, crashes, defects, torn>>

Idle == [way |-> "none", target |-> 0, pc |-> 1, open |-> FALSE, view |-> << >>]

IsDatabase(db) ==
  /\ db.version \in 0..EXPECTED_SCHEMA_REVISION
  /\ DOMAIN db.tables \subseteq REQUIRED_SCHEMA_TABLES
  /\ \A t \in DOMAIN db.tables : db.tables[t] \subseteq 1..EXPECTED_SCHEMA_REVISION
  /\ DOMAIN db.copies \subseteq {"users", "shipments", "shipment_status_history"}
  /\ db.indexed \subseteq DOMAIN db.tables /\ db.filled \subseteq OldTables

MigrationsTypeOK ==
  /\ IsDatabase(disk) /\ (run.open => IsDatabase(run.view))
  /\ run.way \in {"none", "up", "down"} /\ run.target \in 0..EXPECTED_SCHEMA_REVISION
  /\ run.open <=> run.view # << >>
  /\ {started} \subseteq BOOLEAN /\ defects \subseteq Defects
  /\ torn \subseteq {"up", "down"}

(* Variant: the last number seen counts, not the highest.                  *)
highest_compatible_last(numbers) ==
  IF \A i \in numbers : ~i.exact THEN 0 ELSE (CHOOSE i \in numbers : i.exact).value

(* Only a text that is exactly a generated number is compatible.           *)
highest_compatible(numbers) ==
  CHOOSE n \in 0..MaxNumber :
    /\ \A i \in numbers : i.exact => i.value <= n
    /\ n = 0 \/ \E i \in numbers : i.exact /\ i.value = n

(* Rows are not wrong in a way that a revision already applied excludes.   *)
CheckedBy(r) ==
  UNION {Targets(Up[i], {"check"}) : i \in 1..r} \cup IF r < 4 THEN {} ELSE {"phone_form"}

MigrationsInit ==
  /\ \E r \in 0..EXPECTED_SCHEMA_REVISION, numbers \in SUBSET Identifiers,
        next \in 0..MaxNumber :
       /\ defects \in SUBSET (IF r = 0 THEN {} ELSE Defects \ CheckedBy(r))
       /\ r = 0 => numbers = {}
       /\ IF r < 5 THEN next = 0
          ELSE next > 0 /\ \A i \in numbers : i.exact /\ i.value < next
       /\ disk = [version |-> r, tables |-> Schema(r), indexed |-> Indexed(r),
                  copies |-> << >>, filled |-> IF r = 0 THEN {} ELSE OldTables,
                  numbers |-> numbers, next |-> next]
  /\ run = Idle /\ started = FALSE /\ runs = 0 /\ crashes = 0
  /\ torn = {}

(* --------------------------- the statements ---------------------------- *)

Seen == IF run.open THEN run.view ELSE disk

Script == IF run.way = "up" THEN Up[Seen.version + 1] ELSE Down[Seen.version]

Working == run.way # "none" /\ Seen.version # run.target

AtStatement == Working /\ run.pc <= Len(Script)

Now == Script[run.pc]

Opens(s) == s.op \in {"copy", "sequence", "fill"}

Without(f, x) == [y \in DOMAIN f \ {x} |-> f[y]]
With(f, x, value) == [y \in DOMAIN f \cup {x} |-> IF y = x THEN value ELSE f[y]]

(* A statement fails on what is already, or not, there.                    *)
Possible(s, db) ==
  CASE s.op = "create"  -> s.table \notin DOMAIN db.tables
    [] s.op = "index"   -> s.table \notin db.indexed
    [] s.op = "unindex" -> s.table \in db.indexed
    [] s.op = "drop"    -> s.table \in DOMAIN db.tables
    [] s.op = "tmp"     -> s.table \in DOMAIN db.tables /\ s.table \notin DOMAIN db.copies
    [] s.op = "barcode" -> 6 \in db.tables[s.table]
    [] OTHER            -> TRUE

(* The rows do not satisfy a CHECK of the copied table.                    *)
Violates ==
  /\ run.way = "up" /\ Seen.version = 3 /\ Now = Statement("copy", "shipments")
  /\ "phone_form" \in defects

(* The copy of a table has the shape that the revision gives it.           *)
Reshaped(db, t) ==
  IF run.way = "up" THEN db.tables[t] \cup {db.version + 1} ELSE db.tables[t] \ {db.version}

(* Variant: the indexes outlive the table.                                 *)
Dropped_alone(db, t) ==
  [db EXCEPT !.tables = Without(@, t), !.filled = @ \ {t},
             !.next = IF t = "shipment_number_sequences" THEN 0 ELSE @]

Dropped(db, t) ==
  [db EXCEPT !.tables = Without(@, t), !.indexed = @ \ {t}, !.filled = @ \ {t},
             !.next = IF t = "shipment_number_sequences" THEN 0 ELSE @]

Effect(s, db) ==
  CASE s.op = "create"   -> [db EXCEPT !.tables = With(@, s.table, {db.version + 1}),
                               !.filled = IF s.table \in OldTables THEN @ \cup {s.table} ELSE @]
    [] s.op = "index"    -> [db EXCEPT !.indexed = @ \cup {s.table}]
    [] s.op = "unindex"  -> [db EXCEPT !.indexed = @ \ {s.table}]
    [] s.op = "drop"     -> Dropped(db, s.table)
    [] s.op = "tmp"      -> [db EXCEPT !.copies =
                               With(@, s.table, [shape |-> Reshaped(db, s.table), filled |-> FALSE,
                                                 indexed |-> s.table \in db.indexed])]
    [] s.op = "copy"     -> [db EXCEPT !.copies[s.table].filled = s.table \in db.filled]
    [] s.op = "rename"   -> [db EXCEPT
                               !.tables = With(@, s.table, db.copies[s.table].shape),
                               !.filled = IF db.copies[s.table].filled THEN @ \cup {s.table} ELSE @,
                               !.indexed = IF db.copies[s.table].indexed
                                           THEN @ \cup {s.table} ELSE @,
                               !.copies = Without(@, s.table)]
    [] s.op = "sequence" -> [db EXCEPT !.next = highest_compatible(db.numbers) + 1]
    [] s.op = "barcode"  -> [db EXCEPT !.tables[s.table] = @ \ {6}]
    [] OTHER             -> db

(* ------------------------------- alembic ------------------------------- *)

(* upgrade_to_head, or a downgrade, of a database that nobody uses.        *)
Begin(way, target) ==
  /\ run = Idle /\ ~started /\ runs < MaxRuns
  /\ \/ way = "up" /\ target = EXPECTED_SCHEMA_REVISION
     \/ way = "down" /\ target \in 1..(disk.version - 1)
  /\ run' = [Idle EXCEPT !.way = way, !.target = target]
  /\ runs' = runs + 1
  /\ UNCHANGED <<disk, started, crashes, defects, torn>>

(* Variant: the driver opens no transaction; every statement is durable.   *)
Execute_autocommit ==
  /\ AtStatement /\ Possible(Now, Seen) /\ ~Violates
  /\ Now.op = "check" => Now.table \notin defects
  /\ disk' = Effect(Now, Seen)
  /\ run' = [run EXCEPT !.pc = @ + 1]
  /\ UNCHANGED <<started, runs, crashes, defects, torn>>

Execute ==
  /\ AtStatement /\ Possible(Now, Seen) /\ ~Violates
  /\ Now.op = "check" => Now.table \notin defects
  /\ IF run.open \/ Opens(Now)
     THEN run' = [run EXCEPT !.pc = @ + 1, !.open = TRUE, !.view = Effect(Now, Seen)]
          /\ UNCHANGED disk
     ELSE run' = [run EXCEPT !.pc = @ + 1] /\ disk' = Effect(Now, Seen)
  /\ UNCHANGED <<started, runs, crashes, defects, torn>>

(* An exception ends the run and rolls the open transaction back.          *)
Fail ==
  /\ run' = Idle
  /\ UNCHANGED <<disk, started, runs, crashes, defects, torn>>

Refuse == AtStatement /\ Now.op = "check" /\ Now.table \in defects /\ Fail

Collide == AtStatement /\ ~Possible(Now, Seen) /\ Fail

(* The copy is rolled back; its empty table was durable and stays behind.  *)
BreakOff ==
  /\ AtStatement /\ Violates
  /\ run' = Idle
  /\ torn' = torn \cup {run.way}
  /\ UNCHANGED <<disk, started, runs, crashes, defects>>

(* Variant: the revision is noted before its statements.                   *)
Stamp_early ==
  /\ Working /\ run.pc = 1
  /\ disk' = [Seen EXCEPT !.version = IF run.way = "up" THEN @ + 1 ELSE @ - 1]
  /\ run' = [Idle EXCEPT !.way = run.way, !.target = run.target]
  /\ UNCHANGED <<started, runs, crashes, defects, torn>>

(* The revision is noted in alembic_version and committed.                 *)
Stamp ==
  /\ Working /\ run.pc = Len(Script) + 1
  /\ disk' = [Seen EXCEPT !.version = IF run.way = "up" THEN @ + 1 ELSE @ - 1]
  /\ run' = [Idle EXCEPT !.way = run.way, !.target = run.target]
  /\ UNCHANGED <<started, runs, crashes, defects, torn>>

(* The foreign keys are checked when every revision is committed.          *)
Finish ==
  /\ run.way # "none" /\ ~Working
  /\ IF "orphans" \in defects
     THEN Fail
     ELSE run' = Idle /\ UNCHANGED <<disk, started, runs, crashes, defects, torn>>

(* The process dies; SQLite rolls the open transaction back.               *)
Crash ==
  /\ run.way # "none" /\ crashes < MaxCrashes
  /\ run' = Idle
  /\ crashes' = crashes + 1
  /\ torn' = torn \cup {run.way}
  /\ UNCHANGED <<disk, started, runs, defects>>

(* --------------------------- the application --------------------------- *)

(* Variant: only the tables are looked at.                                 *)
verify_tables_only(db) == REQUIRED_SCHEMA_TABLES \subseteq DOMAIN db.tables

verify_database_schema(db) ==
  db.version = EXPECTED_SCHEMA_REVISION /\ REQUIRED_SCHEMA_TABLES \subseteq DOMAIN db.tables

Bootstrap ==
  /\ run = Idle /\ ~started
  /\ verify_database_schema(disk)
  /\ started' = TRUE
  /\ UNCHANGED <<disk, run, runs, crashes, defects, torn>>

(* A shipment takes the next number, unless a canonical number equals it.  *)
Allocate ==
  /\ started /\ disk.next \in 1..(MaxNumber - 1)
  /\ \A i \in disk.numbers : i.value # disk.next
  /\ disk' = [disk EXCEPT !.next = @ + 1,
                          !.numbers = @ \cup {[value |-> disk.next, exact |-> TRUE]}]
  /\ UNCHANGED <<run, started, runs, crashes, defects, torn>>

Shutdown ==
  /\ started /\ started' = FALSE
  /\ UNCHANGED <<disk, run, runs, crashes, defects, torn>>

MigrationsNext ==
  \/ \E way \in {"up", "down"}, target \in 1..EXPECTED_SCHEMA_REVISION : Begin(way, target)
  \/ Execute \/ Refuse \/ Collide \/ BreakOff \/ Stamp \/ Finish \/ Crash
  \/ Bootstrap \/ Allocate \/ Shutdown

MigrationsSpec == MigrationsInit /\ [][MigrationsNext]_migration_vars
-----------------------------------------------------------------------------
IsSchema(db, r) ==
  /\ db.tables = Schema(r) /\ db.indexed = Indexed(r) /\ db.copies = << >>

(* Where no run died or broke off, the noted revision says exactly what    *)
(* tables, shapes and indexes there are - also after a refused upgrade.    *)
VersionTellsSchema ==
  run = Idle /\ torn = {} => IsSchema(disk, disk.version)

(* The application only ever runs on the schema it was written for,        *)
(* however often upgrades were interrupted and tried again.                *)
StartedOnHead == started /\ "down" \notin torn => IsSchema(disk, EXPECTED_SCHEMA_REVISION)

(* No crash, refusal or failure loses a row: the tables that existed       *)
(* from the start are there and filled, once the first upgrade is through. *)
RowsKept == disk.version > 0 => OldTables \subseteq disk.filled \cap DOMAIN disk.tables

(* The next number is beyond every generated one, also when it has been    *)
(* recomputed after a downgrade.                                           *)
NumbersAhead ==
  disk.next # 0 => \A i \in disk.numbers : i.exact => i.value < disk.next
=============================================================================
