----------------------------- MODULE MCStartup ------------------------------
(***************************************************************************)
(* Before anybody works with the application: the database gets its        *)
(* schema, and the first start its administrator.  They share no state     *)
(* here, and a behaviour is one of the part it begins with: the states of  *)
(* the parts add up and do not multiply.                                   *)
(***************************************************************************)
EXTENDS FirstRun, Migrations, TLC

VARIABLE part                               \* "schema" or "first run"

(* Two generated numbers and one a user typed in lower case.               *)
SomeIdentifiers ==
  {[value |-> 1, exact |-> TRUE], [value |-> 3, exact |-> TRUE], [value |-> 2, exact |-> FALSE]}

StartupInit ==
  /\ Init /\ MigrationsInit /\ part \in {"schema", "first run"}
  /\ part = "first run" => disk.version = 0

StartupNext ==
  \/ part = "first run" /\ Next /\ UNCHANGED <<migration_vars, part>>
  \/ part = "schema" /\ MigrationsNext /\ UNCHANGED <<vars, part>>

(* The fairness of FairSpec, for the part it belongs to.                   *)
StartupSpec ==
  /\ StartupInit /\ [][StartupNext]_<<vars, migration_vars, part>>
  /\ \A p \in Process : WF_vars(part = "first run" /\ Boot(p))

(* The database through upgrades, downgrades and crashes: the revision     *)
(* tells the schema, the application runs on no other, no row is lost, and *)
(* the next shipment number is beyond every generated one.                 *)
StartupConsistent ==
  /\ TypeOK /\ MigrationsTypeOK
  /\ VersionTellsSchema /\ StartedOnHead /\ RowsKept /\ NumbersAhead
=============================================================================
