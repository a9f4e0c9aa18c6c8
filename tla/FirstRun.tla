------------------------------ MODULE FirstRun ------------------------------
(***************************************************************************)
(* The first start of the application: one or more processes find a        *)
(* database without users, the first to get the write lock creates the     *)
(* administrator, and its password goes from the commit through a one-shot *)
(* carrier onto the screen, once.  A process may die anywhere.             *)
(***************************************************************************)
EXTENDS Naturals

CONSTANTS
  Process,       \* application processes on the workstation
  Password,      \* passwords that are generated or chosen
  NoPassword     \* an empty field, an empty carrier, no account

ASSUME PasswordAssumption == NoPassword \notin Password

VARIABLES
  account,       \* the committed administrator: its password, must_change
  audits,        \* number of FIRST_ADMIN_CREATED events committed
  pc,            \* where a process is
  new,           \* the uncommitted password of a writing process
  credential,    \* TemporaryCredential._temporary_password of a process
  screen,        \* the text of its FirstRunDialog
  known          \* history: the passwords somebody has seen

vars == <<account, audits, pc, new, credential, screen, known>>

Stages == {"down", "verified", "locked", "assembling", "dialog", "login", "change", "main"}

TypeOK ==
  /\ account.password \in Password \cup {NoPassword} /\ account.must_change \in BOOLEAN
  /\ audits \in Nat /\ known \subseteq Password
  /\ pc \in [Process -> Stages]
  /\ {new, credential, screen} \subseteq [Process -> Password \cup {NoPassword}]
  /\ \A p \in Process :
       /\ new[p] # NoPassword => pc[p] = "locked"
       /\ credential[p] # NoPassword => pc[p] = "assembling"
       /\ screen[p] # NoPassword <=> pc[p] = "dialog"

Nothing == [p \in Process |-> NoPassword]

Init ==
  /\ account = [password |-> NoPassword, must_change |-> FALSE] /\ audits = 0
  /\ pc = [p \in Process |-> "down"]
  /\ new = Nothing /\ credential = Nothing /\ screen = Nothing
  /\ known = {}

Goes(p, stage) == pc' = [pc EXCEPT ![p] = stage]

(* main: bootstrap has verified connection and schema.                     *)
Start(p) ==
  /\ pc[p] = "down" /\ Goes(p, "verified")
  /\ UNCHANGED <<account, audits, new, credential, screen, known>>

Locked == \E p \in Process : pc[p] = "locked"

(* Variant: an ordinary transaction, which others may begin too.           *)
lock_for_administration_shared(p) ==
  /\ pc[p] = "verified" /\ Goes(p, "locked")
  /\ UNCHANGED <<account, audits, new, credential, screen, known>>

(* BEGIN IMMEDIATE waits for the lock ...                                  *)
lock_for_administration(p) ==
  /\ pc[p] = "verified" /\ ~Locked /\ Goes(p, "locked")
  /\ UNCHANGED <<account, audits, new, credential, screen, known>>

(* Variant: the wait has no limit.                                         *)
Busy_never(p) == FALSE /\ UNCHANGED vars

(* ... or gives up; main shows the failure and ends.                       *)
Busy(p) ==
  /\ pc[p] = "verified" /\ Locked /\ Goes(p, "down")
  /\ UNCHANGED <<account, audits, new, credential, screen, known>>

(* initialize: with users there is nothing to do ...                       *)
AlreadyInitialized(p) ==
  /\ pc[p] = "locked" /\ new[p] = NoPassword
  /\ account.password # NoPassword
  /\ Goes(p, "assembling")
  /\ UNCHANGED <<account, audits, new, credential, screen, known>>

(* A password that nobody has or has seen; one that died unseen may come   *)
(* up again.                                                               *)
Fresh == Password \ (known \cup {account.password})

(* ... else the account and its audit event are added ...                  *)
Generate(p) ==
  /\ pc[p] = "locked" /\ new[p] = NoPassword
  /\ account.password = NoPassword
  /\ \E password \in Fresh : new' = [new EXCEPT ![p] = password]
  /\ UNCHANGED <<account, audits, pc, credential, screen, known>>

(* ... and committed; the password is now in the carrier only.             *)
Commit(p) ==
  /\ new[p] # NoPassword
  /\ account' = [password |-> new[p], must_change |-> TRUE]
  /\ audits' = audits + 1
  /\ credential' = [credential EXCEPT ![p] = new[p]]
  /\ new' = [new EXCEPT ![p] = NoPassword]
  /\ Goes(p, "assembling")
  /\ UNCHANGED <<screen, known>>

(* Variant: the carrier keeps the password.                                *)
take_temporary_password_again(p) == UNCHANGED credential

take_temporary_password(p) == credential' = [credential EXCEPT ![p] = NoPassword]

(* DesktopApplication.start: the dialog takes the password, once ...       *)
ShowFirstRun(p) ==
  /\ pc[p] = "assembling" /\ credential[p] # NoPassword
  /\ screen' = [screen EXCEPT ![p] = credential[p]]
  /\ known' = known \cup {credential[p]}
  /\ take_temporary_password(p)
  /\ Goes(p, "dialog")
  /\ UNCHANGED <<account, audits, new>>

(* ... or the login window opens at once.                                  *)
ShowLogin(p) ==
  /\ pc[p] = "assembling" /\ credential[p] = NoPassword
  /\ Goes(p, "login")
  /\ UNCHANGED <<account, audits, new, credential, screen, known>>

(* done and closeEvent of the dialog.                                      *)
CloseFirstRun(p) ==
  /\ pc[p] = "dialog"
  /\ screen' = [screen EXCEPT ![p] = NoPassword]
  /\ Goes(p, "login")
  /\ UNCHANGED <<account, audits, new, credential, known>>

(* Variant: a temporary password opens the main window.                    *)
SignIn_directly(p) ==
  /\ pc[p] = "login" /\ account.password \in known
  /\ Goes(p, "main")
  /\ UNCHANGED <<account, audits, new, credential, screen, known>>

SignIn(p) ==
  /\ pc[p] = "login" /\ account.password \in known
  /\ Goes(p, IF account.must_change THEN "change" ELSE "main")
  /\ UNCHANGED <<account, audits, new, credential, screen, known>>

(* change_password checks the current password; a stale session fails.     *)
ChangePassword(p) ==
  /\ pc[p] = "change" /\ account.must_change
  /\ \E password \in Fresh :
       account' = [password |-> password, must_change |-> FALSE] /\ known' = known \cup {password}
  /\ Goes(p, "main")
  /\ UNCHANGED <<audits, new, credential, screen>>

(* The process ends or dies: its transaction is rolled back and its        *)
(* memory is gone.                                                         *)
Die(p) ==
  /\ pc[p] # "down" /\ Goes(p, "down")
  /\ new' = [new EXCEPT ![p] = NoPassword]
  /\ credential' = [credential EXCEPT ![p] = NoPassword]
  /\ screen' = [screen EXCEPT ![p] = NoPassword]
  /\ UNCHANGED <<account, audits, known>>

(* What a starting process does by itself.                                 *)
Boot(p) ==
  \/ lock_for_administration(p) \/ Busy(p) \/ AlreadyInitialized(p) \/ Generate(p)
  \/ Commit(p) \/ ShowFirstRun(p) \/ ShowLogin(p)

Next ==
  \E p \in Process :
    \/ Start(p) \/ Boot(p) \/ CloseFirstRun(p) \/ SignIn(p) \/ ChangePassword(p) \/ Die(p)

Spec == Init /\ [][Next]_vars

(* A process that starts runs on until a window is open or it has failed.  *)
FairSpec == Spec /\ \A p \in Process : WF_vars(Boot(p))
-----------------------------------------------------------------------------
(* However many processes start at once, and die, there is at most one     *)
(* first administrator: the count of users is read under the write lock.   *)
OneAdministrator == audits <= 1

(* Nobody works with the application while the administrator still has     *)
(* its temporary password.                                                 *)
ChangedBeforeUse == (\E p \in Process : pc[p] = "main") => ~account.must_change

(* The temporary password is displayed once: no dialog opens with one that *)
(* was seen before, whatever processes died in between, and once the login *)
(* window is open it is in neither dialog nor carrier.                     *)
SeenThenGone ==
  [][\A p \in Process :
       /\ screen[p] = NoPassword /\ screen'[p] # NoPassword => screen'[p] \notin known
       /\ pc'[p] = "login" /\ pc[p] # "login" =>
            credential'[p] = NoPassword /\ screen'[p] = NoPassword]_vars

(* A start ends, unless the process dies: with a window, or with the       *)
(* message that the database is busy.                                      *)
StartEnds ==
  \A p \in Process : pc[p] = "verified" ~> pc[p] \in {"dialog", "login", "down"}
=============================================================================
