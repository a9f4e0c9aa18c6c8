-------------------------- MODULE MCDesktopSession --------------------------
(***************************************************************************)
(* What lies between the user and the program: the desktop shell, and the  *)
(* throttling of logins with the thresholds of lockout.py.  They share no  *)
(* state, and a behaviour is one of the part it begins with: the states of *)
(* the parts add up and do not multiply.                                   *)
(***************************************************************************)
EXTENDS DesktopSession, TLC

CONSTANTS   \* of Users
  Desks, NoSession, Names, Passwords, LOCKOUT_THRESHOLD, INITIAL_LOCKOUT, MAX_LOCKOUT,
  MaxUsers, MaxCredential, MaxAttempts, MaxClock

VARIABLES
  part,                                     \* "shell" or "login"
  users, contexts, clock

accounts == <<users, contexts, clock>>

Accounts == INSTANCE Users WITH session <- contexts

ASSUME AccountsAssumption ==
  /\ Accounts!NamesAssumption /\ Accounts!LockoutAssumption
  /\ Accounts!LimitsAssumption /\ Accounts!NoSessionAssumption

DesktopInit ==
  /\ Init /\ Accounts!Init /\ part \in {"shell", "login"}
  /\ part = "login" => ~first_run

DesktopNext ==
  \/ part = "shell" /\ Next /\ UNCHANGED <<accounts, part>>
  \/ part = "login" /\ Accounts!Next /\ UNCHANGED <<vars, part>>

DesktopSpec ==
  DesktopInit /\ [][DesktopNext]_<<vars, accounts, part>> /\ Fairness

(* A login and a logout is answered, and a closed window ends the program  *)
(* although the calls of the pool post their results to the GUI thread.    *)
EverythingAnswered == LoginAnswered /\ LogoutAnswered /\ ClosesInTheEnd

(* Locks match the count of failures and never outlast the cap of their    *)
(* duration; and whoever guesses at a password waits out every one of them. *)
LockoutConsistent == Accounts!LockoutConsistent
GuessingTakesTime == Accounts!GuessingTakesTime
=============================================================================
