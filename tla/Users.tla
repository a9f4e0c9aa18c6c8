------------------------------- MODULE Users -------------------------------
(***************************************************************************)
(* Accounts and sessions: first-run initialisation, login with throttling, *)
(* password changes and user administration.                               *)
(*                                                                         *)
(* Every operation that writes begins with lock_for_administration, that   *)
(* is BEGIN IMMEDIATE, and reads only under that lock: each is one atomic  *)
(* step, or nothing at all when the lock is busy or the call raises.  What *)
(* is not atomic is the SessionContext: an immutable copy of some columns  *)
(* of the user, taken at login, which its holder keeps while others change *)
(* the row.  A desk is any such holder: a window, or a call that is still  *)
(* under way with a context its window has already replaced.  A process    *)
(* that dies loses its contexts, as logout does.                           *)
(*                                                                         *)
(* Left out: the audit event each operation adds in the same transaction,  *)
(* rehashing (the password stays the same), and stored hashes that are     *)
(* malformed.                                                              *)
(***************************************************************************)
EXTENDS Integers, Sequences, FiniteSets

CONSTANTS
  Desks,                \* holders of a session context
  NoSession,            \* a desk that holds none
  Names,                \* usernames, normalised
  Passwords,
  LOCKOUT_THRESHOLD,
  INITIAL_LOCKOUT,      \* INITIAL_LOCKOUT_SECONDS, in ticks of the clock
  MAX_LOCKOUT,          \* MAX_LOCKOUT_SECONDS, in ticks of the clock
  MaxUsers,             \* bound: accounts created
  MaxCredential,        \* bound: no password change from this version on
  MaxAttempts,          \* bound: no counted failure from this many on
  MaxClock              \* bound: the last clock value; every lock ends by then

UserRoles == {"ADMIN", "SUPERVISOR", "WAREHOUSE_OPERATOR"}

ASSUME NamesAssumption == "admin" \in Names
ASSUME LockoutAssumption ==
  /\ {LOCKOUT_THRESHOLD, INITIAL_LOCKOUT, MAX_LOCKOUT} \subseteq Nat \ {0}
  /\ INITIAL_LOCKOUT <= MAX_LOCKOUT
ASSUME LimitsAssumption == {MaxUsers, MaxCredential, MaxAttempts, MaxClock} \subseteq Nat

VARIABLES
  users,      \* the users table: users[i] is the row with id i
  session,    \* the context each desk holds
  clock       \* the wall clock, never set back

vars == <<users, session, clock>>

Never == 0    \* a NULL timestamp; the clock starts at 1

User == [username: Names, role: UserRoles, active: BOOLEAN, archived: BOOLEAN,
         must_change_password: BOOLEAN, credential_version: Nat,
         password: Passwords, failed_login_attempts: Nat, locked_until: Nat]

(* opened_with is the password that opened the session, kept for the       *)
(* properties only: a SessionContext does not hold it.  The username and   *)
(* the time of the login are left out: no operation here reads them.       *)
SessionContext == [user: Nat \ {0}, role: UserRoles, must_change_password: BOOLEAN,
                   credential_version: Nat, opened_with: Passwords]

ASSUME NoSessionAssumption == NoSession \notin SessionContext

TypeOK ==
  /\ users \in Seq(User)
  /\ session \in [Desks -> SessionContext \cup {NoSession}]
  /\ clock \in Nat

Init ==
  /\ users = <<>>
  /\ session = [d \in Desks |-> NoSession]
  /\ clock = 1

Signed(d) == session[d] # NoSession

Available(user) == user.active /\ ~user.archived

Reserved(name) == \E i \in DOMAIN users : users[i].username = name

TemporaryAccount(name, role, password) ==
  [username |-> name, role |-> role, active |-> TRUE, archived |-> FALSE,
   must_change_password |-> TRUE, credential_version |-> 0,
   password |-> password, failed_login_attempts |-> 0, locked_until |-> Never]

Context(i, user) ==
  [user |-> i, role |-> user.role, must_change_password |-> user.must_change_password,
   credential_version |-> user.credential_version, opened_with |-> user.password]

(* FirstRunAdministratorService.initialize.                                *)
initialize ==
  /\ users = <<>>
  /\ \E p \in Passwords : users' = <<TemporaryAccount("admin", "ADMIN", p)>>
  /\ UNCHANGED <<session, clock>>

(* ------------------------------- login --------------------------------- *)

(* Variant: the duration doubles without a cap.                            *)
lockout_uncapped(n) ==
  IF n < LOCKOUT_THRESHOLD THEN 0 ELSE INITIAL_LOCKOUT * 2 ^ (n - LOCKOUT_THRESHOLD)

(* The delay after the n-th consecutive failure; 0 for none.               *)
lockout_duration(n) ==
  IF n < LOCKOUT_THRESHOLD THEN 0
  ELSE IF n >= LOCKOUT_THRESHOLD + 5 THEN MAX_LOCKOUT
  ELSE LET seconds == INITIAL_LOCKOUT * <<1, 2, 4, 8, 16>>[n - LOCKOUT_THRESHOLD + 1]
       IN IF seconds <= MAX_LOCKOUT THEN seconds ELSE MAX_LOCKOUT

(* Variant: only the login that succeeds looks at the lock.                *)
LockForgotten(user) == FALSE

Locked(user) == user.locked_until # Never /\ user.locked_until > clock

(* An unknown, unavailable or locked account changes nothing.              *)
LoginRefused(user) == ~Available(user) \/ Locked(user)

login_failure(i) ==
  LET user == users[i]
      attempts == user.failed_login_attempts + 1
      duration == lockout_duration(attempts)
  IN /\ ~LoginRefused(user)
     /\ user.failed_login_attempts < MaxAttempts
     /\ clock + MAX_LOCKOUT <= MaxClock
     /\ users' = [users EXCEPT ![i] = [user EXCEPT
          !.failed_login_attempts = attempts,
          !.locked_until = IF duration = 0 THEN Never ELSE clock + duration]]
     /\ UNCHANGED <<session, clock>>

(* Variant: a success takes back one failure, if there was one or not.     *)
LoginForgivesOne(d, i) ==
  /\ ~Signed(d)
  /\ ~LoginRefused(users[i])
  /\ users' = [users EXCEPT ![i] = [@ EXCEPT !.failed_login_attempts = @ - 1,
                                            !.locked_until = Never]]
  /\ session' = [session EXCEPT ![d] = Context(i, users[i])]
  /\ UNCHANGED clock

login_success(d, i) ==
  /\ ~Signed(d)
  /\ ~LoginRefused(users[i])
  /\ users' = [users EXCEPT ![i] = [@ EXCEPT !.failed_login_attempts = 0,
                                            !.locked_until = Never]]
  /\ session' = [session EXCEPT ![d] = Context(i, users[i])]
  /\ UNCHANGED clock

logout(d) ==
  /\ Signed(d)
  /\ session' = [session EXCEPT ![d] = NoSession]
  /\ UNCHANGED <<users, clock>>

(* What a password change and a reset have in common.                      *)
NewCredential(user, password, temporary) ==
  [user EXCEPT !.password = password, !.credential_version = @ + 1,
               !.must_change_password = temporary,
               !.failed_login_attempts = 0, !.locked_until = Never]

(* Variant: the version is counted from the context.                       *)
ChangeFromContext(d) ==
  \E p \in Passwords :
    LET i == session[d].user
        changed == [NewCredential(users[i], p, FALSE)
                      EXCEPT !.credential_version = session[d].credential_version + 1]
    IN /\ Available(users[i])
       /\ users[i].credential_version < MaxCredential
       /\ p # users[i].password
       /\ users' = [users EXCEPT ![i] = changed]
       /\ session' = [session EXCEPT ![d] = Context(i, changed)]
       /\ UNCHANGED clock

(* Variant: the temporary password may be kept.                            *)
ChangeToSame(d) ==
  \E p \in Passwords :
    LET i == session[d].user
        changed == NewCredential(users[i], p, FALSE)
    IN /\ Available(users[i])
       /\ users[i].credential_version < MaxCredential
       /\ users' = [users EXCEPT ![i] = changed]
       /\ session' = [session EXCEPT ![d] = Context(i, changed)]
       /\ UNCHANGED clock

(* The user types the current password and a different one; neither the    *)
(* version nor the flag of the context is looked at.                       *)
change_password(d) ==
  \E p \in Passwords :
    LET i == session[d].user
        changed == NewCredential(users[i], p, FALSE)
    IN /\ Available(users[i])
       /\ users[i].credential_version < MaxCredential
       /\ p # users[i].password
       /\ users' = [users EXCEPT ![i] = changed]
       /\ session' = [session EXCEPT ![d] = Context(i, changed)]
       /\ UNCHANGED clock

(* ---------------------------- administration --------------------------- *)

(* Variant: the credential version of the context is not compared.         *)
AnyAdministrator(d) ==
  /\ session[d].role = "ADMIN" /\ ~session[d].must_change_password
  /\ Available(users[session[d].user]) /\ users[session[d].user].role = "ADMIN"

(* require_permission(MANAGE_USERS) on the context, and then               *)
(* _require_current_administrator on the row.                              *)
require_current_administrator(d) ==
  LET actor == users[session[d].user]
  IN /\ session[d].role = "ADMIN"
     /\ ~session[d].must_change_password
     /\ Available(actor)
     /\ actor.role = "ADMIN"
     /\ actor.credential_version = session[d].credential_version

active_admins == {i \in DOMAIN users : Available(users[i]) /\ users[i].role = "ADMIN"}

(* Variant: off by one.                                                    *)
ZeroAdminsLeft(i) == i \in active_admins /\ Cardinality(active_admins) < 1

LastActiveAdministrator(i) == i \in active_admins /\ Cardinality(active_admins) <= 1

Mutate(d, i, changed) ==
  /\ require_current_administrator(d)
  /\ users' = [users EXCEPT ![i] = changed]
  /\ UNCHANGED <<session, clock>>

create_user(d) ==
  /\ require_current_administrator(d)
  /\ Len(users) < MaxUsers
  /\ \E name \in Names, role \in UserRoles, p \in Passwords :
       /\ ~Reserved(name)
       /\ users' = Append(users, TemporaryAccount(name, role, p))
  /\ UNCHANGED <<session, clock>>

change_username(d, i) ==
  \E name \in Names :
    /\ ~Reserved(name)
    /\ Mutate(d, i, [users[i] EXCEPT !.username = name])

change_role(d, i) ==
  \E role \in UserRoles \ {users[i].role} :
    /\ role # "ADMIN" => ~LastActiveAdministrator(i)
    /\ Mutate(d, i, [users[i] EXCEPT !.role = role])

(* Variant: an archived user can be activated.                             *)
ActivateArchived(d, i) ==
  /\ ~users[i].active
  /\ Mutate(d, i, [users[i] EXCEPT !.active = TRUE])

activate_user(d, i) ==
  /\ ~users[i].archived
  /\ ~users[i].active
  /\ Mutate(d, i, [users[i] EXCEPT !.active = TRUE])

deactivate_user(d, i) ==
  /\ ~LastActiveAdministrator(i)
  /\ users[i].active
  /\ Mutate(d, i, [users[i] EXCEPT !.active = FALSE])

archive_user(d, i) ==
  /\ ~LastActiveAdministrator(i)
  /\ ~users[i].archived
  /\ Mutate(d, i, [users[i] EXCEPT !.active = FALSE, !.archived = TRUE])

restore_user(d, i) ==
  /\ users[i].archived
  /\ Mutate(d, i, [users[i] EXCEPT !.archived = FALSE, !.active = FALSE])

(* Variant: a reset leaves the sessions of the user as they are.           *)
ResetKeepsVersion(d, i) ==
  /\ i # session[d].user
  /\ ~users[i].archived
  /\ \E p \in Passwords :
       Mutate(d, i, [users[i] EXCEPT !.password = p, !.must_change_password = TRUE])

reset_password(d, i) ==
  /\ i # session[d].user
  /\ ~users[i].archived
  /\ users[i].credential_version < MaxCredential
  /\ \E p \in Passwords : Mutate(d, i, NewCredential(users[i], p, TRUE))

Tick ==
  /\ clock < MaxClock
  /\ clock' = clock + 1
  /\ UNCHANGED <<users, session>>

(* ---------------------------- specification ---------------------------- *)

Administer(d, i) ==
  \/ change_username(d, i) \/ change_role(d, i) \/ activate_user(d, i)
  \/ deactivate_user(d, i) \/ archive_user(d, i) \/ restore_user(d, i)
  \/ reset_password(d, i)

Next ==
  \/ initialize
  \/ Tick
  \/ \E i \in DOMAIN users : login_failure(i) \/ \E d \in Desks : login_success(d, i)
  \/ \E d \in {e \in Desks : Signed(e)} :
       \/ logout(d) \/ change_password(d) \/ create_user(d)
       \/ \E i \in DOMAIN users : Administer(d, i)

Spec == Init /\ [][Next]_vars

(* ----------------------------- properties ------------------------------ *)

(* However the administrators work against each other, one active,         *)
(* unarchived administrator is left.                                       *)
LastAdmin == users # <<>> => active_admins # {}

(* An archived account is never active, so neither restoring nor counting  *)
(* administrators can bring it back by surprise.                           *)
ArchivedInactive == \A i \in DOMAIN users : users[i].archived => ~users[i].active

(* A context whose credential version is the row's was opened with the     *)
(* password that is still valid, and knows whether it is a temporary one:  *)
(* comparing the version alone is enough to shut out every session of an   *)
(* older password and every session that still has to change it.           *)
SessionCurrent ==
  \A d \in Desks :
    Signed(d) =>
      LET user == users[session[d].user]
      IN /\ session[d].user \in DOMAIN users
         /\ session[d].credential_version <= user.credential_version
         /\ session[d].credential_version = user.credential_version
              => /\ session[d].opened_with = user.password
                 /\ session[d].must_change_password = user.must_change_password

(* The columns only an administrator may set.                              *)
Administered(user) == <<user.username, user.role, user.active, user.archived>>

(* Accounts are created, renamed, promoted, demoted, (de)activated,        *)
(* archived and restored only while a desk holds a context of an active,   *)
(* unarchived administrator whose valid, non-temporary password opened it. *)
(* The first account is the exception.                                     *)
OnlyAdministratorsAdminister ==
  [][(/\ users # <<>>
      /\ \/ Len(users') # Len(users)
         \/ \E i \in DOMAIN users : Administered(users'[i]) # Administered(users[i]))
     => \E d \in Desks :
          /\ Signed(d)
          /\ session[d].user \in active_admins
          /\ session[d].opened_with = users[session[d].user].password
          /\ ~users[session[d].user].must_change_password]_vars

(* A temporary password is replaced by a different one, and by a holder of *)
(* a session of that very user.                                            *)
TemporaryPasswordReplaced ==
  [][\A i \in DOMAIN users :
       users[i].must_change_password /\ ~users'[i].must_change_password
         => /\ users'[i].password # users[i].password
            /\ \E d \in Desks : Signed(d) /\ session[d].user = i]_vars

(* While an account is locked no guess is counted and nobody gets a        *)
(* session of it, the right password included; a lock is only lifted early *)
(* by a new password.                                                      *)
LockRespected ==
  [][\A i \in DOMAIN users :
       users[i].locked_until > clock =>
         /\ users'[i].failed_login_attempts <= users[i].failed_login_attempts
         /\ users'[i].locked_until # users[i].locked_until
              => users'[i].credential_version > users[i].credential_version
         /\ \A d \in Desks :
              Signed(d)' /\ ~Signed(d) => session'[d].user # i]_vars

(* From the threshold on every failure leaves a lock, below it there is    *)
(* none, and no lock outlasts MAX_LOCKOUT.                                 *)
LockoutConsistent ==
  \A i \in DOMAIN users :
    /\ users[i].locked_until # Never <=> users[i].failed_login_attempts >= LOCKOUT_THRESHOLD
    /\ users[i].locked_until <= clock + MAX_LOCKOUT

(* n failures in a row keep an account locked for this long.               *)
TimeLocked[n \in Nat] == IF n = 0 THEN 0 ELSE TimeLocked[n-1] + lockout_duration(n-1)

(* Whoever guesses passwords one after the other waits out every lock.     *)
GuessingTakesTime ==
  \A i \in DOMAIN users : clock >= 1 + TimeLocked[users[i].failed_login_attempts]
=============================================================================
