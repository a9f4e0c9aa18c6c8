----------------------------- MODULE UsersProofs -----------------------------
(***************************************************************************)
(* Proofs about Users for any number of desks, names, passwords and any    *)
(* bounds.                                                                 *)
(*                                                                         *)
(* The invariants are proved together: which session is current depends on *)
(* how rows change, and who may change rows on which sessions are current. *)
(* Every step that changes a row is of one shape, RowStep, and step by     *)
(* step the actions are shown to be of it; each invariant then follows     *)
(* from the shape alone.                                                   *)
(***************************************************************************)
EXTENDS Users, SequenceTheorems, FiniteSetTheorems, TLAPS

Inv == TypeOK /\ LastAdmin /\ ArchivedInactive /\ SessionCurrent /\ LockoutConsistent

Administrator(user) == Available(user) /\ user.role = "ADMIN"

LockConsistent(user, now) ==
  /\ user.locked_until # Never <=> user.failed_login_attempts >= LOCKOUT_THRESHOLD
  /\ user.locked_until <= now + MAX_LOCKOUT

(* What a replacement of row i may do to the counter of failures and to    *)
(* the lock: a login, whether it fails or succeeds, finds the account      *)
(* unlocked; a new password clears both; anything else leaves both alone.  *)
Failure(i, changed) ==
  /\ ~Locked(users[i])
  /\ changed.failed_login_attempts = users[i].failed_login_attempts + 1
  /\ changed.locked_until =
       IF lockout_duration(changed.failed_login_attempts) = 0 THEN Never
       ELSE clock + lockout_duration(changed.failed_login_attempts)
  /\ session' = session

Cleared(i, changed) ==
  /\ changed.failed_login_attempts = 0 /\ changed.locked_until = Never
  /\ \/ ~Locked(users[i])
     \/ /\ changed.credential_version > users[i].credential_version
        /\ \A d \in Desks : Signed(d)' => Signed(d)

Uncounted(i, changed) ==
  /\ changed.failed_login_attempts = users[i].failed_login_attempts
  /\ changed.locked_until = users[i].locked_until
  /\ session' = session

Counted(i, changed) == Failure(i, changed) \/ Cleared(i, changed) \/ Uncounted(i, changed)

(* A password stops being temporary only when its holder replaces it.      *)
Replaced(i, changed) ==
  users[i].must_change_password /\ ~changed.must_change_password
    => /\ changed.password # users[i].password
       /\ \E d \in Desks : Signed(d) /\ session[d].user = i

(* What every replacement of row i by changed respects.                    *)
RowStep(i, changed) ==
  /\ changed \in User
  /\ users' = [users EXCEPT ![i] = changed]
  /\ changed.credential_version >= users[i].credential_version
  /\ changed.credential_version = users[i].credential_version
       => /\ changed.password = users[i].password
          /\ changed.must_change_password = users[i].must_change_password
  /\ i \in active_admins /\ ~Administrator(changed) => ~LastActiveAdministrator(i)
  /\ changed.archived => ~changed.active
  /\ LockConsistent(changed, clock)
  /\ \/ session' = session
     \/ \E d \in Desks : session' = [session EXCEPT ![d] = Context(i, changed)]
  /\ clock' = clock
  /\ Counted(i, changed)
  /\ Replaced(i, changed)

(* A lock is at most MAX_LOCKOUT long, and there is one from the threshold *)
(* on: lockout_duration for every count of failures.                       *)
LEMMA LockoutDuration ==
  ASSUME NEW n \in Nat
  PROVE  /\ lockout_duration(n) \in Nat
         /\ lockout_duration(n) <= MAX_LOCKOUT
         /\ lockout_duration(n) = 0 <=> n < LOCKOUT_THRESHOLD
<1>1. CASE n < LOCKOUT_THRESHOLD \/ n >= LOCKOUT_THRESHOLD + 5
  BY <1>1, LockoutAssumption DEF lockout_duration
<1>2. CASE n >= LOCKOUT_THRESHOLD /\ n < LOCKOUT_THRESHOLD + 5
  <2> DEFINE k == n - LOCKOUT_THRESHOLD + 1
  <2>1. k \in 1 .. 5
    BY <1>2, LockoutAssumption
  <2>2. <<1, 2, 4, 8, 16>>[k] \in {1, 2, 4, 8, 16}
    BY <2>1
  <2>3. INITIAL_LOCKOUT * <<1, 2, 4, 8, 16>>[k] \in Nat \ {0}
    BY <2>2, LockoutAssumption
  <2> QED
    BY <1>2, <2>3, LockoutAssumption DEF lockout_duration
<1> QED
  BY <1>1, <1>2, LockoutAssumption

(* Replacing one row leaves the others, and the table is still a table.    *)
LEMMA ReplacedRow ==
  ASSUME users \in Seq(User), NEW i \in DOMAIN users, NEW changed \in User,
         users' = [users EXCEPT ![i] = changed]
  PROVE  /\ users' \in Seq(User)
         /\ DOMAIN users' = DOMAIN users
         /\ users' # <<>>
         /\ \A j \in DOMAIN users : users'[j] = IF j = i THEN changed ELSE users[j]
<1>1. DOMAIN users = 1 .. Len(users) /\ Len(users) \in Nat
  BY LenProperties
<1>2. /\ users' \in Seq(User)
      /\ Len(users') = Len(users)
      /\ \A j \in 1 .. Len(users) : users'[j] = IF j = i THEN changed ELSE users[j]
  BY <1>1, ExceptSeq
<1> QED
  BY <1>1, <1>2, LenProperties, EmptySeq

(* A context names an account of the table.                                *)
LEMMA SignedDesk ==
  ASSUME Inv, NEW d \in Desks, Signed(d)
  PROVE  /\ session[d] \in SessionContext
         /\ session[d].user \in DOMAIN users
         /\ users[session[d].user] \in User
  BY ElementOfSeq, LenProperties DEF Inv, TypeOK, SessionCurrent, Signed

LEMMA RowOf ==
  ASSUME TypeOK, NEW i \in DOMAIN users
  PROVE  users[i] \in User
  BY ElementOfSeq, LenProperties DEF TypeOK

(* A failed login keeps the credential and the rights.                     *)
LEMMA LoginFailureStep ==
  ASSUME Inv, NEW i \in DOMAIN users, login_failure(i)
  PROVE  \E c : RowStep(i, c)
<1> DEFINE n == users[i].failed_login_attempts + 1
           until == IF lockout_duration(n) = 0 THEN Never ELSE clock + lockout_duration(n)
           c == [users[i] EXCEPT !.failed_login_attempts = n, !.locked_until = until]
<1>1. users[i] \in User /\ clock \in Nat
  BY RowOf DEF Inv, TypeOK
<1>2. n \in Nat
  BY <1>1 DEF User
<1>3. until \in Nat /\ LockConsistent(c, clock)
  BY <1>1, <1>2, LockoutDuration, LockoutAssumption DEF LockConsistent, Never, User
<1>4. c \in User
  BY <1>1, <1>2, <1>3 DEF User
<1>5. users' = [users EXCEPT ![i] = c] /\ session' = session /\ clock' = clock
  BY DEF login_failure
<1>6. /\ c.credential_version = users[i].credential_version
      /\ c.password = users[i].password
      /\ c.must_change_password = users[i].must_change_password
      /\ c.archived = users[i].archived
      /\ c.active = users[i].active
      /\ c.role = users[i].role
  BY <1>1 DEF User
<1>7. users[i].archived => ~users[i].active
  BY DEF Inv, ArchivedInactive
<1> HIDE DEF c
<1>8. Counted(i, c)
  <2>1. c.failed_login_attempts = n /\ c.locked_until = until
    BY <1>1 DEF c, User
  <2> QED
    BY <1>5, <2>1 DEF login_failure, LoginRefused, Counted, Failure
<1>9. RowStep(i, c)
  BY <1>1, <1>3, <1>4, <1>5, <1>6, <1>7, <1>8
  DEF RowStep, active_admins, Administrator, Available, User, Replaced
<1> QED
  BY <1>9

(* So does a login that succeeds; it hands out the context of the row.     *)
LEMMA LoginSuccessStep ==
  ASSUME Inv, NEW i \in DOMAIN users, NEW d \in Desks, login_success(d, i)
  PROVE  \E c : RowStep(i, c)
<1> DEFINE c == [users[i] EXCEPT !.failed_login_attempts = 0, !.locked_until = Never]
<1>1. users[i] \in User /\ clock \in Nat
  BY RowOf DEF Inv, TypeOK
<1>2. c \in User /\ c.failed_login_attempts = 0 /\ c.locked_until = Never
  BY <1>1 DEF User, Never
<1>3. Context(i, c) = Context(i, users[i])
  BY <1>1 DEF Context, User
<1>4. /\ users' = [users EXCEPT ![i] = c] /\ clock' = clock
      /\ \E e \in Desks : session' = [session EXCEPT ![e] = Context(i, c)]
  BY <1>3 DEF login_success
<1>5. /\ c.credential_version = users[i].credential_version
      /\ c.password = users[i].password
      /\ c.must_change_password = users[i].must_change_password
      /\ c.archived = users[i].archived
      /\ c.active = users[i].active
      /\ c.role = users[i].role
  BY <1>1 DEF User
<1>6. users[i].archived => ~users[i].active
  BY DEF Inv, ArchivedInactive
<1> HIDE DEF c
<1>7. LockConsistent(c, clock)
  BY <1>1, <1>2, LockoutAssumption DEF LockConsistent, Never
<1>8. c.credential_version >= users[i].credential_version
  BY <1>1, <1>5 DEF User
<1>9. i \in active_admins => Administrator(c)
  BY <1>5 DEF active_admins, Administrator, Available
<1>10. Counted(i, c) /\ Replaced(i, c)
  BY <1>2, <1>5 DEF login_success, LoginRefused, Counted, Cleared, Replaced
<1>11. RowStep(i, c)
  BY <1>2, <1>4, <1>5, <1>6, <1>7, <1>8, <1>9, <1>10 DEF RowStep
<1> QED
  BY <1>11

(* A new password takes a step of the version and lifts the lock.          *)
LEMMA NewCredentialStep ==
  ASSUME Inv, NEW i \in DOMAIN users, NEW p \in Passwords, NEW temporary \in BOOLEAN,
         users' = [users EXCEPT ![i] = NewCredential(users[i], p, temporary)],
         clock' = clock,
         \/ temporary /\ session' = session
         \/ /\ p # users[i].password
            /\ \E d \in Desks :
                 /\ Signed(d) /\ session[d].user = i
                 /\ session' = [session EXCEPT ![d] =
                                  Context(i, NewCredential(users[i], p, temporary))]
  PROVE  RowStep(i, NewCredential(users[i], p, temporary))
<1> DEFINE c == NewCredential(users[i], p, temporary)
<1>1. users[i] \in User /\ clock \in Nat
  BY RowOf DEF Inv, TypeOK
<1>2. users[i].archived => ~users[i].active
  BY DEF Inv, ArchivedInactive
<1>3. c \in User /\ c.failed_login_attempts = 0 /\ c.locked_until = Never
  <2>1. users[i].credential_version + 1 \in Nat
    BY <1>1 DEF User
  <2> QED
    BY <1>1, <2>1 DEF NewCredential, User, Never
<1>4. /\ c.credential_version = users[i].credential_version + 1
      /\ c.archived = users[i].archived
      /\ c.active = users[i].active
      /\ c.role = users[i].role
  BY <1>1 DEF NewCredential, User
<1>5. /\ users' = [users EXCEPT ![i] = c]
      /\ session' = session \/ \E d \in Desks : session' = [session EXCEPT ![d] = Context(i, c)]
  OBVIOUS
<1>6. Replaced(i, c)
  BY <1>1 DEF Replaced, NewCredential, User
<1>7. \A d \in Desks : Signed(d)' => Signed(d)
  BY DEF Signed, Inv, TypeOK
<1> HIDE DEF c
<1>8. LockConsistent(c, clock)
  BY <1>1, <1>3, LockoutAssumption DEF LockConsistent, Never
<1>9. c.credential_version > users[i].credential_version
  BY <1>1, <1>4 DEF User
<1>10. Counted(i, c)
  BY <1>3, <1>7, <1>9 DEF Counted, Cleared
<1>11. RowStep(i, c)
  BY <1>1, <1>2, <1>3, <1>4, <1>5, <1>6, <1>8, <1>10
  DEF RowStep, active_admins, Administrator, Available, User
<1> QED
  BY <1>11 DEF c

LEMMA ChangePasswordStep ==
  ASSUME Inv, NEW d \in Desks, Signed(d), change_password(d)
  PROVE  \E i \in DOMAIN users : \E c : RowStep(i, c)
<1> DEFINE i == session[d].user
<1>1. i \in DOMAIN users
  BY SignedDesk
<1>2. PICK p \in Passwords :
        /\ users' = [users EXCEPT ![i] = NewCredential(users[i], p, FALSE)]
        /\ session' = [session EXCEPT ![d] = Context(i, NewCredential(users[i], p, FALSE))]
        /\ clock' = clock
        /\ p # users[i].password
  BY DEF change_password
<1>3. RowStep(i, NewCredential(users[i], p, FALSE))
  BY <1>1, <1>2, NewCredentialStep
<1> QED
  BY <1>1, <1>3

(* The columns an administrator sets, and the two guards that matter: the  *)
(* last administrator keeps the post, an archived user is not activated.   *)
LEMMA AdministerStep ==
  ASSUME Inv, NEW d \in Desks, NEW i \in DOMAIN users, Administer(d, i)
  PROVE  \E c : RowStep(i, c)
<1>1. users[i] \in User /\ clock \in Nat
  BY RowOf DEF Inv, TypeOK
<1>2. users[i].archived => ~users[i].active
  BY DEF Inv, ArchivedInactive
<1>3. LockConsistent(users[i], clock)
  BY DEF Inv, LockoutConsistent, LockConsistent
<1> DEFINE Edited(name, role, active, archived) ==
      [users[i] EXCEPT !.username = name, !.role = role,
                       !.active = active, !.archived = archived]
<1>4. ASSUME NEW name \in Names, NEW role \in UserRoles,
             NEW active \in BOOLEAN, NEW archived \in BOOLEAN,
             Mutate(d, i, Edited(name, role, active, archived)),
             i \in active_admins =>
               (role = "ADMIN" /\ active /\ ~archived) \/ ~LastActiveAdministrator(i),
             archived => ~active
      PROVE  RowStep(i, Edited(name, role, active, archived))
  <2> DEFINE c == Edited(name, role, active, archived)
  <2>1. /\ c \in User
        /\ c.credential_version = users[i].credential_version
        /\ c.password = users[i].password
        /\ c.must_change_password = users[i].must_change_password
        /\ c.failed_login_attempts = users[i].failed_login_attempts
        /\ c.locked_until = users[i].locked_until
        /\ c.role = role /\ c.active = active /\ c.archived = archived
    BY <1>1 DEF User
  <2>2. users' = [users EXCEPT ![i] = c] /\ session' = session /\ clock' = clock
    BY <1>4 DEF Mutate
  <2> HIDE DEF c
  <2>3. LockConsistent(c, clock)
    BY <1>3, <2>1 DEF LockConsistent
  <2>4. RowStep(i, c)
    BY <1>1, <1>4, <2>1, <2>2, <2>3
    DEF RowStep, Administrator, Available, User, Counted, Uncounted, Replaced
  <2> QED
    BY <2>4 DEF c
<1>5. /\ users[i].username \in Names /\ users[i].role \in UserRoles
      /\ users[i].active \in BOOLEAN /\ users[i].archived \in BOOLEAN
  BY <1>1 DEF User
<1>6. i \in active_admins =>
        users[i].role = "ADMIN" /\ users[i].active /\ ~users[i].archived
  BY DEF active_admins, Available
<1>7. CASE change_username(d, i)
  <2>1. PICK name \in Names : Mutate(d, i, [users[i] EXCEPT !.username = name])
    BY <1>7 DEF change_username
  <2>2. [users[i] EXCEPT !.username = name]
          = Edited(name, users[i].role, users[i].active, users[i].archived)
    BY <1>1 DEF User
  <2> QED
    BY <1>2, <1>4, <1>5, <1>6, <2>1, <2>2
<1>8. CASE change_role(d, i)
  <2>1. PICK role \in UserRoles :
          /\ role # "ADMIN" => ~LastActiveAdministrator(i)
          /\ Mutate(d, i, [users[i] EXCEPT !.role = role])
    BY <1>8 DEF change_role
  <2>2. [users[i] EXCEPT !.role = role]
          = Edited(users[i].username, role, users[i].active, users[i].archived)
    BY <1>1 DEF User
  <2> QED
    BY <1>2, <1>4, <1>5, <1>6, <2>1, <2>2
<1>9. CASE activate_user(d, i)
  <2>1. ~users[i].archived /\ Mutate(d, i, [users[i] EXCEPT !.active = TRUE])
    BY <1>9 DEF activate_user
  <2>2. [users[i] EXCEPT !.active = TRUE]
          = Edited(users[i].username, users[i].role, TRUE, users[i].archived)
    BY <1>1 DEF User
  <2> QED
    BY <1>4, <1>5, <1>6, <2>1, <2>2
<1>10. CASE deactivate_user(d, i)
  <2>1. ~LastActiveAdministrator(i) /\ Mutate(d, i, [users[i] EXCEPT !.active = FALSE])
    BY <1>10 DEF deactivate_user
  <2>2. [users[i] EXCEPT !.active = FALSE]
          = Edited(users[i].username, users[i].role, FALSE, users[i].archived)
    BY <1>1 DEF User
  <2> QED
    BY <1>4, <1>5, <2>1, <2>2
<1>11. CASE archive_user(d, i)
  <2>1. /\ ~LastActiveAdministrator(i)
        /\ Mutate(d, i, [users[i] EXCEPT !.active = FALSE, !.archived = TRUE])
    BY <1>11 DEF archive_user
  <2>2. [users[i] EXCEPT !.active = FALSE, !.archived = TRUE]
          = Edited(users[i].username, users[i].role, FALSE, TRUE)
    BY <1>1 DEF User
  <2> QED
    BY <1>4, <1>5, <2>1, <2>2
<1>12. CASE restore_user(d, i)
  <2>1. /\ users[i].archived
        /\ Mutate(d, i, [users[i] EXCEPT !.archived = FALSE, !.active = FALSE])
    BY <1>12 DEF restore_user
  <2>2. [users[i] EXCEPT !.archived = FALSE, !.active = FALSE]
          = Edited(users[i].username, users[i].role, FALSE, FALSE)
    BY <1>1 DEF User
  <2> QED
    BY <1>4, <1>5, <1>6, <2>1, <2>2
<1>13. CASE reset_password(d, i)
  <2>1. PICK p \in Passwords :
          /\ users' = [users EXCEPT ![i] = NewCredential(users[i], p, TRUE)]
          /\ session' = session /\ clock' = clock
    BY <1>13 DEF reset_password, Mutate
  <2> QED
    BY <2>1, NewCredentialStep
<1> QED
  BY <1>7, <1>8, <1>9, <1>10, <1>11, <1>12, <1>13 DEF Administer

(* The steps that append an account, and those that leave the table alone. *)
NewAccount ==
  /\ users = <<>> \/ \E d \in Desks : Signed(d) /\ require_current_administrator(d)
  /\ \E name \in Names, role \in UserRoles, p \in Passwords :
       /\ users = <<>> => role = "ADMIN"
       /\ users' = Append(users, TemporaryAccount(name, role, p))
  /\ session' = session
  /\ clock' = clock

SameTable ==
  /\ users' = users
  /\ \/ session' = session
     \/ \E d \in Desks : session' = [session EXCEPT ![d] = NoSession]
  /\ clock' \in {clock, clock + 1}

LEMMA Shapes ==
  ASSUME Inv, [Next]_vars
  PROVE  \/ NewAccount
         \/ SameTable
         \/ \E i \in DOMAIN users : \E c : RowStep(i, c)
<1>1. CASE initialize
  <2>1. PICK p \in Passwords : users = <<>> /\ users' = <<TemporaryAccount("admin", "ADMIN", p)>>
    BY <1>1 DEF initialize
  <2>2. <<TemporaryAccount("admin", "ADMIN", p)>> = Append(<<>>, TemporaryAccount("admin", "ADMIN", p))
    OBVIOUS
  <2>3. "admin" \in Names /\ "ADMIN" \in UserRoles
    BY NamesAssumption DEF UserRoles
  <2> QED
    BY <1>1, <2>1, <2>2, <2>3 DEF initialize, NewAccount
<1>2. CASE Tick
  BY <1>2 DEF Tick, SameTable
<1>3. ASSUME NEW i \in DOMAIN users, login_failure(i) PROVE \E c : RowStep(i, c)
  BY <1>3, LoginFailureStep
<1>4. ASSUME NEW i \in DOMAIN users, NEW d \in Desks, login_success(d, i)
      PROVE  \E c : RowStep(i, c)
  BY <1>4, LoginSuccessStep
<1>5. ASSUME NEW d \in Desks, logout(d) PROVE SameTable
  BY <1>5 DEF logout, SameTable
<1>6. ASSUME NEW d \in Desks, Signed(d), change_password(d)
      PROVE  \E i \in DOMAIN users : \E c : RowStep(i, c)
  BY <1>6, ChangePasswordStep
<1>7. ASSUME NEW d \in Desks, Signed(d), create_user(d) PROVE NewAccount
  <2>1. users # <<>>
    <3>1. session[d].user \in DOMAIN users
      BY <1>7, SignedDesk
    <3> QED
      BY <3>1
  <2> QED
    BY <1>7, <2>1 DEF create_user, NewAccount
<1>8. ASSUME NEW d \in Desks, NEW i \in DOMAIN users, Administer(d, i)
      PROVE  \E c : RowStep(i, c)
  BY <1>8, AdministerStep
<1>9. CASE UNCHANGED vars
  BY <1>9 DEF vars, SameTable
<1> QED
  BY <1>1, <1>2, <1>3, <1>4, <1>5, <1>6, <1>7, <1>8, <1>9 DEF Next

(* Appending an account leaves the others, and the table is still a table. *)
LEMMA AppendedRow ==
  ASSUME TypeOK, NEW name \in Names, NEW role \in UserRoles, NEW p \in Passwords,
         users' = Append(users, TemporaryAccount(name, role, p))
  PROVE  /\ users' \in Seq(User)
         /\ Len(users) + 1 \in DOMAIN users'
         /\ DOMAIN users' = DOMAIN users \cup {Len(users) + 1}
         /\ \A j \in DOMAIN users : users'[j] = users[j]
         /\ users'[Len(users) + 1] = TemporaryAccount(name, role, p)
         /\ TemporaryAccount(name, role, p) \in User
<1>1. TemporaryAccount(name, role, p) \in User
  BY DEF TemporaryAccount, User, Never
<1>2. users \in Seq(User) /\ Len(users) \in Nat /\ DOMAIN users = 1 .. Len(users)
  BY LenProperties DEF TypeOK
<1>3. /\ users' \in Seq(User)
      /\ Len(users') = Len(users) + 1
      /\ \A j \in 1 .. Len(users) : users'[j] = users[j]
      /\ users'[Len(users) + 1] = TemporaryAccount(name, role, p)
  BY <1>1, <1>2, AppendProperties
<1>4. DOMAIN users' = 1 .. Len(users) + 1
  BY <1>2, <1>3, LenProperties
<1> QED
  BY <1>1, <1>2, <1>3, <1>4

LEMMA ContextType ==
  ASSUME NEW i \in Nat \ {0}, NEW user \in User
  PROVE  Context(i, user) \in SessionContext
  BY DEF Context, User, SessionContext

LEMMA TypeStep == ASSUME Inv, [Next]_vars PROVE TypeOK'
<1>1. /\ users \in Seq(User) /\ clock \in Nat
      /\ session \in [Desks -> SessionContext \cup {NoSession}]
  BY DEF Inv, TypeOK
<1>2. CASE NewAccount
  BY <1>1, <1>2, AppendedRow DEF Inv, NewAccount, TypeOK
<1>3. CASE SameTable
  BY <1>1, <1>3 DEF SameTable, TypeOK
<1>4. ASSUME NEW i \in DOMAIN users, NEW c, RowStep(i, c) PROVE TypeOK'
  <2>1. users' \in Seq(User)
    BY <1>1, <1>4, ReplacedRow DEF RowStep
  <2>2. i \in Nat \ {0}
    BY <1>1, LenProperties
  <2>3. Context(i, c) \in SessionContext
    BY <1>4, <2>2, ContextType DEF RowStep
  <2>4. session' \in [Desks -> SessionContext \cup {NoSession}]
    BY <1>1, <1>4, <2>3 DEF RowStep
  <2> QED
    BY <1>1, <1>4, <2>1, <2>4 DEF RowStep, TypeOK
<1> QED
  BY <1>2, <1>3, <1>4, Shapes

(* An administrator who is not the last one leaves another behind.         *)
LEMMA AnotherAdministrator ==
  ASSUME NEW i \in active_admins, ~LastActiveAdministrator(i)
  PROVE  \E j \in active_admins : j # i
<1> SUFFICES ASSUME active_admins = {i} PROVE FALSE
  OBVIOUS
<1>1. Cardinality({i}) = 1
  BY FS_Singleton
<1> QED
  BY <1>1 DEF LastActiveAdministrator

LEMMA LastAdminStep == ASSUME Inv, [Next]_vars PROVE LastAdmin'
<1>1. CASE NewAccount
  <2>1. PICK name \in Names, role \in UserRoles, p \in Passwords :
          /\ users = <<>> => role = "ADMIN"
          /\ users' = Append(users, TemporaryAccount(name, role, p))
    BY <1>1 DEF NewAccount
  <2> DEFINE n == Len(users) + 1
  <2>2. /\ n \in DOMAIN users'
        /\ DOMAIN users \subseteq DOMAIN users'
        /\ \A j \in DOMAIN users : users'[j] = users[j]
        /\ users'[n] = TemporaryAccount(name, role, p)
    BY <2>1, AppendedRow DEF Inv
  <2>3. CASE users = <<>>
    <3>1. Available(users'[n]) /\ users'[n].role = "ADMIN"
      BY <2>1, <2>2, <2>3 DEF TemporaryAccount, Available
    <3> QED
      BY <2>2, <3>1 DEF LastAdmin, active_admins
  <2>4. CASE users # <<>>
    <3>1. PICK j \in DOMAIN users : Available(users[j]) /\ users[j].role = "ADMIN"
      BY <2>4 DEF Inv, LastAdmin, active_admins
    <3> QED
      BY <2>2, <3>1 DEF LastAdmin, active_admins
  <2> QED
    BY <2>3, <2>4
<1>2. CASE SameTable
  BY <1>2 DEF SameTable, Inv, LastAdmin, active_admins
<1>3. ASSUME NEW i \in DOMAIN users, NEW c, RowStep(i, c) PROVE LastAdmin'
  <2>1. /\ DOMAIN users' = DOMAIN users
        /\ \A j \in DOMAIN users : users'[j] = IF j = i THEN c ELSE users[j]
    BY <1>3, ReplacedRow DEF RowStep, Inv, TypeOK
  <2>2. users # <<>>
    OBVIOUS
  <2>3. active_admins # {}
    BY <2>2 DEF Inv, LastAdmin
  <2>4. CASE Administrator(c)
    BY <2>1, <2>4 DEF LastAdmin, active_admins, Administrator
  <2>5. CASE ~Administrator(c)
    <3>1. PICK j \in active_admins : j # i
      BY <1>3, <2>3, <2>5, AnotherAdministrator DEF RowStep
    <3>2. j \in DOMAIN users' /\ users'[j] = users[j]
      BY <2>1, <3>1 DEF active_admins
    <3> QED
      BY <3>1, <3>2 DEF LastAdmin, active_admins
  <2> QED
    BY <2>4, <2>5
<1> QED
  BY <1>1, <1>2, <1>3, Shapes

LEMMA ArchivedStep == ASSUME Inv, [Next]_vars PROVE ArchivedInactive'
<1>1. CASE NewAccount
  BY <1>1, AppendedRow DEF NewAccount, Inv, ArchivedInactive, TemporaryAccount
<1>2. CASE SameTable
  BY <1>2 DEF SameTable, Inv, ArchivedInactive
<1>3. ASSUME NEW i \in DOMAIN users, NEW c, RowStep(i, c) PROVE ArchivedInactive'
  BY <1>3, ReplacedRow DEF RowStep, Inv, TypeOK, ArchivedInactive
<1> QED
  BY <1>1, <1>2, <1>3, Shapes

LEMMA LockoutStep == ASSUME Inv, [Next]_vars PROVE LockoutConsistent'
<1>1. clock \in Nat /\ MAX_LOCKOUT \in Nat /\ LOCKOUT_THRESHOLD \in Nat \ {0}
  BY LockoutAssumption DEF Inv, TypeOK
<1>2. \A j \in DOMAIN users : users[j] \in User /\ LockConsistent(users[j], clock)
  BY RowOf DEF Inv, LockoutConsistent, LockConsistent
<1>3. CASE NewAccount
  BY <1>1, <1>2, <1>3, AppendedRow
  DEF NewAccount, Inv, LockoutConsistent, LockConsistent, TemporaryAccount, Never
<1>4. CASE SameTable
  BY <1>1, <1>2, <1>4 DEF SameTable, LockoutConsistent, LockConsistent, User
<1>5. ASSUME NEW i \in DOMAIN users, NEW c, RowStep(i, c) PROVE LockoutConsistent'
  BY <1>2, <1>5, ReplacedRow
  DEF RowStep, Inv, TypeOK, LockoutConsistent, LockConsistent
<1> QED
  BY <1>3, <1>4, <1>5, Shapes

(* One desk's part of SessionCurrent.                                      *)
CurrentFor(context, user) ==
  /\ context.credential_version <= user.credential_version
  /\ context.credential_version = user.credential_version
       => /\ context.opened_with = user.password
          /\ context.must_change_password = user.must_change_password

LEMMA SessionStep == ASSUME Inv, [Next]_vars PROVE SessionCurrent'
<1>1. \A d \in Desks : Signed(d) =>
        /\ session[d] \in SessionContext
        /\ session[d].user \in DOMAIN users
        /\ users[session[d].user] \in User
        /\ CurrentFor(session[d], users[session[d].user])
  BY SignedDesk DEF Inv, SessionCurrent, CurrentFor
<1>2. CASE NewAccount
  <2>1. PICK name \in Names, role \in UserRoles, p \in Passwords :
          users' = Append(users, TemporaryAccount(name, role, p))
    BY <1>2 DEF NewAccount
  <2>2. /\ DOMAIN users \subseteq DOMAIN users'
        /\ \A j \in DOMAIN users : users'[j] = users[j]
    BY <2>1, AppendedRow DEF Inv
  <2> QED
    BY <1>1, <1>2, <2>2 DEF NewAccount, SessionCurrent, CurrentFor, Signed
<1>3. CASE SameTable
  <2>1. ASSUME NEW d \in Desks, Signed(d)' PROVE Signed(d) /\ session'[d] = session[d]
    BY <1>3, <2>1 DEF SameTable, Signed, Inv, TypeOK
  <2> QED
    BY <1>1, <1>3, <2>1 DEF SameTable, SessionCurrent, CurrentFor
<1>4. ASSUME NEW i \in DOMAIN users, NEW c, RowStep(i, c) PROVE SessionCurrent'
  <2>1. /\ DOMAIN users' = DOMAIN users
        /\ \A j \in DOMAIN users : users'[j] = IF j = i THEN c ELSE users[j]
    BY <1>4, ReplacedRow DEF RowStep, Inv, TypeOK
  <2>2. users[i] \in User /\ c \in User
    BY <1>4, RowOf DEF RowStep, Inv
  <2>3. SUFFICES ASSUME NEW d \in Desks, Signed(d)'
                 PROVE  /\ session'[d].user \in DOMAIN users'
                        /\ CurrentFor(session'[d], users'[session'[d].user])
    BY <2>3 DEF SessionCurrent, CurrentFor
  <2>4. CASE Signed(d) /\ session'[d] = session[d]
    <3>1. CurrentFor(session[d], users[session[d].user])
      BY <1>1, <2>4
    <3>2. session[d].user = i => CurrentFor(session[d], c)
      BY <1>1, <1>4, <2>2, <2>4, <3>1 DEF RowStep, CurrentFor, User, SessionContext
    <3> QED
      BY <1>1, <2>1, <2>4, <3>1, <3>2
  <2>5. CASE session'[d] = Context(i, c)
    <3>1. Context(i, c).user = i
      BY DEF Context
    <3>2. CurrentFor(Context(i, c), c)
      BY <2>2 DEF Context, CurrentFor, User
    <3> QED
      BY <2>1, <2>5, <3>1, <3>2
  <2>6. session'[d] = session[d] \/ session'[d] = Context(i, c)
    BY <1>4 DEF RowStep, Inv, TypeOK
  <2>7. session'[d] = session[d] => Signed(d)
    BY <2>3 DEF Signed
  <2> QED
    BY <2>4, <2>5, <2>6, <2>7
<1> QED
  BY <1>2, <1>3, <1>4, Shapes

LEMMA Initially == Init => Inv
<1> SUFFICES ASSUME Init PROVE Inv
  OBVIOUS
<1>1. users \in Seq(User) /\ DOMAIN users = {}
  BY DEF Init
<1>2. session \in [Desks -> SessionContext \cup {NoSession}]
  BY DEF Init
<1>3. clock \in Nat /\ \A d \in Desks : ~Signed(d)
  BY DEF Init, Signed
<1> QED
  BY <1>1, <1>2, <1>3
  DEF Init, Inv, TypeOK, LastAdmin, ArchivedInactive, SessionCurrent, LockoutConsistent

THEOREM Invariant == Spec => []Inv
<1>1. Inv /\ [Next]_vars => Inv'
  BY TypeStep, LastAdminStep, ArchivedStep, SessionStep, LockoutStep DEF Inv
<1> QED
  BY Initially, <1>1, PTL DEF Spec

(* The table, the contexts and the clock keep their types.                 *)
THEOREM TypeCorrect == Spec => []TypeOK
  BY Invariant, PTL DEF Inv

(* Whatever any number of administrators do to each other, from whatever   *)
(* stale contexts, one active, unarchived administrator is left.           *)
THEOREM AdministratorLeft == Spec => []LastAdmin
  BY Invariant, PTL DEF Inv

(* Archiving, restoring and activating never leave an account both         *)
(* archived and active.                                                    *)
THEOREM ArchivedStaysInactive == Spec => []ArchivedInactive
  BY Invariant, PTL DEF Inv

(* The credential version alone tells a session of the valid password      *)
(* from an older one and from one that must still change it.               *)
THEOREM SessionsCurrent == Spec => []SessionCurrent
  BY Invariant, PTL DEF Inv

(* The lock is there exactly from the threshold on, and never too long,    *)
(* for every threshold and duration.                                       *)
THEOREM LockoutBounded == Spec => []LockoutConsistent
  BY Invariant, PTL DEF Inv

(* Passing the two checks of an administration call takes a context opened *)
(* with the valid password, which is not a temporary one.                  *)
LEMMA Authority ==
  ASSUME Inv, NEW d \in Desks, Signed(d), require_current_administrator(d)
  PROVE  /\ session[d].user \in active_admins
         /\ session[d].opened_with = users[session[d].user].password
         /\ ~users[session[d].user].must_change_password
<1>1. session[d].user \in DOMAIN users
  BY SignedDesk
<1>2. /\ session[d].opened_with = users[session[d].user].password
      /\ users[session[d].user].must_change_password = session[d].must_change_password
  BY DEF require_current_administrator, Inv, SessionCurrent
<1> QED
  BY <1>1, <1>2 DEF require_current_administrator, active_admins

(* A row replaced by one with the same administered columns.               *)
LEMMA Unadministered ==
  ASSUME TypeOK, NEW i \in DOMAIN users, NEW c \in User, users' = [users EXCEPT ![i] = c],
         Administered(c) = Administered(users[i])
  PROVE  /\ Len(users') = Len(users)
         /\ \A j \in DOMAIN users : Administered(users'[j]) = Administered(users[j])
<1>1. DOMAIN users = 1 .. Len(users) /\ users \in Seq(User)
  BY LenProperties DEF TypeOK
<1>2. Len(users') = Len(users)
  BY <1>1, ExceptSeq
<1> QED
  BY <1>1, <1>2, ReplacedRow

(* Accounts are administered only under the authority of a current         *)
(* administrator: no stale context, however old, suffices.                 *)
THEOREM AdministratorsAdminister == Spec => OnlyAdministratorsAdminister
<1> DEFINE Changed == \/ Len(users') # Len(users)
                      \/ \E i \in DOMAIN users : Administered(users'[i]) # Administered(users[i])
           Authorised == \E d \in Desks :
             /\ Signed(d)
             /\ session[d].user \in active_admins
             /\ session[d].opened_with = users[session[d].user].password
             /\ ~users[session[d].user].must_change_password
<1>1. ASSUME Inv, [Next]_vars, users # <<>>, Changed PROVE Authorised
  <2>1. ASSUME NEW d \in Desks, Signed(d), require_current_administrator(d) PROVE Authorised
    BY <1>1, <2>1, Authority
  <2>2. ASSUME users' = users PROVE FALSE
    BY <1>1, <2>2
  <2>3. ASSUME NEW i \in DOMAIN users, login_failure(i) PROVE FALSE
    <3> DEFINE n == users[i].failed_login_attempts + 1
               until == IF lockout_duration(n) = 0 THEN Never ELSE clock + lockout_duration(n)
               c == [users[i] EXCEPT !.failed_login_attempts = n, !.locked_until = until]
    <3>1. users[i] \in User /\ clock \in Nat
      BY <1>1, RowOf DEF Inv, TypeOK
    <3>2. n \in Nat
      BY <3>1 DEF User
    <3>3. until \in Nat
      BY <3>1, <3>2, LockoutDuration DEF Never
    <3>4. c \in User /\ Administered(c) = Administered(users[i])
      BY <3>1, <3>2, <3>3 DEF User, Administered
    <3>5. users' = [users EXCEPT ![i] = c]
      BY <2>3 DEF login_failure
    <3> QED
      BY <1>1, <3>4, <3>5, Unadministered DEF Inv
  <2>4. ASSUME NEW i \in DOMAIN users, NEW d \in Desks, login_success(d, i) PROVE FALSE
    <3> DEFINE c == [users[i] EXCEPT !.failed_login_attempts = 0, !.locked_until = Never]
    <3>1. users[i] \in User
      BY <1>1, RowOf DEF Inv
    <3>2. c \in User /\ Administered(c) = Administered(users[i])
      BY <3>1 DEF User, Administered, Never
    <3>3. users' = [users EXCEPT ![i] = c]
      BY <2>4 DEF login_success
    <3> QED
      BY <1>1, <3>2, <3>3, Unadministered DEF Inv
  <2>5. ASSUME NEW d \in Desks, Signed(d), change_password(d) PROVE FALSE
    <3> DEFINE i == session[d].user
    <3>1. i \in DOMAIN users /\ users[i] \in User
      BY <1>1, <2>5, SignedDesk
    <3>2. PICK p \in Passwords : users' = [users EXCEPT ![i] = NewCredential(users[i], p, FALSE)]
      BY <2>5 DEF change_password
    <3>3. users[i].credential_version + 1 \in Nat
      BY <3>1 DEF User
    <3>4. /\ NewCredential(users[i], p, FALSE) \in User
          /\ Administered(NewCredential(users[i], p, FALSE)) = Administered(users[i])
      BY <3>1, <3>3 DEF NewCredential, User, Administered, Never
    <3> QED
      BY <1>1, <3>1, <3>2, <3>4, Unadministered DEF Inv
  <2>6. ASSUME NEW d \in Desks, Signed(d), create_user(d) PROVE Authorised
    BY <2>1, <2>6 DEF create_user
  <2>7. ASSUME NEW d \in Desks, Signed(d), NEW i \in DOMAIN users, Administer(d, i)
        PROVE  Authorised
    <3>1. require_current_administrator(d)
      BY <2>7 DEF Administer, change_username, change_role, activate_user, deactivate_user,
                  archive_user, restore_user, reset_password, Mutate
    <3> QED
      BY <2>1, <2>7, <3>1
  <2>8. ASSUME initialize \/ Tick \/ UNCHANGED vars PROVE FALSE
    BY <1>1, <2>2, <2>8 DEF initialize, Tick, vars
  <2>9. ASSUME NEW d \in Desks, logout(d) PROVE FALSE
    BY <2>2, <2>9 DEF logout
  <2> QED
    BY <1>1, <2>3, <2>4, <2>5, <2>6, <2>7, <2>8, <2>9 DEF Next
<1>2. Inv /\ [Next]_vars => [users # <<>> /\ Changed => Authorised]_vars
  BY <1>1
<1> QED
  BY Invariant, <1>2, PTL DEF Spec, OnlyAdministratorsAdminister

(* ------------------------------ the lock ------------------------------- *)

(* While an account is locked, no guess is counted and no session of it is *)
(* handed out, whoever tries; only a new password lifts the lock early.    *)
THEOREM LocksAreRespected == Spec => LockRespected
<1> DEFINE Body(i) ==
      users[i].locked_until > clock =>
        /\ users'[i].failed_login_attempts <= users[i].failed_login_attempts
        /\ users'[i].locked_until # users[i].locked_until
             => users'[i].credential_version > users[i].credential_version
        /\ \A d \in Desks : Signed(d)' /\ ~Signed(d) => session'[d].user # i
<1>1. ASSUME Inv, [Next]_vars, NEW i \in DOMAIN users, users[i].locked_until > clock
      PROVE  Body(i)
  <2>1. users[i] \in User /\ clock \in Nat /\ Locked(users[i])
    BY <1>1, RowOf DEF Inv, TypeOK, Locked, Never, User
  <2>2. users[i].failed_login_attempts <= users[i].failed_login_attempts
    BY <2>1 DEF User
  <2>3. CASE NewAccount
    <3>1. users'[i] = users[i] /\ session' = session
      BY <1>1, <2>3, AppendedRow DEF NewAccount, Inv
    <3> QED
      BY <2>2, <3>1 DEF Signed
  <2>4. CASE SameTable
    <3>1. \A d \in Desks : Signed(d)' => Signed(d)
      BY <1>1, <2>4 DEF SameTable, Signed, Inv, TypeOK
    <3> QED
      BY <2>2, <2>4, <3>1 DEF SameTable
  <2>5. ASSUME NEW j \in DOMAIN users, NEW c, RowStep(j, c) PROVE Body(i)
    <3>1. users'[i] = IF i = j THEN c ELSE users[i]
      BY <1>1, <2>5, ReplacedRow DEF RowStep, Inv, TypeOK
    <3>2. CASE i # j
      <4>1. ASSUME NEW d \in Desks, Signed(d)', ~Signed(d) PROVE session'[d].user # i
        BY <1>1, <2>5, <3>2, <4>1 DEF RowStep, Inv, TypeOK, Signed, Context
      <4> QED
        BY <2>2, <3>1, <3>2, <4>1
    <3>3. CASE i = j
      <4>1. Cleared(i, c) \/ Uncounted(i, c)
        BY <2>1, <2>5, <3>3 DEF RowStep, Counted, Failure
      <4>2. CASE Cleared(i, c)
        BY <2>1, <3>1, <3>3, <4>2 DEF Cleared, User
      <4>3. CASE Uncounted(i, c)
        BY <2>2, <3>1, <3>3, <4>3 DEF Uncounted, Signed
      <4> QED
        BY <4>1, <4>2, <4>3
    <3> QED
      BY <3>2, <3>3
  <2> QED
    BY <1>1, <2>3, <2>4, <2>5, Shapes
<1>2. Inv /\ [Next]_vars => [\A i \in DOMAIN users : Body(i)]_vars
  BY <1>1
<1> HIDE DEF Body
<1>3. Spec => [][\A i \in DOMAIN users : Body(i)]_vars
  BY Invariant, <1>2, PTL DEF Spec
<1> QED
  BY <1>3 DEF LockRespected, Body

(* A temporary password gives way only to a different one, set from a      *)
(* session of that very account: no administrator can clear the duty.      *)
THEOREM TemporaryPasswordsReplaced == Spec => TemporaryPasswordReplaced
<1> DEFINE Body(i) ==
      users[i].must_change_password /\ ~users'[i].must_change_password
        => /\ users'[i].password # users[i].password
           /\ \E d \in Desks : Signed(d) /\ session[d].user = i
<1>1. ASSUME Inv, [Next]_vars, NEW i \in DOMAIN users PROVE Body(i)
  <2>1. CASE NewAccount \/ SameTable
    <3>1. users'[i] = users[i]
      BY <1>1, <2>1, AppendedRow DEF NewAccount, SameTable, Inv
    <3> QED
      BY <3>1
  <2>2. ASSUME NEW j \in DOMAIN users, NEW c, RowStep(j, c) PROVE Body(i)
    <3>1. users'[i] = IF i = j THEN c ELSE users[i]
      BY <1>1, <2>2, ReplacedRow DEF RowStep, Inv, TypeOK
    <3> QED
      BY <2>2, <3>1 DEF RowStep, Replaced
  <2> QED
    BY <1>1, <2>1, <2>2, Shapes
<1>2. Inv /\ [Next]_vars => [\A i \in DOMAIN users : Body(i)]_vars
  BY <1>1
<1> HIDE DEF Body
<1>3. Spec => [][\A i \in DOMAIN users : Body(i)]_vars
  BY Invariant, <1>2, PTL DEF Spec
<1> QED
  BY <1>3 DEF TemporaryPasswordReplaced, Body

(* ------------------------- what guessing costs ------------------------- *)

(* The recursion of TimeLocked has a solution: it is 0 up to the threshold,*)
(* five delays make up the next terms, and MAX_LOCKOUT each of the others. *)
LEMMA TimeLockedEquation ==
  /\ TimeLocked[0] = 0
  /\ \A n \in Nat : TimeLocked[n + 1] = TimeLocked[n] + lockout_duration(n)
<1> DEFINE T == LOCKOUT_THRESHOLD
           D(k) == lockout_duration(T + k)
           Sum(n) == IF n <= T THEN 0
                     ELSE IF n = T + 1 THEN D(0)
                     ELSE IF n = T + 2 THEN D(0) + D(1)
                     ELSE IF n = T + 3 THEN D(0) + D(1) + D(2)
                     ELSE IF n = T + 4 THEN D(0) + D(1) + D(2) + D(3)
                     ELSE D(0) + D(1) + D(2) + D(3) + D(4) + (n - T - 5) * MAX_LOCKOUT
           Solution == [n \in Nat |-> Sum(n)]
           Step(f) == [n \in Nat |-> IF n = 0 THEN 0 ELSE f[n-1] + lockout_duration(n-1)]
<1>1. T \in Nat \ {0} /\ MAX_LOCKOUT \in Nat
  BY LockoutAssumption
<1>2. \A n \in Nat : /\ lockout_duration(n) \in Nat
                     /\ n < T => lockout_duration(n) = 0
                     /\ n >= T + 5 => lockout_duration(n) = MAX_LOCKOUT
  BY <1>1, LockoutDuration DEF lockout_duration
<1>3. /\ D(0) \in Nat /\ D(1) \in Nat /\ D(2) \in Nat /\ D(3) \in Nat /\ D(4) \in Nat
  BY <1>1, <1>2
<1>4. ASSUME NEW n \in Nat, n # 0
      PROVE  Sum(n) = Sum(n-1) + lockout_duration(n-1)
  <2>1. n - 1 \in Nat /\ lockout_duration(n-1) \in Nat
    BY <1>2, <1>4
  <2>2. CASE n <= T
    <3>1. lockout_duration(n-1) = 0
      BY <1>1, <1>2, <1>4, <2>1, <2>2
    <3> QED
      BY <1>1, <1>4, <2>2, <3>1
  <2>3. ASSUME NEW k \in 0 .. 4, n = T + k + 1
        PROVE  Sum(n) = Sum(n-1) + lockout_duration(n-1)
    <3>1. n - 1 = T + k
      BY <1>1, <2>3
    <3>2. lockout_duration(n-1) = D(k)
      BY <3>1
    <3> HIDE DEF D
    <3>3. (k = 4) => (n - T - 5) * MAX_LOCKOUT = 0
      BY <1>1, <2>3
    <3> QED
      BY <1>1, <1>3, <2>3, <3>1, <3>2, <3>3
  <2>4. CASE n > T + 5
    <3> DEFINE m == n - T - 6
    <3>1. m \in Nat /\ n - T - 5 = m + 1 /\ n - 1 - T - 5 = m
      BY <1>1, <2>4
    <3>2. (m + 1) * MAX_LOCKOUT = m * MAX_LOCKOUT + MAX_LOCKOUT /\ m * MAX_LOCKOUT \in Nat
      BY <1>1, <3>1
    <3>3. lockout_duration(n-1) = MAX_LOCKOUT
      BY <1>1, <1>2, <2>1, <2>4
    <3>4. /\ Sum(n) = D(0) + D(1) + D(2) + D(3) + D(4) + (m + 1) * MAX_LOCKOUT
          /\ Sum(n-1) = D(0) + D(1) + D(2) + D(3) + D(4) + m * MAX_LOCKOUT
      <4>1. Sum(n) = D(0) + D(1) + D(2) + D(3) + D(4) + (n - T - 5) * MAX_LOCKOUT
        BY <1>1, <2>4
      <4>2. Sum(n-1) = D(0) + D(1) + D(2) + D(3) + D(4) + (n - 1 - T - 5) * MAX_LOCKOUT
        <5>1. ~(n - 1 <= T) /\ n - 1 # T + 1 /\ n - 1 # T + 2 /\ n - 1 # T + 3 /\ n - 1 # T + 4
          BY <1>1, <2>4
        <5> QED
          BY <1>1, <2>4, <5>1
      <4> QED
        BY <3>1, <4>1, <4>2
    <3> HIDE DEF D, m, Sum
    <3> QED
      BY <1>1, <1>3, <3>1, <3>2, <3>3, <3>4
  <2> QED
    BY <1>1, <1>4, <2>2, <2>3, <2>4
<1>5. Sum(0) = 0
  BY <1>1
<1> HIDE DEF Sum
<1>6. Solution = Step(Solution)
  <2>1. ASSUME NEW n \in Nat
        PROVE  Sum(n) = IF n = 0 THEN 0 ELSE Solution[n-1] + lockout_duration(n-1)
    BY <1>4, <1>5, <2>1
  <2> QED
    BY <2>1
<1> HIDE DEF Solution
<1>7. TimeLocked = Step(TimeLocked)
  BY <1>6 DEF TimeLocked
<1> QED
  BY <1>7

(* The clock has passed all locks but the one that runs, and that one ends *)
(* no earlier than the rule says.                                          *)
Paid(user, now) ==
  LET n == user.failed_login_attempts
  IN /\ TimeLocked[n] \in Nat
     /\ now >= 1 + TimeLocked[n]
     /\ lockout_duration(n) # 0 => user.locked_until >= 1 + TimeLocked[n] + lockout_duration(n)

WaitedOut == clock >= 1 /\ \A i \in DOMAIN users : Paid(users[i], clock)

LEMMA PaidLater ==
  ASSUME NEW user, NEW now \in Nat, Paid(user, now), NEW later \in Nat, later >= now
  PROVE  Paid(user, later)
  BY DEF Paid

(* A cleared counter owes nothing.                                         *)
LEMMA PaidFromZero ==
  ASSUME NEW user, user.failed_login_attempts = 0, NEW now \in Nat, now >= 1
  PROVE  Paid(user, now)
  BY TimeLockedEquation, LockoutAssumption DEF Paid, lockout_duration

LEMMA WaitedOutStep == ASSUME Inv, WaitedOut, [Next]_vars PROVE WaitedOut'
<1>1. /\ clock \in Nat /\ clock >= 1
      /\ \A i \in DOMAIN users : users[i] \in User /\ Paid(users[i], clock)
  BY RowOf DEF Inv, TypeOK, WaitedOut
<1>2. CASE NewAccount
  <2>1. PICK name \in Names, role \in UserRoles, p \in Passwords :
          users' = Append(users, TemporaryAccount(name, role, p))
    BY <1>2 DEF NewAccount
  <2>2. Paid(TemporaryAccount(name, role, p), clock)
    BY <1>1, PaidFromZero DEF TemporaryAccount
  <2>3. \A i \in DOMAIN users' : Paid(users'[i], clock)
    BY <1>1, <2>1, <2>2, AppendedRow DEF Inv
  <2> QED
    BY <1>1, <1>2, <2>3 DEF NewAccount, WaitedOut
<1>3. CASE SameTable
  <2>1. users' = users /\ clock' \in Nat /\ clock' >= clock
    BY <1>1, <1>3 DEF SameTable
  <2> QED
    BY <1>1, <2>1, PaidLater DEF WaitedOut
<1>4. ASSUME NEW i \in DOMAIN users, NEW c, RowStep(i, c) PROVE WaitedOut'
  <2>1. Paid(c, clock)
    <3>1. CASE Failure(i, c)
      <4> DEFINE n == users[i].failed_login_attempts
      <4>1. n \in Nat /\ users[i].locked_until \in Nat /\ TimeLocked[n] \in Nat
        BY <1>1 DEF User, Paid
      <4>2. TimeLocked[n + 1] = TimeLocked[n] + lockout_duration(n)
        BY <4>1, TimeLockedEquation
      <4>3. lockout_duration(n) \in Nat /\ lockout_duration(n + 1) \in Nat
        BY <4>1, LockoutDuration
      <4>4. clock >= 1 + TimeLocked[n + 1]
        <5>1. CASE lockout_duration(n) = 0
          BY <1>1, <4>1, <4>2, <5>1 DEF Paid
        <5>2. CASE lockout_duration(n) # 0
          <6>1. users[i].locked_until >= 1 + TimeLocked[n] + lockout_duration(n)
            BY <1>1, <5>2 DEF Paid
          <6>2. users[i].locked_until <= clock
            BY <1>1, <3>1, <4>1, <4>3, <6>1 DEF Failure, Locked, Never
          <6> QED
            BY <1>1, <4>1, <4>2, <4>3, <6>1, <6>2
        <5> QED
          BY <5>1, <5>2
      <4>5. c.failed_login_attempts = n + 1
        BY <3>1 DEF Failure
      <4>6. lockout_duration(n + 1) # 0 => c.locked_until = clock + lockout_duration(n + 1)
        BY <3>1, <4>5 DEF Failure
      <4>7. TimeLocked[n + 1] \in Nat
        BY <4>1, <4>2, <4>3
      <4> HIDE DEF n
      <4> QED
        BY <1>1, <4>1, <4>3, <4>4, <4>5, <4>6, <4>7 DEF Paid
    <3>2. CASE Cleared(i, c)
      BY <1>1, <3>2, PaidFromZero DEF Cleared
    <3>3. CASE Uncounted(i, c)
      BY <1>1, <3>3 DEF Uncounted, Paid
    <3> QED
      BY <1>4, <3>1, <3>2, <3>3 DEF RowStep, Counted
  <2>2. /\ DOMAIN users' = DOMAIN users
        /\ \A j \in DOMAIN users : users'[j] = IF j = i THEN c ELSE users[j]
    BY <1>4, ReplacedRow DEF RowStep, Inv, TypeOK
  <2>3. clock' = clock
    BY <1>4 DEF RowStep
  <2> QED
    BY <1>1, <2>1, <2>2, <2>3 DEF WaitedOut
<1> QED
  BY <1>2, <1>3, <1>4, Shapes

(* Whoever guesses passwords one after the other waits out every lock, for *)
(* every threshold and every delay: the n-th failure in a row is counted   *)
(* no earlier than the sum of the delays before it.                        *)
THEOREM GuessingIsSlow == Spec => []GuessingTakesTime
<1>1. Init => WaitedOut
  BY DEF Init, WaitedOut
<1>2. Inv /\ WaitedOut /\ [Next]_vars => WaitedOut'
  BY WaitedOutStep
<1>3. WaitedOut => GuessingTakesTime
  BY DEF WaitedOut, GuessingTakesTime, Paid
<1> QED
  BY Invariant, <1>1, <1>2, <1>3, PTL DEF Spec
=============================================================================
