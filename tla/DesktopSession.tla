-------------------------- MODULE DesktopSession ---------------------------
(***************************************************************************)
(* The desktop shell: login window, password dialogs, main window, and the *)
(* thread pool whose results come back as events of the GUI thread.        *)
(*                                                                         *)
(* A handler runs to its end in the GUI thread.  A service call runs in    *)
(* the pool and posts its result, then "finished"; posted events are       *)
(* delivered in the order of posting, with any number of user actions in   *)
(* between.  A session is named by the login attempt that opened it.       *)
(*                                                                         *)
(* Left out: banners, focus and titles; the message box after a failed     *)
(* logout (it keeps no state); calls of the pages other than "this page    *)
(* read something".                                                        *)
(***************************************************************************)
EXTENDS Integers, Sequences, FiniteSets

CONSTANTS
  PoolSize,      \* setMaxThreadCount
  MaxLogins      \* bound: login attempts

ASSUME PoolAssumption == PoolSize \in Nat \ {0}
ASSUME LoginsAssumption == MaxLogins \in Nat

None == 0
Sessions == 1..MaxLogins

VARIABLES
  phase,          \* "running", "draining" the pool, or "disposed"
  session,        \* DesktopApplication._session
  main,           \* DesktopApplication.main_window, by its session
  shown,          \* main windows on the screen, by their sessions
  alive,          \* main windows that still exist, by their sessions
  login,          \* the login window
  first_run,      \* is the first-run dialog open?
  dialogs,        \* open password dialogs by session; the last has the input
  busy,           \* password dialogs, open or not, that await their call
  logout_pending,
  exit_after_logout,
  attempts,       \* logins submitted so far
  queued,         \* tasks waiting for a thread of the pool
  running,        \* tasks in a thread of the pool
  events,         \* events posted to the GUI thread
  restricted      \* sessions whose account has yet to change its password

pool == <<queued, running>>
window == <<session, main, shown, alive>>
logout == <<logout_pending, exit_after_logout>>
vars == <<phase, window, login, first_run, dialogs, busy, logout, attempts,
          pool, events, restricted>>

Task == [kind : {"login", "change", "page", "logout"}, session : Sessions]
T(kind, s) == [kind |-> kind, session |-> s]

Event == [kind : {"authenticated", "login_failed", "login_finished",
                  "session_changed", "change_failed", "change_finished",
                  "logged_out", "logout_failed", "denied", "delete"},
          session : Sessions]
E(kind, s) == [kind |-> kind, session |-> s]

TypeOK ==
  /\ phase \in {"running", "draining", "disposed"}
  /\ {session, main} \subseteq Sessions \cup {None}
  /\ shown \subseteq alive
  /\ alive \cup busy \cup restricted \subseteq Sessions
  /\ login \in [visible : BOOLEAN, busy : BOOLEAN]
  /\ dialogs \in Seq(Sessions)
  /\ {first_run, logout_pending, exit_after_logout} \subseteq BOOLEAN
  /\ attempts \in 0..MaxLogins
  /\ queued \in Seq(Task) /\ running \subseteq Task
  /\ events \in Seq(Event)

(* DesktopApplication.start: the first-run dialog, or the login window.    *)
Init ==
  /\ phase = "running" /\ session = None /\ main = None
  /\ shown = {} /\ alive = {} /\ dialogs = <<>> /\ busy = {}
  /\ first_run \in BOOLEAN
  /\ login = [visible |-> ~first_run, busy |-> FALSE]
  /\ logout_pending = FALSE /\ exit_after_logout = FALSE /\ attempts = 0
  /\ queued = <<>> /\ running = {} /\ events = <<>>
  /\ restricted = {}

reset_for_sign_in == login' = [visible |-> TRUE, busy |-> FALSE]

hide_login == login' = [login EXCEPT !.visible = FALSE]

(* quit closes the windows first: a main window ignores its close event,   *)
(* so a visible one can make Qt give up, with the login window already     *)
(* closed or not.                                                          *)
quit ==
  \/ phase' = "draining" /\ UNCHANGED login
  \/ /\ shown' # {} /\ UNCHANGED phase
     /\ login' = login \/ hide_login

(* _open_main.  The new window starts to read its page.  A window it       *)
(* replaces is destroyed at once, unless something still refers to it.     *)
open_main(s) ==
  /\ session' = s /\ main' = s
  /\ \E gone \in SUBSET ({main} \ {None}) :
       /\ shown' = (shown \ gone) \cup {s}
       /\ alive' = (alive \ gone) \cup {s}
  /\ hide_login
  /\ queued' = Append(queued, T("page", s))

(* Variant: the window is deleted without being hidden.                    *)
close_main_unhidden ==
  /\ main' = None
  /\ events' = Tail(events) \o (IF main = None THEN <<>> ELSE <<E("delete", main)>>)
  /\ UNCHANGED <<shown, alive>>

(* hide and deleteLater: the window exists until its event is delivered.   *)
close_main ==
  /\ main' = None
  /\ shown' = shown \ {main}
  /\ events' = Tail(events) \o (IF main = None THEN <<>> ELSE <<E("delete", main)>>)
  /\ UNCHANGED alive

(* ---------------------------- the user acts ---------------------------- *)

(* A password dialog is modal: no other window gets the input.             *)
AtWindow == phase = "running" /\ dialogs = <<>>

FirstRunClosed ==
  /\ AtWindow /\ first_run
  /\ first_run' = FALSE
  /\ reset_for_sign_in
  /\ UNCHANGED <<phase, window, dialogs, busy, logout, attempts, pool, events, restricted>>

(* LoginWindow.submit.                                                     *)
Submit ==
  /\ AtWindow /\ login = [visible |-> TRUE, busy |-> FALSE]
  /\ attempts < MaxLogins
  /\ attempts' = attempts + 1
  /\ login' = [login EXCEPT !.busy = TRUE]
  /\ queued' = Append(queued, T("login", attempts + 1))
  /\ UNCHANGED <<phase, window, first_run, dialogs, busy, logout, running, events, restricted>>

(* The exit button, disabled while busy, and the close box of the window.  *)
Exit ==
  /\ AtWindow /\ login.visible
  /\ UNCHANGED <<window, first_run, dialogs, busy, logout, attempts, pool, events, restricted>>
  /\ quit

(* PasswordChangeDialog._submit with two equal new passwords.              *)
SubmitChange ==
  /\ phase = "running" /\ dialogs # <<>>
  /\ LET s == dialogs[Len(dialogs)] IN
       /\ s \notin busy
       /\ busy' = busy \cup {s}
       /\ queued' = Append(queued, T("change", s))
  /\ UNCHANGED <<phase, window, login, first_run, dialogs, logout, attempts, running, events, restricted>>

(* Variant: a cancelled dialog always ends the session.                    *)
CancelBlindly ==
  /\ phase = "running" /\ dialogs # <<>>
  /\ dialogs' = SubSeq(dialogs, 1, Len(dialogs) - 1)
  /\ session' = None /\ reset_for_sign_in
  /\ UNCHANGED <<phase, main, shown, alive, first_run, busy, logout, attempts, pool, events, restricted>>

(* Variant: a cancelled dialog just closes.                                *)
CancelAndLeave ==
  /\ phase = "running" /\ dialogs # <<>>
  /\ dialogs' = SubSeq(dialogs, 1, Len(dialogs) - 1)
  /\ UNCHANGED <<phase, window, login, first_run, busy, logout, attempts, pool, events, restricted>>

(* "Back to sign in", Escape or the close box, also while the call runs:   *)
(* reject and _password_change_cancelled.                                  *)
CancelChange ==
  /\ phase = "running" /\ dialogs # <<>>
  /\ dialogs' = SubSeq(dialogs, 1, Len(dialogs) - 1)
  /\ IF main = None THEN session' = None /\ reset_for_sign_in
                    ELSE UNCHANGED <<session, login>>
  /\ UNCHANGED <<phase, main, shown, alive, first_run, busy, logout, attempts, pool, events, restricted>>

(* A page of a main window reads again; its _busy flag admits one call.    *)
ReadPage(s) ==
  /\ AtWindow /\ s \in shown
  /\ T("page", s) \notin running
  /\ \A i \in DOMAIN queued : queued[i] # T("page", s)
  /\ \A i \in DOMAIN events : events[i] # E("denied", s)
  /\ queued' = Append(queued, T("page", s))
  /\ UNCHANGED <<phase, window, login, first_run, dialogs, busy, logout, attempts, running, events, restricted>>

(* Variant: a second click is not ignored.                                 *)
BeginLogoutAgain(exit_after) ==
  /\ AtWindow /\ shown # {} /\ session # None /\ Len(queued) < 4
  /\ exit_after_logout' = exit_after
  /\ logout_pending' = TRUE
  /\ queued' = Append(queued, T("logout", session))
  /\ UNCHANGED <<phase, window, login, first_run, dialogs, busy, attempts, running, events, restricted>>

(* _begin_logout: the logout entry, or the close box of a main window.     *)
BeginLogout(exit_after) ==
  /\ AtWindow /\ shown # {} /\ ~logout_pending
  /\ IF session = None
     THEN /\ UNCHANGED <<logout, queued>> /\ UNCHANGED window
          /\ IF exit_after THEN quit ELSE reset_for_sign_in /\ UNCHANGED phase
     ELSE /\ exit_after_logout' = exit_after
          /\ logout_pending' = TRUE
          /\ queued' = Append(queued, T("logout", session))
          /\ UNCHANGED <<phase, window, login>>
  /\ UNCHANGED <<first_run, dialogs, busy, attempts, running, events, restricted>>

(* ------------------------------- the pool ------------------------------ *)

StartTask ==
  /\ phase # "disposed" /\ queued # <<>>
  /\ Cardinality(running) < PoolSize
  /\ running' = running \cup {Head(queued)}
  /\ queued' = Tail(queued)
  /\ UNCHANGED <<phase, window, login, first_run, dialogs, busy, logout, attempts, events, restricted>>

Login(s) ==
  \/ /\ events' = events \o <<E("login_failed", s), E("login_finished", s)>>
     /\ UNCHANGED restricted
  \/ /\ events' = events \o <<E("authenticated", s), E("login_finished", s)>>
     /\ restricted' \in {restricted, restricted \cup {s}}

ChangePassword(s) ==
  \/ /\ events' = events \o <<E("change_failed", s), E("change_finished", s)>>
     /\ UNCHANGED restricted
  \/ /\ events' = events \o <<E("session_changed", s), E("change_finished", s)>>
     /\ restricted' = restricted \ {s}

Logout(s) ==
  /\ \E kind \in {"logged_out", "logout_failed"} : events' = Append(events, E(kind, s))
  /\ UNCHANGED restricted

(* Only a page error that ends the session changes anything.               *)
Page(s) ==
  /\ events' \in {events, Append(events, E("denied", s))}
  /\ UNCHANGED restricted

(* Variant: a worker waits until the GUI thread has taken its result.      *)
CompleteBlocking(t) ==
  /\ phase = "running" /\ t \in running
  /\ running' = running \ {t}
  /\ CASE t.kind = "login"  -> Login(t.session)
       [] t.kind = "change" -> ChangePassword(t.session)
       [] t.kind = "logout" -> Logout(t.session)
       [] t.kind = "page"   -> Page(t.session)
  /\ UNCHANGED <<phase, window, login, first_run, dialogs, busy, logout, attempts, queued>>

(* DatabaseWorker.run ends; during the shutdown too, for running calls.    *)
Complete(t) ==
  /\ phase # "disposed" /\ t \in running
  /\ running' = running \ {t}
  /\ CASE t.kind = "login"  -> Login(t.session)
       [] t.kind = "change" -> ChangePassword(t.session)
       [] t.kind = "logout" -> Logout(t.session)
       [] t.kind = "page"   -> Page(t.session)
  /\ UNCHANGED <<phase, window, login, first_run, dialogs, busy, logout, attempts, queued>>

(* -------------------- posted events reach their handler ---------------- *)

Delivered(kind) ==
  /\ phase = "running" /\ events # <<>> /\ Head(events).kind = kind

(* Variant: every login opens the main window.                             *)
AuthenticatedUnchecked ==
  /\ Delivered("authenticated")
  /\ events' = Tail(events)
  /\ open_main(Head(events).session) /\ UNCHANGED dialogs
  /\ UNCHANGED <<phase, first_run, busy, logout, attempts, running, restricted>>

(* _authenticated and _show_password_change.                               *)
Authenticated ==
  /\ Delivered("authenticated")
  /\ events' = Tail(events)
  /\ LET s == Head(events).session IN
       IF s \in restricted
       THEN /\ dialogs' = Append(dialogs, s) /\ hide_login
            /\ UNCHANGED <<window, queued>>
       ELSE open_main(s) /\ UNCHANGED dialogs
  /\ UNCHANGED <<phase, first_run, busy, logout, attempts, running, restricted>>

LoginFailed ==
  /\ Delivered("login_failed")
  /\ events' = Tail(events)
  /\ UNCHANGED <<phase, window, login, first_run, dialogs, busy, logout, attempts, pool, restricted>>

(* Variant: on_finished is left out.                                       *)
LoginNeverFree ==
  /\ Delivered("login_finished")
  /\ events' = Tail(events)
  /\ UNCHANGED <<phase, window, login, first_run, dialogs, busy, logout, attempts, pool, restricted>>

LoginFinished ==
  /\ Delivered("login_finished")
  /\ events' = Tail(events)
  /\ login' = [login EXCEPT !.busy = FALSE]
  /\ UNCHANGED <<phase, window, first_run, dialogs, busy, logout, attempts, pool, restricted>>

(* The dialogs that stay open when the i-th is closed.                     *)
closed(i) == SubSeq(dialogs, 1, i-1) \o SubSeq(dialogs, i+1, Len(dialogs))

(* PasswordChangeDialog._changed: _password_changed opens the main window, *)
(* accept closes the dialog if it is still open.                           *)
SessionChanged ==
  /\ Delivered("session_changed")
  /\ events' = Tail(events)
  /\ LET s == Head(events).session IN
       /\ open_main(s)
       /\ IF \E i \in DOMAIN dialogs : dialogs[i] = s
          THEN \E i \in DOMAIN dialogs : dialogs[i] = s /\ dialogs' = closed(i)
          ELSE UNCHANGED dialogs
  /\ UNCHANGED <<phase, first_run, busy, logout, attempts, running, restricted>>

ChangeFailed ==
  /\ Delivered("change_failed")
  /\ events' = Tail(events)
  /\ UNCHANGED <<phase, window, login, first_run, dialogs, busy, logout, attempts, pool, restricted>>

ChangeFinished ==
  /\ Delivered("change_finished")
  /\ events' = Tail(events)
  /\ busy' = busy \ {Head(events).session}
  /\ UNCHANGED <<phase, window, login, first_run, dialogs, logout, attempts, pool, restricted>>

(* _logged_out, for whichever window is open by now.                       *)
LoggedOut ==
  /\ Delivered("logged_out")
  /\ logout_pending' = FALSE
  /\ session' = None
  /\ close_main
  /\ IF exit_after_logout THEN quit ELSE reset_for_sign_in /\ UNCHANGED phase
  /\ UNCHANGED <<first_run, dialogs, busy, exit_after_logout, attempts, pool, restricted>>

(* Variant: the flag is reset by a success only.                           *)
LogoutFailedStillPending ==
  /\ Delivered("logout_failed")
  /\ events' = Tail(events)
  /\ UNCHANGED <<phase, window, login, first_run, dialogs, busy, logout, attempts, pool, restricted>>

(* _logout_failed: the session and its window stay.                        *)
LogoutFailed ==
  /\ Delivered("logout_failed")
  /\ events' = Tail(events)
  /\ logout_pending' = FALSE
  /\ UNCHANGED <<phase, window, login, first_run, dialogs, busy, exit_after_logout, attempts, pool, restricted>>

(* A page reports an authorization error: _session_invalidated.  A page    *)
(* whose window no longer exists reports nothing.                          *)
SessionInvalidated ==
  /\ Delivered("denied")
  /\ IF Head(events).session \in alive
     THEN session' = None /\ close_main /\ reset_for_sign_in
     ELSE events' = Tail(events) /\ UNCHANGED <<window, login>>
  /\ UNCHANGED <<phase, first_run, dialogs, busy, logout, attempts, pool, restricted>>

Deleted ==
  /\ Delivered("delete")
  /\ events' = Tail(events)
  /\ alive' = alive \ {Head(events).session}
  /\ UNCHANGED <<phase, session, main, shown, login, first_run, dialogs, busy, logout, attempts, pool, restricted>>

(* ------------------------------- shutdown ------------------------------ *)

(* shutdown on aboutToQuit: clear drops what has not started.              *)
ClearPool ==
  /\ phase = "draining" /\ queued # <<>>
  /\ queued' = <<>>
  /\ UNCHANGED <<phase, window, login, first_run, dialogs, busy, logout, attempts, running, events, restricted>>

(* waitForDone returned: ApplicationResources.shutdown.                    *)
Dispose ==
  /\ phase = "draining" /\ queued = <<>> /\ running = {}
  /\ phase' = "disposed"
  /\ UNCHANGED <<window, login, first_run, dialogs, busy, logout, attempts, pool, events, restricted>>

Deliver ==
  \/ Authenticated \/ LoginFailed \/ LoginFinished
  \/ SessionChanged \/ ChangeFailed \/ ChangeFinished
  \/ LoggedOut \/ LogoutFailed \/ SessionInvalidated \/ Deleted

Act ==
  \/ FirstRunClosed \/ Submit \/ Exit \/ SubmitChange \/ CancelChange
  \/ \E s \in Sessions : ReadPage(s)
  \/ \E exit_after \in BOOLEAN : BeginLogout(exit_after)

Next ==
  \/ Act \/ Deliver
  \/ StartTask \/ \E t \in Task : Complete(t)
  \/ ClearPool \/ Dispose

(* Service calls end and the GUI thread keeps handling events; the user    *)
(* may stop at any time.                                                   *)
Fairness ==
  /\ WF_vars(StartTask) /\ WF_vars(Deliver)
  /\ \A t \in Task : WF_vars(Complete(t))
  /\ WF_vars(ClearPool) /\ WF_vars(Dispose)

Spec == Init /\ [][Next]_vars /\ Fairness

(* ------------------------------ properties ----------------------------- *)

(* Until the program ends there is a window: whichever results come late,  *)
(* the user is never left with a running program and an empty screen.      *)
NeverStranded ==
  phase = "running" => login.visible \/ first_run \/ dialogs # <<>> \/ shown # {}

(* The main window on the screen works for the session that a logout would *)
(* end: DesktopApplication._session and main_window never drift apart.     *)
SessionMatchesMain == main # None => session = main /\ main \in shown

(* tests/qt/test_ui_workflows.py: "mandatory password change cannot be     *)
(* bypassed": a main window never shows for an account that must change.   *)
NoBypass == shown \cap restricted = {}

(* At most one logout is under way, and the flag that keeps a second one   *)
(* away is never left set without one.                                     *)
LogoutsUnderWay ==
  Cardinality({i \in DOMAIN queued : queued[i].kind = "logout"})
  + Cardinality({t \in running : t.kind = "logout"})
  + Cardinality({i \in DOMAIN events : events[i].kind \in {"logged_out", "logout_failed"}})

OneLogout ==
  phase = "running" => LogoutsUnderWay = IF logout_pending THEN 1 ELSE 0

(* The shell is never without a window, its main window works for the      *)
(* session a logout would end, none opens for an account that must change  *)
(* its password first, and at most one logout is under way - whatever the  *)
(* order of clicks, results and events.                                    *)
WindowsFitSession ==
  TypeOK /\ NeverStranded /\ SessionMatchesMain /\ NoBypass /\ OneLogout

(* tests/qt/test_ui_workflows.py: "cancel returns to login": a main window *)
(* opens by a login, or from a password dialog that is still open, and not *)
(* by a change whose dialog was cancelled while the call ran.              *)
CancelReturnsToLogin ==
  [][main' \notin {main, None} =>
       Authenticated \/ \E i \in DOMAIN dialogs : dialogs[i] = main']_vars

(* A login, and a logout, is answered: the form never stays disabled and   *)
(* the window never stays unclosable.                                      *)
LoginAnswered == login.busy ~> (~login.busy \/ phase # "running")
LogoutAnswered == logout_pending ~> (~logout_pending \/ phase # "running")

(* A program that has begun to close reaches the end of shutdown.          *)
ClosesInTheEnd == (phase # "running") ~> (phase = "disposed")
=============================================================================
