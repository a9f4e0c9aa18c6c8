------------------------ MODULE DesktopSessionProofs ------------------------
(***************************************************************************)
(* Proofs about DesktopSession for any number of logins and any size of    *)
(* the pool, and about the logins that MCDesktopSession sets beside it.    *)
(*                                                                         *)
(* Why a late result cannot do harm: every login attempt goes through its  *)
(* stages once, from the call to the answer, possibly to the password      *)
(* dialog and its calls, to the main window.  What is queued, running or   *)
(* posted for an attempt tells its stage (SignIn, Choice, Change, Window), *)
(* and the steps only move it on.                                          *)
(***************************************************************************)
EXTENDS MCDesktopSession, SequenceTheorems, FiniteSetTheorems, TLAPS

(* ---------------------------- the invariant ---------------------------- *)

Has(seq, X) == \E i \in DOMAIN seq : seq[i] \in X
Once(seq, X) == \A i, j \in DOMAIN seq : seq[i] \in X /\ seq[j] \in X => i = j

(* Calls queued or running, and that at most one of them is.               *)
Pending(X) == Has(queued, X) \/ running \cap X # {}
Alone(X) ==
  /\ Once(queued, X)
  /\ Has(queued, X) => running \cap X = {}
  /\ \A t, u \in running \cap X : t = u

Posted(kind, s) == Has(events, {E(kind, s)})
OpenDialog(s) == Has(dialogs, {s})

(* The attempt has succeeded, its main window has yet to open.             *)
Waiting(s) ==
  \/ Posted("authenticated", s) \/ OpenDialog(s)
  \/ Pending({T("change", s)}) \/ Posted("session_changed", s)

(* Its main window has been opened and not yet destroyed.                  *)
Opened(s) == s \in alive \/ Posted("delete", s)

(* While the login runs nothing else is there of the attempt.              *)
SignIn(s) ==
  /\ Alone({T("login", s)})
  /\ Pending({T("login", s)}) => ~Waiting(s) /\ ~Opened(s) /\ s \notin restricted
  /\ Pending({T("login", s)}) \/ Waiting(s) \/ Opened(s) \/ s \in restricted => s <= attempts

(* The answer is handled once, and before anything that follows from it.   *)
Choice(s) ==
  /\ Once(events, {E("authenticated", s)})
  /\ Once(dialogs, {s})
  /\ Posted("authenticated", s)
       => ~OpenDialog(s) /\ ~Pending({T("change", s)}) /\ ~Posted("session_changed", s)

(* A result is followed by the end of its call.                            *)
Followed(seq, s) ==
  \A i \in DOMAIN seq :
    seq[i] = E("session_changed", s)
      => i + 1 \in DOMAIN seq /\ seq[i+1] = E("change_finished", s)

(* One change of the password at a time: the dialog's busy flag.           *)
Change(s) ==
  /\ Alone({T("change", s)})
  /\ Once(events, {E("change_finished", s)})
  /\ Posted("change_finished", s) => ~Pending({T("change", s)})
  /\ Pending({T("change", s)}) \/ Posted("change_finished", s) => s \in busy
  /\ Posted("session_changed", s) => s \notin restricted
  /\ Followed(events, s)

(* A main window is opened once, and with a password of one's own.         *)
Window(s) ==
  /\ Opened(s) => ~Waiting(s) /\ s \notin restricted
  /\ Posted("delete", s) => s \notin shown

Stages == \A s \in Sessions : SignIn(s) /\ Choice(s) /\ Change(s) /\ Window(s)

LogoutTasks == {t \in Task : t.kind = "logout"}
LogoutEvents == {e \in Event : e.kind \in {"logged_out", "logout_failed"}}

(* The logout that the flag stands for.                                    *)
Logouts ==
  phase = "running" =>
    /\ Alone(LogoutTasks)
    /\ Once(events, LogoutEvents)
    /\ Has(events, LogoutEvents) => ~Pending(LogoutTasks)
    /\ logout_pending <=> Has(events, LogoutEvents) \/ Pending(LogoutTasks)

Inv == TypeOK /\ NeverStranded /\ SessionMatchesMain /\ Logouts /\ Stages

(* ------------------------------ sequences ------------------------------ *)

LEMMA Appended ==
  ASSUME NEW S, NEW seq \in Seq(S), NEW e \in S
  PROVE  /\ Append(seq, e) \in Seq(S)
         /\ \A X : Has(Append(seq, e), X) <=> Has(seq, X) \/ e \in X
         /\ \A X : Once(seq, X) /\ (e \in X => ~Has(seq, X)) => Once(Append(seq, e), X)
         /\ \A s : Followed(seq, s) /\ e # E("session_changed", s) => Followed(Append(seq, e), s)
<1> DEFINE n == Len(seq)
           q == Append(seq, e)
<1>1. /\ n \in Nat /\ DOMAIN seq = 1 .. n /\ DOMAIN q = 1 .. n + 1
      /\ \A i \in 1 .. n : q[i] = seq[i]
      /\ q[n + 1] = e
  BY LenProperties, AppendProperties
<1>2. q \in Seq(S)
  BY AppendProperties
<1> HIDE DEF n, q
<1>3. ASSUME NEW X PROVE Has(q, X) <=> Has(seq, X) \/ e \in X
  BY <1>1 DEF Has
<1>4. ASSUME NEW X, Once(seq, X), e \in X => ~Has(seq, X) PROVE Once(q, X)
  BY <1>1, <1>4 DEF Has, Once
<1>5. ASSUME NEW s, Followed(seq, s), e # E("session_changed", s) PROVE Followed(q, s)
  BY <1>1, <1>5 DEF Followed
<1> QED
  BY <1>2, <1>3, <1>4, <1>5 DEF q

LEMMA Consumed ==
  ASSUME NEW S, NEW seq \in Seq(S), seq # <<>>
  PROVE  /\ Head(seq) \in S
         /\ Tail(seq) \in Seq(S)
         /\ \A X : Has(seq, X) <=> Head(seq) \in X \/ Has(Tail(seq), X)
         /\ \A X : Once(seq, X) => /\ Once(Tail(seq), X)
                                   /\ Head(seq) \in X => ~Has(Tail(seq), X)
         /\ \A s : Followed(seq, s) => Followed(Tail(seq), s)
<1> DEFINE n == Len(seq)
           q == Tail(seq)
<1>1. /\ n \in Nat \ {0} /\ DOMAIN seq = 1 .. n /\ DOMAIN q = 1 .. n - 1
      /\ Head(seq) = seq[1] /\ Head(seq) \in S /\ q \in Seq(S)
      /\ \A i \in 1 .. n - 1 : q[i] = seq[i + 1]
  BY LenProperties, HeadTailProperties, EmptySeq
<1> HIDE DEF n, q
<1>2. \A i \in 1 .. n : i = 1 \/ (i - 1 \in 1 .. n - 1 /\ seq[i] = q[i - 1])
  BY <1>1
<1>3. ASSUME NEW X PROVE Has(seq, X) <=> Head(seq) \in X \/ Has(q, X)
  <2>1. ASSUME NEW i \in 1 .. n, seq[i] \in X PROVE Head(seq) \in X \/ Has(q, X)
    BY <1>1, <1>2, <2>1 DEF Has
  <2>2. ASSUME NEW i \in 1 .. n - 1, q[i] \in X PROVE \E j \in 1 .. n : seq[j] \in X
    <3>1. i + 1 \in 1 .. n /\ seq[i + 1] \in X
      BY <1>1, <2>2
    <3> QED
      BY <3>1
  <2>3. Head(seq) \in X => \E j \in 1 .. n : seq[j] \in X
    <3>1. 1 \in 1 .. n
      BY <1>1
    <3> QED
      BY <1>1, <3>1
  <2> QED
    BY <1>1, <2>1, <2>2, <2>3 DEF Has
<1>4. ASSUME NEW X, Once(seq, X) PROVE Once(q, X) /\ (Head(seq) \in X => ~Has(q, X))
  <2>1. ASSUME NEW i \in 1 .. n - 1, NEW j \in 1 .. n - 1, q[i] \in X, q[j] \in X PROVE i = j
    <3>1. /\ i + 1 \in DOMAIN seq /\ j + 1 \in DOMAIN seq
          /\ seq[i + 1] \in X /\ seq[j + 1] \in X
      BY <1>1, <2>1
    <3> QED
      BY <1>4, <3>1 DEF Once
  <2>2. ASSUME Head(seq) \in X, NEW i \in 1 .. n - 1, q[i] \in X PROVE FALSE
    <3>1. 1 \in DOMAIN seq /\ i + 1 \in DOMAIN seq /\ seq[1] \in X /\ seq[i + 1] \in X /\ i + 1 # 1
      BY <1>1, <2>2
    <3> QED
      BY <1>4, <3>1 DEF Once
  <2> QED
    BY <1>1, <2>1, <2>2 DEF Once, Has
<1>5. ASSUME NEW s, Followed(seq, s) PROVE Followed(q, s)
  <2>1. ASSUME NEW i \in DOMAIN q, q[i] = E("session_changed", s)
        PROVE  i + 1 \in DOMAIN q /\ q[i + 1] = E("change_finished", s)
    <3>1. i + 1 \in DOMAIN seq /\ seq[i + 1] = E("session_changed", s)
      BY <1>1, <2>1
    <3>2. (i + 1) + 1 \in DOMAIN seq /\ seq[(i + 1) + 1] = E("change_finished", s)
      BY <1>5, <3>1 DEF Followed
    <3> QED
      BY <1>1, <2>1, <3>2
  <2> QED
    BY <2>1 DEF Followed
<1> QED
  BY <1>1, <1>3, <1>4, <1>5 DEF q

(* A result and the end of its call, posted one after the other.           *)
LEMMA PostedTwo ==
  ASSUME NEW S, NEW seq \in Seq(S), NEW a \in S, NEW b \in S
  PROVE  /\ seq \o <<a, b>> = Append(Append(seq, a), b)
         /\ seq \o <<a, b>> \in Seq(S)
         /\ \A X : Has(seq \o <<a, b>>, X) <=> Has(seq, X) \/ a \in X \/ b \in X
         /\ \A X : /\ Once(seq, X) /\ (a \in X \/ b \in X => ~Has(seq, X))
                   /\ ~(a \in X /\ b \in X)
                   => Once(seq \o <<a, b>>, X)
<1>1. seq \o <<a, b>> = Append(Append(seq, a), b)
  OBVIOUS
<1>2. Append(seq, a) \in Seq(S)
  BY Appended
<1>3. Append(Append(seq, a), b) \in Seq(S)
  BY <1>2, Appended
<1>4. \A X : Has(Append(Append(seq, a), b), X) <=> Has(seq, X) \/ a \in X \/ b \in X
  BY <1>2, Appended
<1>5. ASSUME NEW X, Once(seq, X), a \in X \/ b \in X => ~Has(seq, X), ~(a \in X /\ b \in X)
      PROVE  Once(Append(Append(seq, a), b), X)
  <2>1. Once(Append(seq, a), X)
    BY <1>5, Appended
  <2>2. b \in X => ~Has(Append(seq, a), X)
    BY <1>5, Appended
  <2> QED
    BY <1>2, <2>1, <2>2, Appended
<1> QED
  BY <1>1, <1>3, <1>4, <1>5

LEMMA FollowedByTwo ==
  ASSUME NEW seq \in Seq(Event), NEW s, Followed(seq, s),
         NEW a \in Event, NEW b \in Event, b # E("session_changed", s),
         a = E("session_changed", s) => b = E("change_finished", s)
  PROVE  Followed(seq \o <<a, b>>, s)
<1> DEFINE n == Len(seq)
           q == seq \o <<a, b>>
<1>1. /\ n \in Nat /\ DOMAIN seq = 1 .. n /\ DOMAIN q = 1 .. n + 2
      /\ \A i \in 1 .. n : q[i] = seq[i]
      /\ q[n + 1] = a /\ q[n + 2] = b
  BY LenProperties, ConcatProperties
<1> HIDE DEF n, q
<1>2. Followed(q, s)
  BY <1>1 DEF Followed
<1> QED
  BY <1>2 DEF q

(* An element that occurs once is gone when that occurrence is removed.    *)
LEMMA Removed ==
  ASSUME NEW S, NEW seq \in Seq(S), NEW k \in DOMAIN seq,
         NEW q, q = SubSeq(seq, 1, k-1) \o SubSeq(seq, k+1, Len(seq))
  PROVE  /\ q \in Seq(S)
         /\ \A X : Has(q, X) => Has(seq, X)
         /\ \A X : Once(seq, X) => Once(q, X)
         /\ \A X : Once(seq, X) /\ seq[k] \in X => ~Has(q, X)
<1> DEFINE n == Len(seq)
           a == SubSeq(seq, 1, k-1)
           b == SubSeq(seq, k+1, n)
<1>1. n \in Nat /\ DOMAIN seq = 1 .. n /\ k \in 1 .. n
  BY LenProperties
<1>2. a \in Seq(S) /\ Len(a) = k - 1 /\ \A i \in 1 .. k - 1 : a[i] = seq[i]
  BY <1>1, SubSeqProperties, LenProperties, ElementOfSeq
<1>3. b \in Seq(S) /\ Len(b) = n - k /\ \A i \in 1 .. n - k : b[i] = seq[k + i]
  <2>1. k + 1 \in Int /\ n \in Int /\ \A i \in k + 1 .. n : seq[i] \in S
    BY <1>1, ElementOfSeq
  <2> HIDE DEF n
  <2>2. /\ b \in Seq(S)
        /\ Len(b) = IF k + 1 <= n THEN n - (k + 1) + 1 ELSE 0
        /\ \A i \in 1 .. n - (k + 1) + 1 : b[i] = seq[(k + 1) + i - 1]
    BY <2>1, SubSeqProperties
  <2>3. Len(b) = n - k
    BY <1>1, <2>2
  <2>4. \A i \in 1 .. n - k : b[i] = seq[k + i]
    <3> HIDE DEF b
    <3> SUFFICES ASSUME NEW i \in 1 .. n - k PROVE b[i] = seq[k + i]
      OBVIOUS
    <3>1. i \in 1 .. n - (k + 1) + 1 /\ (k + 1) + i - 1 = k + i
      BY <1>1
    <3> QED
      BY <2>2, <3>1
  <2> QED
    BY <2>2, <2>3, <2>4
<1>4. /\ q \in Seq(S) /\ DOMAIN q = 1 .. n - 1
      /\ \A i \in 1 .. n - 1 : q[i] = IF i < k THEN seq[i] ELSE seq[i + 1]
  <2> HIDE DEF a, b, n
  <2>1. q = a \o b
    BY DEF a, b, n
  <2>2. /\ q \in Seq(S) /\ Len(q) = n - 1
        /\ \A i \in 1 .. n - 1 : q[i] = IF i <= k - 1 THEN a[i] ELSE b[i - (k - 1)]
    <3>1. /\ a \o b \in Seq(S)
          /\ Len(a \o b) = Len(a) + Len(b)
          /\ \A i \in 1 .. Len(a) + Len(b) :
               (a \o b)[i] = IF i <= Len(a) THEN a[i] ELSE b[i - Len(a)]
      BY <1>2, <1>3, ConcatProperties
    <3>2. Len(a) + Len(b) = n - 1 /\ Len(a) = k - 1
      BY <1>1, <1>2, <1>3
    <3> QED
      BY <2>1, <3>1, <3>2
  <2>3. \A i \in 1 .. n - 1 : q[i] = IF i < k THEN seq[i] ELSE seq[i + 1]
    <3> SUFFICES ASSUME NEW i \in 1 .. n - 1
                 PROVE  q[i] = IF i < k THEN seq[i] ELSE seq[i + 1]
      OBVIOUS
    <3>1. CASE i < k
      BY <1>1, <1>2, <2>2, <3>1
    <3>2. CASE ~(i < k)
      <4>1. i - (k - 1) \in 1 .. n - k /\ k + (i - (k - 1)) = i + 1 /\ ~(i <= k - 1)
        BY <1>1, <3>2
      <4>2. b[i - (k - 1)] = seq[i + 1]
        BY <1>3, <4>1
      <4> QED
        BY <1>1, <2>2, <3>2, <4>1, <4>2
    <3> QED
      BY <3>1, <3>2
  <2> QED
    BY <1>1, <2>2, <2>3, LenProperties
<1> HIDE DEF n, a, b
<1>5. ASSUME NEW X, Has(q, X) PROVE Has(seq, X)
  <2>1. PICK i \in 1 .. n - 1 : q[i] \in X
    BY <1>4, <1>5 DEF Has
  <2>2. i \in DOMAIN seq /\ i + 1 \in DOMAIN seq /\ (q[i] = seq[i] \/ q[i] = seq[i + 1])
    BY <1>1, <1>4
  <2> QED
    BY <2>1, <2>2 DEF Has
<1>6. ASSUME NEW X, Once(seq, X), NEW i \in 1 .. n - 1, NEW j \in 1 .. n - 1, q[i] \in X, q[j] \in X
      PROVE  i = j
  <2> DEFINE at(m) == IF m < k THEN m ELSE m + 1
  <2>1. \A m \in 1 .. n - 1 : at(m) \in 1 .. n
    BY <1>1
  <2>2. \A m \in 1 .. n - 1 : q[m] = seq[at(m)]
    BY <1>4
  <2>3. at(i) = at(j)
    <3> HIDE DEF at
    <3> QED
      BY <1>1, <1>6, <2>1, <2>2 DEF Once
  <2> QED
    BY <1>1, <2>3
<1>7. ASSUME NEW X, Once(seq, X), seq[k] \in X PROVE ~Has(q, X)
  <2>1. ASSUME NEW i \in 1 .. n - 1, q[i] \in X PROVE FALSE
    <3> DEFINE m == IF i < k THEN i ELSE i + 1
    <3>1. m \in 1 .. n /\ m # k
      BY <1>1
    <3>2. seq[m] \in X
      BY <1>4, <2>1
    <3> HIDE DEF m
    <3> QED
      BY <1>1, <1>7, <3>1, <3>2 DEF Once
  <2> QED
    BY <1>4, <2>1 DEF Has
<1> QED
  BY <1>4, <1>5, <1>6, <1>7 DEF Once

(* -------------------------------- types -------------------------------- *)

LEMMA Tasks ==
  ASSUME NEW kind \in {"login", "change", "page", "logout"}, NEW s \in Sessions
  PROVE  T(kind, s) \in Task /\ T(kind, s).kind = kind /\ T(kind, s).session = s
  BY DEF T, Task

LEMMA Events ==
  ASSUME NEW kind \in {"authenticated", "login_failed", "login_finished",
                       "session_changed", "change_failed", "change_finished",
                       "logged_out", "logout_failed", "denied", "delete"},
         NEW s \in Sessions
  PROVE  E(kind, s) \in Event /\ E(kind, s).kind = kind /\ E(kind, s).session = s
  BY DEF E, Event

LEMMA Distinct ==
  ASSUME NEW k1, NEW s1, NEW k2, NEW s2
  PROVE  /\ T(k1, s1) \in {T(k2, s2)} <=> k1 = k2 /\ s1 = s2
         /\ E(k1, s1) \in {E(k2, s2)} <=> k1 = k2 /\ s1 = s2
  BY DEF T, E

LEMMA TypeFacts ==
  ASSUME TypeOK
  PROVE  /\ queued \in Seq(Task) /\ running \subseteq Task
         /\ events \in Seq(Event) /\ dialogs \in Seq(Sessions)
         /\ None \notin Sessions /\ Sessions \subseteq Nat
         /\ attempts \in Nat /\ attempts <= MaxLogins
  BY LoginsAssumption DEF TypeOK, Sessions, None

LEMMA TaskNamed ==
  ASSUME NEW t \in Task
  PROVE  t = T(t.kind, t.session) /\ t.session \in Sessions
         /\ t.kind \in {"login", "change", "page", "logout"}
  BY DEF Task, T

LEMMA EventNamed ==
  ASSUME NEW e \in Event
  PROVE  e = E(e.kind, e.session) /\ e.session \in Sessions
  BY DEF Event, E

(* ----------------------- the pool, step by step ------------------------ *)

LEMMA PoolStill ==
  ASSUME UNCHANGED pool
  PROVE  /\ \A X : Pending(X)' <=> Pending(X)
         /\ \A X : Alone(X) => Alone(X)'
  BY DEF pool, Pending, Alone

LEMMA PoolGrows ==
  ASSUME TypeOK, NEW t \in Task, queued' = Append(queued, t), running' = running
  PROVE  /\ \A X : Pending(X)' <=> Pending(X) \/ t \in X
         /\ \A X : Alone(X) /\ (t \in X => ~Pending(X)) => Alone(X)'
<1>1. /\ \A X : Has(queued', X) <=> Has(queued, X) \/ t \in X
      /\ \A X : Once(queued, X) /\ (t \in X => ~Has(queued, X)) => Once(queued', X)
  BY TypeFacts, Appended
<1> QED
  BY <1>1 DEF Pending, Alone

LEMMA PoolStarts ==
  ASSUME TypeOK, StartTask
  PROVE  /\ \A X : Pending(X)' <=> Pending(X)
         /\ \A X : Alone(X) => Alone(X)'
<1>1. /\ \A X : Has(queued, X) <=> Head(queued) \in X \/ Has(Tail(queued), X)
      /\ \A X : Once(queued, X) => /\ Once(Tail(queued), X)
                                   /\ Head(queued) \in X => ~Has(Tail(queued), X)
  BY TypeFacts, Consumed DEF StartTask
<1>2. queued' = Tail(queued) /\ running' = running \cup {Head(queued)}
  BY DEF StartTask
<1>3. \A X : Pending(X)' <=> Pending(X)
  BY <1>1, <1>2 DEF Pending
<1>4. ASSUME NEW X, Alone(X) PROVE Alone(X)'
  BY <1>1, <1>2, <1>4 DEF Alone
<1> QED
  BY <1>3, <1>4

LEMMA PoolCompletes ==
  ASSUME NEW t \in running, running' = running \ {t}, queued' = queued
  PROVE  /\ \A X : Pending(X)' => Pending(X)
         /\ \A X : t \in X => Pending(X)
         /\ \A X : t \notin X => (Pending(X)' <=> Pending(X))
         /\ \A X : Alone(X) => Alone(X)' /\ (t \in X => ~Pending(X)')
  BY DEF Pending, Alone

LEMMA PoolCleared ==
  ASSUME queued' = <<>>, running' = running
  PROVE  /\ \A X : Pending(X)' => Pending(X)
         /\ \A X : Alone(X) => Alone(X)'
  BY DEF Pending, Alone, Has, Once

(* ------------------------- steps and attempts -------------------------- *)

Stage(s) == SignIn(s) /\ Choice(s) /\ Change(s) /\ Window(s)

(* A step after which nothing more is there of an attempt than before.     *)
Fewer(s) ==
  /\ \A kind \in {"login", "change"} :
       Alone({T(kind, s)})' /\ (Pending({T(kind, s)})' => Pending({T(kind, s)}))
  /\ \A kind \in {"authenticated", "session_changed", "change_finished"} :
       Posted(kind, s)' => Posted(kind, s)
  /\ \A kind \in {"authenticated", "change_finished"} : Once(events, {E(kind, s)})'
  /\ Followed(events, s)'
  /\ Once(dialogs, {s})' /\ (OpenDialog(s)' => OpenDialog(s))
  /\ Opened(s)' => Opened(s)
  /\ Posted("delete", s)' => s \notin shown'
  /\ Pending({T("change", s)})' \/ Posted("change_finished", s)' => s \in busy'
  /\ attempts' = attempts /\ restricted' \subseteq restricted

LEMMA FewerStep ==
  ASSUME NEW s, Stage(s), Fewer(s)
  PROVE  Stage(s)'
<1>1. Waiting(s)' => Waiting(s)
  BY DEF Fewer, Waiting
<1>2. SignIn(s)'
  BY <1>1 DEF Stage, Fewer, SignIn
<1>3. Choice(s)'
  BY DEF Stage, Fewer, Choice
<1>4. Change(s)'
  BY DEF Stage, Fewer, Change
<1>5. Window(s)'
  BY <1>1 DEF Stage, Fewer, Window
<1> QED
  BY <1>2, <1>3, <1>4, <1>5 DEF Stage

(* The pool moves, or grows by a call that is no login and no change.      *)
PoolMoves ==
  \A kind \in {"login", "change"} : \A s \in Sessions :
    /\ Pending({T(kind, s)})' => Pending({T(kind, s)})
    /\ Alone({T(kind, s)}) => Alone({T(kind, s)})'

LEMMA PoolStep ==
  ASSUME TypeOK, [Next]_vars,
         \/ UNCHANGED pool \/ StartTask \/ ClearPool
         \/ /\ running' = running
            /\ \E kind \in {"page", "logout"}, s \in Sessions :
                 queued' = Append(queued, T(kind, s))
  PROVE  PoolMoves
<1>1. CASE UNCHANGED pool
  BY <1>1, PoolStill DEF PoolMoves
<1>2. CASE StartTask
  BY <1>2, PoolStarts DEF PoolMoves
<1>3. CASE ClearPool
  BY <1>3, PoolCleared DEF PoolMoves, ClearPool
<1>4. ASSUME running' = running, NEW kind \in {"page", "logout"}, NEW s \in Sessions,
             queued' = Append(queued, T(kind, s))
      PROVE  PoolMoves
  <2>1. T(kind, s) \in Task
    BY Tasks
  <2>2. ASSUME NEW k \in {"login", "change"}, NEW u \in Sessions
        PROVE  T(kind, s) \notin {T(k, u)}
    BY <1>4, <2>2, Distinct
  <2>3. /\ \A X : Pending(X)' <=> Pending(X) \/ T(kind, s) \in X
        /\ \A X : Alone(X) /\ (T(kind, s) \in X => ~Pending(X)) => Alone(X)'
    BY <1>4, <2>1, PoolGrows
  <2> QED
    BY <2>2, <2>3 DEF PoolMoves
<1> QED
  BY <1>1, <1>2, <1>3, <1>4

(* What the events tell of an attempt after one has been delivered.        *)
LEMMA EventsTail ==
  ASSUME TypeOK, events # <<>>
  PROVE  /\ Head(events) \in Event /\ Tail(events) \in Seq(Event)
         /\ \A X : Has(events, X) <=> Head(events) \in X \/ Has(Tail(events), X)
         /\ \A X : Once(events, X) => /\ Once(Tail(events), X)
                                      /\ Head(events) \in X => ~Has(Tail(events), X)
         /\ \A s : Followed(events, s) => Followed(Tail(events), s)
  BY TypeFacts, Consumed

LEMMA TailStep ==
  ASSUME TypeOK, events # <<>>, events' = Tail(events), NEW s, Stage(s)
  PROVE  /\ \A kind : Posted(kind, s)' => Posted(kind, s)
         /\ \A kind \in {"authenticated", "change_finished"} : Once(events, {E(kind, s)})'
         /\ Followed(events, s)'
  BY EventsTail DEF Posted, Stage, Choice, Change

LEMMA PoolDone ==
  ASSUME NEW t \in running, running' = running \ {t}, queued' = queued
  PROVE  PoolMoves
  BY PoolCompletes DEF PoolMoves

(* Nothing is posted that tells the stage of an attempt.                   *)
EventsMove ==
  \A s \in Sessions :
    /\ \A kind \in {"authenticated", "session_changed", "change_finished", "delete"} :
         /\ Posted(kind, s)' => Posted(kind, s)
         /\ Once(events, {E(kind, s)}) => Once(events, {E(kind, s)})'
    /\ Followed(events, s) => Followed(events, s)'

LEMMA EventsStill == ASSUME UNCHANGED events PROVE EventsMove
  BY DEF EventsMove, Posted

Silent == {"login_failed", "login_finished", "change_failed", "logged_out", "logout_failed", "denied"}

LEMMA EventPosted ==
  ASSUME TypeOK, NEW kind \in Silent, NEW u \in Sessions, events' = Append(events, E(kind, u))
  PROVE  EventsMove
<1>1. E(kind, u) \in Event
  BY Events DEF Silent
<1>2. ASSUME NEW s \in Sessions,
             NEW k \in {"authenticated", "session_changed", "change_finished", "delete"}
      PROVE  E(kind, u) \notin {E(k, s)} /\ E(kind, u) # E("session_changed", s)
  BY <1>2, Distinct DEF Silent
<1>3. /\ \A X : Has(events', X) <=> Has(events, X) \/ E(kind, u) \in X
      /\ \A X : Once(events, X) /\ (E(kind, u) \in X => ~Has(events, X)) => Once(events', X)
      /\ \A s : Followed(events, s) /\ E(kind, u) # E("session_changed", s) => Followed(events', s)
  BY <1>1, TypeFacts, Appended
<1> QED
  BY <1>2, <1>3 DEF EventsMove, Posted

LEMMA EventsPosted ==
  ASSUME TypeOK, NEW k1 \in Silent, NEW k2 \in Silent, NEW u \in Sessions,
         events' = events \o <<E(k1, u), E(k2, u)>>
  PROVE  EventsMove
<1>1. E(k1, u) \in Event /\ E(k2, u) \in Event
  BY Events DEF Silent
<1>2. ASSUME NEW s \in Sessions,
             NEW k \in {"authenticated", "session_changed", "change_finished", "delete"}
      PROVE  /\ E(k1, u) \notin {E(k, s)} /\ E(k1, u) # E("session_changed", s)
             /\ E(k2, u) \notin {E(k, s)} /\ E(k2, u) # E("session_changed", s)
  BY <1>2, Distinct DEF Silent
<1>3. /\ \A X : Has(events', X) <=> Has(events, X) \/ E(k1, u) \in X \/ E(k2, u) \in X
      /\ \A X : /\ Once(events, X) /\ (E(k1, u) \in X \/ E(k2, u) \in X => ~Has(events, X))
                /\ ~(E(k1, u) \in X /\ E(k2, u) \in X)
                => Once(events', X)
  BY <1>1, TypeFacts, PostedTwo
<1>4. ASSUME NEW s \in Sessions, Followed(events, s) PROVE Followed(events', s)
  BY <1>1, <1>2, <1>4, TypeFacts, FollowedByTwo
<1> QED
  BY <1>2, <1>3, <1>4 DEF EventsMove, Posted

(* Steps that deliver no event and post none that counts.                  *)
LEMMA Shortened ==
  ASSUME NEW S, NEW seq \in Seq(S), seq # <<>>, NEW q, q = SubSeq(seq, 1, Len(seq) - 1)
  PROVE  /\ q \in Seq(S)
         /\ \A X : Has(q, X) => Has(seq, X)
         /\ \A X : Once(seq, X) => Once(q, X)
<1> DEFINE n == Len(seq)
<1>1. n \in Nat \ {0} /\ DOMAIN seq = 1 .. n /\ \A i \in 1 .. n : seq[i] \in S
  BY LenProperties, EmptySeq, ElementOfSeq
<1> HIDE DEF n
<1>2. q = SubSeq(seq, 1, n - 1)
  BY DEF n
<1>3. /\ q \in Seq(S)
      /\ Len(q) = IF 1 <= n - 1 THEN (n - 1) - 1 + 1 ELSE 0
      /\ \A i \in 1 .. (n - 1) - 1 + 1 : q[i] = seq[1 + i - 1]
  BY <1>1, <1>2, SubSeqProperties
<1>4. DOMAIN q = 1 .. n - 1
  BY <1>1, <1>3, LenProperties
<1>5. \A i \in 1 .. n - 1 : q[i] = seq[i] /\ i \in 1 .. n
  BY <1>1, <1>3
<1> QED
  BY <1>1, <1>3, <1>4, <1>5 DEF Has, Once

LEMMA SilentStep ==
  ASSUME TypeOK, Stages, PoolMoves, EventsMove,
         UNCHANGED <<shown, alive, busy, attempts, restricted>>,
         \/ UNCHANGED dialogs
         \/ dialogs # <<>> /\ dialogs' = SubSeq(dialogs, 1, Len(dialogs) - 1)
  PROVE  Stages'
<1> SUFFICES ASSUME NEW s \in Sessions PROVE Stage(s)'
  BY DEF Stages, Stage
<1>1. Stage(s)
  BY DEF Stages, Stage
<1>2. Once(dialogs, {s})' /\ (OpenDialog(s)' => OpenDialog(s))
  BY <1>1, TypeFacts, Shortened DEF OpenDialog, Stage, Choice
<1>3. \A kind \in {"authenticated", "session_changed", "change_finished", "delete"} :
        Posted(kind, s)' => Posted(kind, s)
  BY DEF EventsMove
<1>4. /\ \A kind \in {"authenticated", "change_finished"} : Once(events, {E(kind, s)})'
      /\ Followed(events, s)'
  BY <1>1 DEF EventsMove, Stage, Choice, Change
<1>5. \A kind \in {"login", "change"} :
        Alone({T(kind, s)})' /\ (Pending({T(kind, s)})' => Pending({T(kind, s)}))
  BY <1>1 DEF PoolMoves, Stage, SignIn, Change
<1>6. Opened(s)' => Opened(s)
  BY <1>3 DEF Opened
<1>7. Posted("delete", s)' => s \notin shown'
  BY <1>1, <1>3 DEF Stage, Window
<1>8. Pending({T("change", s)})' \/ Posted("change_finished", s)' => s \in busy'
  BY <1>1, <1>3, <1>5 DEF Stage, Change
<1>9. Fewer(s)
  BY <1>2, <1>3, <1>4, <1>5, <1>6, <1>7, <1>8 DEF Fewer
<1> QED
  BY <1>1, <1>9, FewerStep

(* Steps that deliver an event, and may close the main window.             *)
LEMMA DeliveryStep ==
  ASSUME TypeOK, SessionMatchesMain, Stages, events # <<>>,
         UNCHANGED <<pool, dialogs, attempts, restricted>>,
         \/ /\ events' = Tail(events)
            /\ shown' = shown /\ alive' \subseteq alive
            /\ \/ busy' = busy
               \/ \E u \in Sessions :
                    Head(events) = E("change_finished", u) /\ busy' = busy \ {u}
         \/ close_main /\ busy' = busy
  PROVE  Stages'
<1> SUFFICES ASSUME NEW s \in Sessions PROVE Stage(s)'
  BY DEF Stages, Stage
<1>1. Stage(s)
  BY DEF Stages, Stage
<1>2. \A kind \in {"login", "change"} :
        Alone({T(kind, s)})' /\ (Pending({T(kind, s)})' => Pending({T(kind, s)}))
  BY <1>1, PoolStill DEF Stage, SignIn, Change
<1>3. Once(dialogs, {s})' /\ (OpenDialog(s)' => OpenDialog(s))
  BY <1>1 DEF OpenDialog, Stage, Choice
<1>4. CASE /\ events' = Tail(events)
           /\ shown' = shown /\ alive' \subseteq alive
           /\ \/ busy' = busy
              \/ \E u \in Sessions :
                   Head(events) = E("change_finished", u) /\ busy' = busy \ {u}
  <2>1. /\ \A kind : Posted(kind, s)' => Posted(kind, s)
        /\ \A kind \in {"authenticated", "change_finished"} : Once(events, {E(kind, s)})'
        /\ Followed(events, s)'
    BY <1>1, <1>4, TailStep
  <2>2. Opened(s)' => Opened(s)
    BY <1>4, <2>1 DEF Opened
  <2>3. Posted("delete", s)' => s \notin shown'
    BY <1>1, <1>4, <2>1 DEF Stage, Window
  <2>4. Pending({T("change", s)})' \/ Posted("change_finished", s)' => s \in busy'
    <3>1. CASE busy' = busy
      BY <1>1, <1>2, <2>1, <3>1 DEF Stage, Change
    <3>2. ASSUME NEW u \in Sessions, Head(events) = E("change_finished", u), busy' = busy \ {u}
          PROVE  Pending({T("change", s)})' \/ Posted("change_finished", s)' => s \in busy'
      <4>1. CASE u = s
        <5>1. Posted("change_finished", s) /\ ~Posted("change_finished", s)'
          BY <1>1, <1>4, <3>2, <4>1, EventsTail DEF Posted, Stage, Change
        <5> QED
          BY <1>1, <1>2, <5>1 DEF Stage, Change
      <4>2. CASE u # s
        BY <1>1, <1>2, <2>1, <3>2, <4>2 DEF Stage, Change
      <4> QED
        BY <4>1, <4>2
    <3> QED
      BY <1>4, <3>1, <3>2
  <2>5. Fewer(s)
    BY <1>2, <1>3, <2>1, <2>2, <2>3, <2>4 DEF Fewer
  <2> QED
    BY <1>1, <2>5, FewerStep
<1>5. CASE close_main /\ busy' = busy
  <2> DEFINE q == Tail(events)
  <2>1. /\ q \in Seq(Event)
        /\ \A X : Has(q, X) => Has(events, X)
        /\ \A X : Once(events, X) => Once(q, X)
        /\ Followed(events, s) => Followed(q, s)
    BY EventsTail
  <2>2. main # None => main \in Sessions /\ E("delete", main) \in Event
    BY Events DEF TypeOK
  <2>3. IF main = None THEN events' = q ELSE events' = Append(q, E("delete", main))
    <3>1. CASE main = None
      BY <1>5, <2>1, <3>1, ConcatEmptySeq DEF close_main
    <3>2. CASE main # None
      BY <1>5, <2>1, <2>2, <3>2, AppendIsConcat DEF close_main
    <3> QED
      BY <3>1, <3>2
  <2> HIDE DEF q
  <2>4. \A X : Has(events', X) => Has(events, X) \/ (main # None /\ E("delete", main) \in X)
    BY <2>1, <2>2, <2>3, Appended
  <2>5. \A kind \in {"authenticated", "session_changed", "change_finished"} :
          E("delete", main) \notin {E(kind, s)}
    BY Distinct
  <2>6. \A kind \in {"authenticated", "session_changed", "change_finished"} :
          Posted(kind, s)' => Posted(kind, s)
    BY <2>4, <2>5 DEF Posted
  <2>7. \A kind \in {"authenticated", "change_finished"} : Once(events, {E(kind, s)})'
    <3> SUFFICES ASSUME NEW kind \in {"authenticated", "change_finished"}
                 PROVE  Once(events', {E(kind, s)})
      OBVIOUS
    <3>1. Once(q, {E(kind, s)})
      BY <1>1, <2>1 DEF Stage, Choice, Change
    <3>2. CASE main = None
      BY <2>3, <3>1, <3>2
    <3>3. CASE main # None
      <4>1. Once(Append(q, E("delete", main)), {E(kind, s)})
        BY <2>1, <2>2, <2>5, <3>1, <3>3, Appended
      <4> QED
        BY <2>3, <3>3, <4>1
    <3> QED
      BY <3>2, <3>3
  <2>8. Followed(events, s)'
    <3>1. Followed(q, s) /\ E("delete", main) # E("session_changed", s)
      BY <1>1, <2>1, <2>5 DEF Stage, Change
    <3>2. CASE main = None
      BY <2>3, <3>1, <3>2
    <3>3. CASE main # None
      <4>1. Followed(Append(q, E("delete", main)), s)
        BY <2>1, <2>2, <3>1, <3>3, Appended
      <4> QED
        BY <2>3, <3>3, <4>1
    <3> QED
      BY <3>2, <3>3
  <2>9. Posted("delete", s)' => Posted("delete", s) \/ (main # None /\ s = main)
    BY <2>4, Distinct DEF Posted
  <2>10. Opened(s)' => Opened(s)
    BY <1>5, <2>9 DEF Opened, close_main, SessionMatchesMain, TypeOK
  <2>11. Posted("delete", s)' => s \notin shown'
    BY <1>1, <1>5, <2>9 DEF close_main, Stage, Window
  <2>12. Pending({T("change", s)})' \/ Posted("change_finished", s)' => s \in busy'
    BY <1>1, <1>2, <1>5, <2>6 DEF Stage, Change
  <2>13. Fewer(s)
    BY <1>2, <1>3, <2>6, <2>7, <2>8, <2>10, <2>11, <2>12 DEF Fewer
  <2> QED
    BY <1>1, <2>13, FewerStep
<1> QED
  BY <1>4, <1>5

(* A new attempt starts from nothing.                                      *)
LEMMA SubmitStep == ASSUME TypeOK, Stages, Submit PROVE Stages'
<1> DEFINE u == attempts + 1
<1>1. u \in Sessions /\ T("login", u) \in Task
  <2>1. u \in Sessions
    BY LoginsAssumption DEF TypeOK, Submit, Sessions
  <2> QED
    BY <2>1, Tasks
<1>2. /\ \A X : Pending(X)' <=> Pending(X) \/ T("login", u) \in X
      /\ \A X : Alone(X) /\ (T("login", u) \in X => ~Pending(X)) => Alone(X)'
  BY <1>1, PoolGrows DEF Submit
<1>3. attempts' = u /\ u > attempts
  BY TypeFacts DEF Submit
<1> HIDE DEF u
<1> SUFFICES ASSUME NEW s \in Sessions PROVE Stage(s)'
  BY DEF Stages, Stage
<1>4. Stage(s)
  BY DEF Stages, Stage
<1>5. /\ Pending({T("login", s)})' <=> Pending({T("login", s)}) \/ s = u
      /\ Pending({T("change", s)})' <=> Pending({T("change", s)})
      /\ Alone({T("change", s)})'
  BY <1>2, <1>4, Distinct DEF Stage, Change
<1>6. /\ Waiting(s)' <=> Waiting(s)
      /\ Opened(s)' <=> Opened(s)
      /\ \A kind : Posted(kind, s)' <=> Posted(kind, s)
      /\ OpenDialog(s)' <=> OpenDialog(s)
      /\ UNCHANGED <<dialogs, events, restricted, busy, shown>>
  BY <1>5 DEF Submit, Waiting, Opened, Posted, OpenDialog, window
<1>7. s = u => ~Pending({T("login", s)}) /\ ~Waiting(s) /\ ~Opened(s) /\ s \notin restricted
  BY <1>1, <1>3, <1>4, TypeFacts DEF Stage, SignIn
<1>8. Alone({T("login", s)})'
  BY <1>2, <1>4, <1>7, Distinct DEF Stage, SignIn
<1>9. SignIn(s)'
  <2>1. s <= attempts => s <= attempts'
    BY <1>1, <1>3, TypeFacts
  <2>2. s = u => s <= attempts'
    BY <1>1, <1>3, TypeFacts
  <2> QED
    BY <1>4, <1>5, <1>6, <1>7, <1>8, <2>1, <2>2 DEF Stage, SignIn
<1>10. Choice(s)'
  BY <1>4, <1>5, <1>6 DEF Stage, Choice
<1>11. Change(s)'
  BY <1>4, <1>5, <1>6 DEF Stage, Change
<1>12. Window(s)'
  BY <1>4, <1>6 DEF Stage, Window
<1> QED
  BY <1>9, <1>10, <1>11, <1>12 DEF Stage

(* The dialog admits one call at a time.                                   *)
LEMMA SubmitChangeStep == ASSUME TypeOK, Stages, SubmitChange PROVE Stages'
<1> DEFINE u == dialogs[Len(dialogs)]
<1>1. u \in Sessions /\ OpenDialog(u) /\ T("change", u) \in Task
  <2>1. Len(dialogs) \in DOMAIN dialogs
    BY TypeFacts, LenProperties, EmptySeq DEF SubmitChange
  <2>2. u \in Sessions /\ OpenDialog(u)
    BY <2>1, TypeFacts, LenProperties, ElementOfSeq DEF OpenDialog, Has
  <2> QED
    BY <2>2, Tasks
<1>2. u \notin busy /\ busy' = busy \cup {u}
  BY DEF SubmitChange
<1>3. /\ \A X : Pending(X)' <=> Pending(X) \/ T("change", u) \in X
      /\ \A X : Alone(X) /\ (T("change", u) \in X => ~Pending(X)) => Alone(X)'
  BY <1>1, PoolGrows DEF SubmitChange
<1> HIDE DEF u
<1> SUFFICES ASSUME NEW s \in Sessions PROVE Stage(s)'
  BY DEF Stages, Stage
<1>4. Stage(s)
  BY DEF Stages, Stage
<1>5. /\ Pending({T("change", s)})' <=> Pending({T("change", s)}) \/ s = u
      /\ Pending({T("login", s)})' <=> Pending({T("login", s)})
      /\ Alone({T("login", s)})'
  BY <1>3, <1>4, Distinct DEF Stage, SignIn
<1>6. /\ Opened(s)' <=> Opened(s)
      /\ \A kind : Posted(kind, s)' <=> Posted(kind, s)
      /\ OpenDialog(s)' <=> OpenDialog(s)
      /\ UNCHANGED <<dialogs, events, restricted, shown, attempts>>
  BY DEF SubmitChange, Opened, Posted, OpenDialog, window
<1>7. Waiting(s)' <=> Waiting(s)
  BY <1>1, <1>5, <1>6 DEF Waiting
<1>8. s = u => ~Pending({T("change", s)}) /\ ~Posted("change_finished", s)
                 /\ ~Posted("authenticated", s)
  BY <1>1, <1>2, <1>4 DEF Stage, Change, Choice
<1>9. Alone({T("change", s)})'
  BY <1>3, <1>4, <1>8, Distinct DEF Stage, Change
<1>10. SignIn(s)'
  BY <1>4, <1>5, <1>6, <1>7 DEF Stage, SignIn
<1>11. Choice(s)'
  BY <1>4, <1>5, <1>6, <1>8 DEF Stage, Choice
<1>12. Change(s)'
  BY <1>2, <1>4, <1>5, <1>6, <1>8, <1>9 DEF Stage, Change
<1>13. Window(s)'
  BY <1>4, <1>6, <1>7 DEF Stage, Window
<1> QED
  BY <1>10, <1>11, <1>12, <1>13 DEF Stage

(* The answer to a login takes the place of the call.                      *)
LEMMA LoginStep ==
  ASSUME TypeOK, Stages, NEW u \in Sessions, T("login", u) \in running,
         running' = running \ {T("login", u)},
         events' = events \o <<E("authenticated", u), E("login_finished", u)>>,
         restricted' \in {restricted, restricted \cup {u}},
         UNCHANGED <<queued, dialogs, shown, alive, busy, attempts>>
  PROVE  Stages'
<1> DEFINE a == E("authenticated", u)
           b == E("login_finished", u)
<1>1. /\ \A X : Pending(X)' => Pending(X)
      /\ \A X : T("login", u) \notin X => (Pending(X)' <=> Pending(X))
      /\ \A X : Alone(X) => Alone(X)' /\ (T("login", u) \in X => ~Pending(X)')
      /\ \A X : T("login", u) \in X => Pending(X)
  BY PoolCompletes
<1>2. a \in Event /\ b \in Event
  BY Events
<1>3. /\ \A X : Has(events', X) <=> Has(events, X) \/ a \in X \/ b \in X
      /\ \A X : /\ Once(events, X) /\ (a \in X \/ b \in X => ~Has(events, X))
                /\ ~(a \in X /\ b \in X)
                => Once(events', X)
  <2> HIDE DEF a, b
  <2>1. events' = events \o <<a, b>>
    BY DEF a, b
  <2> QED
    BY <1>2, <2>1, TypeFacts, PostedTwo
<1> SUFFICES ASSUME NEW s \in Sessions PROVE Stage(s)'
  BY DEF Stages, Stage
<1>4. Stage(s)
  BY DEF Stages, Stage
<1>5. \A kind : /\ a \in {E(kind, s)} <=> kind = "authenticated" /\ s = u
                /\ b \in {E(kind, s)} <=> kind = "login_finished" /\ s = u
  BY Distinct
<1>6. Followed(events, s)'
  <2>1. a # E("session_changed", s) /\ b # E("session_changed", s)
    BY <1>5
  <2>2. Followed(events, s)
    BY <1>4 DEF Stage, Change
  <2> HIDE DEF a, b
  <2>3. events' = events \o <<a, b>>
    BY DEF a, b
  <2>4. Followed(events \o <<a, b>>, s)
    BY <1>2, <2>1, <2>2, TypeFacts, FollowedByTwo
  <2> QED
    BY <2>3, <2>4
<1> HIDE DEF a, b
<1>7. /\ Posted("authenticated", s)' <=> Posted("authenticated", s) \/ s = u
      /\ \A kind \in {"session_changed", "change_finished", "delete"} :
           Posted(kind, s)' <=> Posted(kind, s)
  BY <1>3, <1>5 DEF Posted
<1>8. /\ Pending({T("change", s)})' <=> Pending({T("change", s)})
      /\ Alone({T("change", s)})'
      /\ Pending({T("login", s)})' => Pending({T("login", s)}) /\ s # u
      /\ Alone({T("login", s)})'
      /\ s = u => Pending({T("login", s)})
  BY <1>1, <1>4, Distinct DEF Stage, SignIn, Change
<1>9. /\ OpenDialog(s)' <=> OpenDialog(s)
      /\ Opened(s)' <=> Opened(s)
  BY <1>7 DEF OpenDialog, Opened
<1>10. Waiting(s)' <=> Waiting(s) \/ s = u
  BY <1>7, <1>8, <1>9 DEF Waiting
<1>11. s = u => ~Waiting(s) /\ ~Opened(s) /\ s \notin restricted /\ s <= attempts
  BY <1>4, <1>8 DEF Stage, SignIn
<1>12. s # u => (s \in restricted' <=> s \in restricted)
  OBVIOUS
<1>13. SignIn(s)'
  BY <1>4, <1>8, <1>9, <1>10, <1>11, <1>12 DEF Stage, SignIn
<1>14. Choice(s)'
  <2>1. Once(events, {E("authenticated", s)})'
    BY <1>3, <1>4, <1>5, <1>11 DEF Stage, Choice, Waiting, Posted
  <2> QED
    BY <1>4, <1>7, <1>8, <1>9, <1>11, <2>1 DEF Stage, Choice, Waiting
<1>15. Change(s)'
  <2>1. Once(events, {E("change_finished", s)})'
    BY <1>3, <1>4, <1>5 DEF Stage, Change
  <2>2. Posted("session_changed", s)' => s \notin restricted'
    BY <1>4, <1>7, <1>11, <1>12 DEF Stage, Change, Waiting
  <2> QED
    BY <1>4, <1>6, <1>7, <1>8, <2>1, <2>2 DEF Stage, Change
<1>16. Window(s)'
  BY <1>4, <1>7, <1>9, <1>10, <1>11, <1>12 DEF Stage, Window
<1> QED
  BY <1>13, <1>14, <1>15, <1>16 DEF Stage

(* The answer to a change takes the place of the call; a result goes       *)
(* before the end of the call, and finds the account free of restriction.  *)
LEMMA ChangeStep ==
  ASSUME TypeOK, Stages, NEW u \in Sessions, T("change", u) \in running,
         running' = running \ {T("change", u)},
         \/ /\ events' = events \o <<E("change_failed", u), E("change_finished", u)>>
            /\ restricted' = restricted
         \/ /\ events' = events \o <<E("session_changed", u), E("change_finished", u)>>
            /\ restricted' = restricted \ {u},
         UNCHANGED <<queued, dialogs, shown, alive, busy, attempts>>
  PROVE  Stages'
<1> DEFINE b == E("change_finished", u)
<1>1. PICK kind \in {"change_failed", "session_changed"} :
        /\ events' = events \o <<E(kind, u), b>>
        /\ kind = "session_changed" => u \notin restricted'
        /\ restricted' \subseteq restricted
  OBVIOUS
<1> DEFINE a == E(kind, u)
<1>2. a \in Event /\ b \in Event
  BY Events
<1>3. /\ \A X : Pending(X)' => Pending(X)
      /\ \A X : T("change", u) \notin X => (Pending(X)' <=> Pending(X))
      /\ \A X : Alone(X) => Alone(X)' /\ (T("change", u) \in X => ~Pending(X)')
      /\ \A X : T("change", u) \in X => Pending(X)
  BY PoolCompletes
<1> HIDE DEF a, b
<1>4. /\ \A X : Has(events', X) <=> Has(events, X) \/ a \in X \/ b \in X
      /\ \A X : /\ Once(events, X) /\ (a \in X \/ b \in X => ~Has(events, X))
                /\ ~(a \in X /\ b \in X)
                => Once(events', X)
  <2>1. events' = events \o <<a, b>>
    BY <1>1 DEF a
  <2> QED
    BY <1>2, <2>1, TypeFacts, PostedTwo
<1> SUFFICES ASSUME NEW s \in Sessions PROVE Stage(s)'
  BY DEF Stages, Stage
<1>5. Stage(s)
  BY DEF Stages, Stage
<1>6. \A k : /\ a \in {E(k, s)} <=> k = kind /\ s = u
             /\ b \in {E(k, s)} <=> k = "change_finished" /\ s = u
  BY Distinct DEF a, b
<1>7. Followed(events, s)'
  <2>1. /\ b # E("session_changed", s)
        /\ a = E("session_changed", s) => b = E("change_finished", s)
    BY <1>6
  <2>2. Followed(events, s)
    BY <1>5 DEF Stage, Change
  <2>3. Followed(events \o <<a, b>>, s)
    BY <1>2, <2>1, <2>2, TypeFacts, FollowedByTwo
  <2> QED
    BY <1>1, <2>3 DEF a
<1>8. /\ Posted("session_changed", s)' <=>
           Posted("session_changed", s) \/ (kind = "session_changed" /\ s = u)
      /\ Posted("change_finished", s)' <=> Posted("change_finished", s) \/ s = u
      /\ \A k \in {"authenticated", "delete"} : Posted(k, s)' <=> Posted(k, s)
  BY <1>4, <1>6 DEF Posted
<1>9. /\ Pending({T("login", s)})' <=> Pending({T("login", s)})
      /\ Alone({T("login", s)})'
      /\ Pending({T("change", s)})' => Pending({T("change", s)}) /\ s # u
      /\ Alone({T("change", s)})'
      /\ s = u => Pending({T("change", s)})
  BY <1>3, <1>5, Distinct DEF Stage, SignIn, Change
<1>10. /\ OpenDialog(s)' <=> OpenDialog(s)
       /\ Opened(s)' <=> Opened(s)
  BY <1>8 DEF OpenDialog, Opened
<1>11. Waiting(s)' => Waiting(s)
  BY <1>8, <1>9, <1>10 DEF Waiting
<1>12. s = u => ~Posted("change_finished", s) /\ ~Posted("authenticated", s) /\ s \in busy
  BY <1>5, <1>9 DEF Stage, Change, Choice
<1>13. SignIn(s)'
  BY <1>1, <1>5, <1>9, <1>10, <1>11 DEF Stage, SignIn
<1>14. Choice(s)'
  <2>1. Once(events, {E("authenticated", s)})'
    BY <1>4, <1>5, <1>6 DEF Stage, Choice
  <2> QED
    BY <1>5, <1>8, <1>9, <1>10, <1>12, <2>1 DEF Stage, Choice
<1>15. Change(s)'
  <2>1. Once(events, {E("change_finished", s)})'
    BY <1>4, <1>5, <1>6, <1>12 DEF Stage, Change, Posted
  <2>2. Posted("session_changed", s)' => s \notin restricted'
    BY <1>1, <1>5, <1>8 DEF Stage, Change
  <2>3. /\ Posted("change_finished", s)' => ~Pending({T("change", s)})'
        /\ Pending({T("change", s)})' \/ Posted("change_finished", s)' => s \in busy'
    BY <1>5, <1>8, <1>9, <1>12 DEF Stage, Change
  <2> QED
    BY <1>7, <1>9, <2>1, <2>2, <2>3 DEF Change
<1>16. Window(s)'
  BY <1>1, <1>5, <1>8, <1>10, <1>11 DEF Stage, Window
<1> QED
  BY <1>13, <1>14, <1>15, <1>16 DEF Stage

LEMMA CompleteStep ==
  ASSUME TypeOK, Stages, NEW t \in Task, Complete(t)
  PROVE  Stages'
<1> DEFINE u == t.session
<1>1. t = T(t.kind, u) /\ u \in Sessions /\ t.kind \in {"login", "change", "page", "logout"}
  BY TaskNamed
<1>2. t \in running /\ running' = running \ {t} /\ queued' = queued
      /\ UNCHANGED <<shown, alive, busy, dialogs, attempts>>
  BY DEF Complete, window
<1>3. PoolMoves
  BY <1>2, PoolDone
<1>4. CASE t.kind = "login" /\ Login(u)
  <2>1. CASE events' = events \o <<E("login_failed", u), E("login_finished", u)>> /\ restricted' = restricted
    <3>1. EventsMove
      BY <1>1, <2>1, EventsPosted DEF Silent
    <3> QED
      BY <1>2, <1>3, <2>1, <3>1, SilentStep
  <2>2. CASE /\ events' = events \o <<E("authenticated", u), E("login_finished", u)>>
             /\ restricted' \in {restricted, restricted \cup {u}}
    BY <1>1, <1>2, <1>4, <2>2, LoginStep
  <2> QED
    BY <1>4, <2>1, <2>2 DEF Login
<1>5. CASE t.kind = "change" /\ ChangePassword(u)
  <2>1. \/ /\ events' = events \o <<E("change_failed", u), E("change_finished", u)>>
           /\ restricted' = restricted
        \/ /\ events' = events \o <<E("session_changed", u), E("change_finished", u)>>
           /\ restricted' = restricted \ {u}
    BY <1>5 DEF ChangePassword
  <2> QED
    BY <1>1, <1>2, <1>5, <2>1, ChangeStep
<1>6. CASE t.kind = "logout" /\ Logout(u)
  <2>1. PICK kind \in {"logged_out", "logout_failed"} : events' = Append(events, E(kind, u))
    BY <1>6 DEF Logout
  <2>2. EventsMove
    BY <1>1, <2>1, EventPosted DEF Silent
  <2> QED
    BY <1>2, <1>3, <1>6, <2>2, SilentStep DEF Logout
<1>7. CASE t.kind = "page" /\ Page(u)
  <2>1. EventsMove
    BY <1>1, <1>7, EventsStill, EventPosted DEF Silent, Page
  <2> QED
    BY <1>2, <1>3, <1>7, <2>1, SilentStep DEF Page
<1> QED
  BY <1>1, <1>4, <1>5, <1>6, <1>7 DEF Complete

(* ------------------------ opening a main window ------------------------ *)

LEMMA PageQueued ==
  ASSUME TypeOK, NEW u \in Sessions, queued' = Append(queued, T("page", u)), running' = running
  PROVE  /\ PoolMoves
         /\ \A X : T("page", u) \notin X => (Pending(X)' <=> Pending(X))
         /\ \A X : Alone(X) /\ T("page", u) \notin X => Alone(X)'
<1>1. T("page", u) \in Task
  BY Tasks
<1>2. /\ \A X : Pending(X)' <=> Pending(X) \/ T("page", u) \in X
      /\ \A X : Alone(X) /\ (T("page", u) \in X => ~Pending(X)) => Alone(X)'
  BY <1>1, PoolGrows
<1>3. \A kind \in {"login", "change"} : \A s \in Sessions : T("page", u) \notin {T(kind, s)}
  BY Distinct
<1> QED
  BY <1>2, <1>3 DEF PoolMoves

(* A window opens for an attempt that waited for it, and waits no more.    *)
LEMMA OpenStep ==
  ASSUME TypeOK, Stages, NEW u \in Sessions, open_main(u), events # <<>>,
         events' = Tail(events),
         UNCHANGED <<running, busy, attempts, restricted>>,
         Waiting(u), ~Waiting(u)', u \notin restricted,
         \A s \in Sessions : Once(dialogs, {s})' /\ (OpenDialog(s)' => OpenDialog(s))
  PROVE  Stages'
<1>1. PoolMoves
  BY PageQueued DEF open_main
<1>2. \A s \in Sessions : /\ s \in alive' => s \in alive \/ s = u
                          /\ s \in shown' => s \in shown \/ s = u
  BY DEF open_main
<1> SUFFICES ASSUME NEW s \in Sessions PROVE Stage(s)'
  BY DEF Stages, Stage
<1>3. Stage(s) /\ Stage(u)
  BY DEF Stages, Stage
<1>4. /\ \A kind : Posted(kind, s)' => Posted(kind, s)
      /\ \A kind \in {"authenticated", "change_finished"} : Once(events, {E(kind, s)})'
      /\ Followed(events, s)'
  BY <1>3, TailStep
<1>5. \A kind \in {"login", "change"} :
        Alone({T(kind, s)})' /\ (Pending({T(kind, s)})' => Pending({T(kind, s)}))
  BY <1>1, <1>3 DEF PoolMoves, Stage, SignIn, Change
<1>6. Waiting(s)' => Waiting(s)
  BY <1>4, <1>5 DEF Waiting
<1>7. Opened(s)' => Opened(s) \/ s = u
  BY <1>2, <1>4 DEF Opened
<1>8. ~Opened(u) /\ ~Pending({T("login", u)}) /\ u <= attempts
  BY <1>3 DEF Stage, SignIn, Window
<1>9. SignIn(s)'
  BY <1>3, <1>5, <1>6, <1>7, <1>8 DEF Stage, SignIn
<1>10. Choice(s)'
  BY <1>3, <1>4, <1>5 DEF Stage, Choice
<1>11. Change(s)'
  BY <1>3, <1>4, <1>5 DEF Stage, Change
<1>12. Window(s)'
  <2>1. Opened(s)' => ~Waiting(s)' /\ s \notin restricted'
    BY <1>3, <1>6, <1>7 DEF Stage, Window
  <2>2. Posted("delete", s)' => s \notin shown'
    BY <1>2, <1>3, <1>4, <1>8 DEF Stage, Window, Opened
  <2> QED
    BY <2>1, <2>2 DEF Window
<1> QED
  BY <1>9, <1>10, <1>11, <1>12 DEF Stage

LEMMA AuthenticatedStep == ASSUME TypeOK, Stages, Authenticated PROVE Stages'
<1>1. events # <<>> /\ Head(events).kind = "authenticated" /\ events' = Tail(events)
      /\ UNCHANGED <<running, busy, attempts, restricted>>
  BY DEF Authenticated, Delivered
<1>2. PICK u \in Sessions : u = Head(events).session /\ Head(events) = E("authenticated", u)
  BY <1>1, EventsTail, EventNamed
<1>3. Stage(u)
  BY DEF Stages, Stage
<1>4. Posted("authenticated", u) /\ ~Posted("authenticated", u)'
  BY <1>1, <1>2, <1>3, EventsTail DEF Posted, Stage, Choice
<1>5. ~OpenDialog(u) /\ ~Pending({T("change", u)}) /\ ~Posted("session_changed", u) /\ Waiting(u)
  BY <1>3, <1>4 DEF Stage, Choice, Waiting
<1>6. CASE /\ u \in restricted
           /\ dialogs' = Append(dialogs, u) /\ UNCHANGED <<window, queued>>
  <2>1. /\ \A X : Has(dialogs', X) <=> Has(dialogs, X) \/ u \in X
        /\ \A X : Once(dialogs, X) /\ (u \in X => ~Has(dialogs, X)) => Once(dialogs', X)
    BY <1>2, <1>6, TypeFacts, Appended
  <2> SUFFICES ASSUME NEW s \in Sessions PROVE Stage(s)'
    BY DEF Stages, Stage
  <2>2. Stage(s)
    BY DEF Stages, Stage
  <2>3. /\ \A kind : Posted(kind, s)' => Posted(kind, s)
        /\ \A kind \in {"authenticated", "change_finished"} : Once(events, {E(kind, s)})'
        /\ Followed(events, s)'
    BY <1>1, <2>2, TailStep
  <2>4. \A kind \in {"login", "change"} :
          Alone({T(kind, s)})' /\ (Pending({T(kind, s)})' <=> Pending({T(kind, s)}))
    <3>1. UNCHANGED pool
      BY <1>1, <1>6 DEF pool
    <3> QED
      BY <2>2, <3>1, PoolStill DEF Stage, SignIn, Change
  <2>5. OpenDialog(s)' <=> OpenDialog(s) \/ s = u
    BY <2>1 DEF OpenDialog
  <2>6. Once(dialogs, {s})'
    BY <1>5, <2>1, <2>2 DEF Stage, Choice, OpenDialog
  <2>7. Waiting(s)' => Waiting(s)
    BY <1>5, <2>3, <2>4, <2>5 DEF Waiting
  <2>8. UNCHANGED <<shown, alive>> /\ (Opened(s)' => Opened(s))
    BY <1>6, <2>3 DEF window, Opened
  <2>9. SignIn(s)'
    BY <1>1, <2>2, <2>4, <2>7, <2>8 DEF Stage, SignIn
  <2>10. Choice(s)'
    BY <1>4, <2>2, <2>3, <2>4, <2>5, <2>6 DEF Stage, Choice
  <2>11. Change(s)'
    BY <1>1, <2>2, <2>3, <2>4 DEF Stage, Change
  <2>12. Window(s)'
    BY <1>1, <2>2, <2>3, <2>7, <2>8 DEF Stage, Window
  <2> QED
    BY <2>9, <2>10, <2>11, <2>12 DEF Stage
<1>7. CASE u \notin restricted /\ open_main(u) /\ UNCHANGED dialogs
  <2>1. \A s \in Sessions : Once(dialogs, {s})' /\ (OpenDialog(s)' => OpenDialog(s))
    BY <1>7 DEF Stages, Choice, OpenDialog
  <2>2. ~Pending({T("change", u)})'
    <3>1. PoolMoves
      BY <1>1, <1>2, <1>7, PageQueued DEF open_main
    <3> QED
      BY <1>2, <1>5, <3>1 DEF PoolMoves
  <2>3. ~Posted("session_changed", u)'
    BY <1>1, <1>3, <1>5, TailStep
  <2>4. ~Waiting(u)'
    BY <1>2, <1>4, <1>5, <2>1, <2>2, <2>3 DEF Waiting
  <2> QED
    BY <1>1, <1>2, <1>5, <1>7, <2>1, <2>4, OpenStep
<1> QED
  BY <1>2, <1>6, <1>7 DEF Authenticated

LEMMA SessionChangedStep == ASSUME TypeOK, Stages, SessionChanged PROVE Stages'
<1>1. events # <<>> /\ Head(events).kind = "session_changed" /\ events' = Tail(events)
      /\ UNCHANGED <<running, busy, attempts, restricted>>
  BY DEF SessionChanged, Delivered
<1>2. PICK u \in Sessions : u = Head(events).session /\ Head(events) = E("session_changed", u)
  BY <1>1, EventsTail, EventNamed
<1>3. Stage(u) /\ open_main(u)
  BY <1>2 DEF Stages, Stage, SessionChanged
<1>4. \/ \E i \in DOMAIN dialogs : dialogs[i] = u /\ dialogs' = closed(i)
      \/ ~Has(dialogs, {u}) /\ dialogs' = dialogs
  BY <1>2 DEF SessionChanged, Has
<1>5. \A s \in Sessions : /\ Once(dialogs, {s})' /\ (OpenDialog(s)' => OpenDialog(s))
                          /\ ~OpenDialog(u)'
  <2>1. \A s \in Sessions : Once(dialogs, {s})
    BY DEF Stages, Choice
  <2>2. CASE ~Has(dialogs, {u}) /\ dialogs' = dialogs
    BY <2>1, <2>2 DEF OpenDialog
  <2>3. ASSUME NEW i \in DOMAIN dialogs, dialogs[i] = u, dialogs' = closed(i)
        PROVE  \A s \in Sessions : /\ Once(dialogs, {s})' /\ (OpenDialog(s)' => OpenDialog(s))
                                   /\ ~OpenDialog(u)'
    <3>1. /\ \A X : Has(dialogs', X) => Has(dialogs, X)
          /\ \A X : Once(dialogs, X) => Once(dialogs', X)
          /\ \A X : Once(dialogs, X) /\ dialogs[i] \in X => ~Has(dialogs', X)
      <4>1. dialogs' = SubSeq(dialogs, 1, i-1) \o SubSeq(dialogs, i+1, Len(dialogs))
        BY <2>3 DEF closed
      <4>2. dialogs \in Seq(Sessions)
        BY TypeFacts
      <4> QED
        BY <2>3, <4>1, <4>2, Removed
    <3> QED
      BY <1>2, <2>1, <2>3, <3>1 DEF OpenDialog
  <2> QED
    BY <1>4, <2>2, <2>3
<1>6. Posted("session_changed", u) /\ Posted("change_finished", u) /\ ~Posted("session_changed", u)'
  <2>1. /\ 1 \in DOMAIN events /\ Head(events) = events[1]
        /\ events \in Seq(Event)
    BY <1>1, TypeFacts, LenProperties, EmptySeq
  <2>2. 1 + 1 \in DOMAIN events /\ events[1 + 1] = E("change_finished", u)
    BY <1>2, <1>3, <2>1 DEF Stage, Change, Followed
  <2>3. Posted("session_changed", u) /\ Posted("change_finished", u)
    BY <1>2, <2>1, <2>2 DEF Posted, Has
  <2>4. ~Has(Tail(events), {E("session_changed", u)})
    <3> SUFFICES ASSUME NEW i \in DOMAIN Tail(events), Tail(events)[i] = E("session_changed", u)
                 PROVE  FALSE
      BY DEF Has
    <3>1. /\ i \in Nat /\ i >= 1 /\ i + 1 \in DOMAIN events
          /\ events[i + 1] = E("session_changed", u)
      BY <1>1, TypeFacts, HeadTailProperties, LenProperties
    <3>2. (i + 1) + 1 \in DOMAIN events /\ events[(i + 1) + 1] = E("change_finished", u)
      BY <1>3, <3>1 DEF Stage, Change, Followed
    <3>3. 1 + 1 = (i + 1) + 1
      BY <1>3, <2>2, <3>2 DEF Stage, Change, Once
    <3> QED
      BY <3>1, <3>3
  <2> QED
    BY <1>1, <2>3, <2>4 DEF Posted
<1>7. /\ Waiting(u) /\ u \notin restricted /\ ~Pending({T("change", u)}) /\ ~Posted("authenticated", u)
  BY <1>3, <1>6 DEF Waiting, Stage, Change, Choice
<1>8. ~Pending({T("change", u)})'
  <2>1. PoolMoves
    BY <1>1, <1>3, PageQueued DEF open_main
  <2> QED
    BY <1>2, <1>7, <2>1 DEF PoolMoves
<1>9. ~Posted("authenticated", u)'
  BY <1>1, <1>3, <1>7, TailStep
<1>10. ~Waiting(u)'
  BY <1>2, <1>5, <1>6, <1>8, <1>9 DEF Waiting
<1> QED
  BY <1>1, <1>3, <1>5, <1>7, <1>10, OpenStep

(* --------------------------- all the attempts -------------------------- *)

LEMMA Initially == Init => Inv
<1> SUFFICES ASSUME Init PROVE Inv
  OBVIOUS
<1>1. TypeOK
  <2>1. queued \in Seq(Task) /\ events \in Seq(Event) /\ dialogs \in Seq(Sessions)
    BY EmptySeq DEF Init
  <2>2. login \in [visible : BOOLEAN, busy : BOOLEAN] /\ first_run \in BOOLEAN
    BY DEF Init
  <2>3. attempts \in 0 .. MaxLogins
    BY LoginsAssumption DEF Init
  <2> QED
    BY <2>1, <2>2, <2>3 DEF Init, TypeOK
<1>2. NeverStranded /\ SessionMatchesMain
  BY DEF Init, NeverStranded, SessionMatchesMain
<1>3. \A X : ~Has(queued, X) /\ ~Has(events, X) /\ ~Has(dialogs, X)
  BY DEF Init, Has
<1>4. \A X : Once(queued, X) /\ Once(events, X) /\ Once(dialogs, X)
  BY DEF Init, Once
<1>5. \A X : Alone(X) /\ ~Pending(X)
  BY <1>3, <1>4 DEF Init, Alone, Pending
<1>6. Logouts
  BY <1>3, <1>4, <1>5 DEF Init, Logouts
<1>7. ASSUME NEW s \in Sessions PROVE Stage(s)
  <2>1. ~Waiting(s) /\ ~Opened(s) /\ s \notin restricted
    BY <1>3, <1>5 DEF Init, Waiting, Opened, Posted, OpenDialog
  <2>2. \A kind : ~Posted(kind, s)
    BY <1>3 DEF Posted
  <2>3. Followed(events, s)
    BY DEF Init, Followed
  <2> QED
    BY <1>3, <1>4, <1>5, <2>1, <2>2, <2>3
    DEF Stage, SignIn, Choice, Change, Window, Posted
<1> QED
  BY <1>1, <1>2, <1>6, <1>7 DEF Inv, Stages, Stage

LEMMA LogoutQueued ==
  ASSUME TypeOK, NEW exit_after, BeginLogout(exit_after), ~UNCHANGED queued
  PROVE  /\ session \in Sessions /\ ~logout_pending /\ logout_pending' = TRUE
         /\ queued' = Append(queued, T("logout", session)) /\ running' = running
  BY DEF BeginLogout, TypeOK, window

LEMMA StagesStep == ASSUME Inv, [Next]_vars PROVE Stages'
<1>1. TypeOK /\ Stages /\ SessionMatchesMain
  BY DEF Inv
<1>2. CASE UNCHANGED vars
  BY <1>1, <1>2, PoolStep, EventsStill, SilentStep DEF vars, window
<1>3. CASE Submit
  BY <1>1, <1>3, SubmitStep
<1>4. CASE SubmitChange
  BY <1>1, <1>4, SubmitChangeStep
<1>5. ASSUME NEW t \in Task, Complete(t) PROVE Stages'
  BY <1>1, <1>5, CompleteStep
<1>6. CASE Authenticated
  BY <1>1, <1>6, AuthenticatedStep
<1>7. CASE SessionChanged
  BY <1>1, <1>7, SessionChangedStep
<1>8. CASE FirstRunClosed \/ Exit \/ Dispose
  BY <1>1, <1>8, PoolStep, EventsStill, SilentStep DEF FirstRunClosed, Exit, Dispose, window
<1>9. CASE CancelChange
  BY <1>1, <1>9, PoolStep, EventsStill, SilentStep DEF CancelChange
<1>10. CASE StartTask \/ ClearPool
  <2>1. PoolMoves
    BY <1>1, <1>10, PoolStep
  <2> QED
    BY <1>1, <1>10, <2>1, EventsStill, SilentStep DEF StartTask, ClearPool, window
<1>11. ASSUME NEW s \in Sessions, ReadPage(s) PROVE Stages'
  <2>1. PoolMoves
    BY <1>1, <1>11, PoolStep DEF ReadPage
  <2> QED
    BY <1>1, <1>11, <2>1, EventsStill, SilentStep DEF ReadPage, window
<1>12. ASSUME NEW exit_after \in BOOLEAN, BeginLogout(exit_after) PROVE Stages'
  <2>1. PoolMoves
    <3>1. CASE UNCHANGED queued
      BY <1>1, <1>12, <3>1, PoolStep DEF BeginLogout, pool
    <3>2. CASE ~UNCHANGED queued
      <4>1. session \in Sessions /\ queued' = Append(queued, T("logout", session)) /\ running' = running
        BY <1>1, <1>12, <3>2, LogoutQueued
      <4> QED
        BY <1>1, <4>1, PoolStep
    <3> QED
      BY <3>1, <3>2
  <2>2. UNCHANGED <<shown, alive, busy, attempts, restricted, events, dialogs>>
    BY <1>12 DEF BeginLogout, window
  <2> QED
    BY <1>1, <2>1, <2>2, EventsStill, SilentStep
<1>13. CASE LoginFailed \/ LoginFinished \/ ChangeFailed \/ LogoutFailed \/ Deleted
  BY <1>1, <1>13, DeliveryStep
  DEF LoginFailed, LoginFinished, ChangeFailed, LogoutFailed, Deleted, Delivered, window
<1>14. CASE ChangeFinished
  <2>1. events # <<>> /\ Head(events).kind = "change_finished"
    BY <1>14 DEF ChangeFinished, Delivered
  <2>2. PICK u \in Sessions : u = Head(events).session /\ Head(events) = E("change_finished", u)
    BY <1>1, <2>1, EventsTail, EventNamed
  <2> QED
    BY <1>1, <1>14, <2>1, <2>2, DeliveryStep DEF ChangeFinished, window
<1>15. CASE LoggedOut
  BY <1>1, <1>15, DeliveryStep DEF LoggedOut, Delivered
<1>16. CASE SessionInvalidated
  BY <1>1, <1>16, DeliveryStep DEF SessionInvalidated, Delivered, window
<1> QED
  BY <1>2, <1>3, <1>4, <1>5, <1>6, <1>7, <1>8, <1>9, <1>10, <1>11, <1>12, <1>13, <1>14,
     <1>15, <1>16
  DEF Next, Act, Deliver

(* ----------------------- windows, login, and types --------------------- *)

(* A sequence of tasks that has got one more, and a record changed.        *)
LEMMA QueueTyped ==
  ASSUME TypeOK, NEW kind \in {"login", "change", "page", "logout"}, NEW s \in Sessions,
         queued' = Append(queued, T(kind, s))
  PROVE  queued' \in Seq(Task)
  BY Tasks, TypeFacts, Appended

LEMMA LoginTyped ==
  ASSUME TypeOK,
         \/ UNCHANGED login \/ hide_login \/ reset_for_sign_in
         \/ login' = [login EXCEPT !.busy = TRUE] \/ login' = [login EXCEPT !.busy = FALSE]
  PROVE  login' \in [visible : BOOLEAN, busy : BOOLEAN]
<1>1. login \in [visible : BOOLEAN, busy : BOOLEAN]
  BY DEF TypeOK
<1>2. \A b \in BOOLEAN :
        /\ [login EXCEPT !.busy = b] \in [visible : BOOLEAN, busy : BOOLEAN]
        /\ [login EXCEPT !.visible = b] \in [visible : BOOLEAN, busy : BOOLEAN]
  BY <1>1, Zenon
<1>3. [visible |-> TRUE, busy |-> FALSE] \in [visible : BOOLEAN, busy : BOOLEAN]
  OBVIOUS
<1> QED
  BY <1>1, <1>2, <1>3 DEF hide_login, reset_for_sign_in

LEMMA EventsTyped ==
  ASSUME TypeOK, NEW u \in Sessions, Login(u) \/ ChangePassword(u) \/ Logout(u) \/ Page(u)
  PROVE  events' \in Seq(Event) /\ restricted' \subseteq restricted \cup {u}
<1>1. events \in Seq(Event)
  BY TypeFacts
<1>2. ASSUME NEW k1 \in {"login_failed", "authenticated", "change_failed", "session_changed"},
             NEW k2 \in {"login_finished", "change_finished"}
      PROVE  events \o <<E(k1, u), E(k2, u)>> \in Seq(Event)
  <2>1. E(k1, u) \in Event /\ E(k2, u) \in Event
    BY Events
  <2> QED
    BY <1>1, <2>1, PostedTwo
<1>3. ASSUME NEW k \in {"logged_out", "logout_failed", "denied"}
      PROVE  Append(events, E(k, u)) \in Seq(Event)
  <2>1. E(k, u) \in Event
    BY Events
  <2> QED
    BY <1>1, <2>1, Appended
<1> QED
  BY <1>1, <1>2, <1>3 DEF Login, ChangePassword, Logout, Page

LEMMA ClosedTyped ==
  ASSUME TypeOK, events # <<>>, close_main
  PROVE  events' \in Seq(Event) /\ main' = None /\ shown' = shown \ {main} /\ alive' = alive
<1>1. Tail(events) \in Seq(Event)
  BY EventsTail
<1>2. CASE main = None
  BY <1>1, <1>2, ConcatEmptySeq DEF close_main
<1>3. CASE main # None
  <2>1. E("delete", main) \in Event
    BY <1>3, Events DEF TypeOK
  <2> QED
    BY <1>1, <1>3, <2>1, AppendIsConcat, Appended DEF close_main
<1> QED
  BY <1>2, <1>3 DEF close_main

LEMMA OpenedTyped ==
  ASSUME TypeOK, NEW u \in Sessions, open_main(u)
  PROVE  /\ session' = u /\ main' = u /\ u \in shown' /\ shown' \subseteq alive'
         /\ alive' \subseteq Sessions /\ queued' \in Seq(Task)
<1>1. queued' \in Seq(Task)
  BY QueueTyped DEF open_main
<1> QED
  BY <1>1 DEF open_main, TypeOK

LEMMA TypeStep == ASSUME Inv, [Next]_vars PROVE TypeOK'
<1>1. TypeOK /\ Stages
  BY DEF Inv
<1>2. /\ queued \in Seq(Task) /\ running \subseteq Task
      /\ events \in Seq(Event) /\ dialogs \in Seq(Sessions)
  BY <1>1, TypeFacts
<1>3. CASE FirstRunClosed \/ Dispose \/ UNCHANGED vars
  <2>1. CASE FirstRunClosed
    BY <1>1, <2>1 DEF FirstRunClosed, window, pool, logout, TypeOK, reset_for_sign_in
  <2>2. CASE Dispose
    BY <1>1, <2>2 DEF Dispose, window, pool, logout, TypeOK
  <2>3. CASE UNCHANGED vars
    BY <1>1, <2>3 DEF vars, window, pool, logout, TypeOK
  <2> QED
    BY <1>3, <2>1, <2>2, <2>3
<1>4. CASE Exit
  BY <1>1, <1>4 DEF Exit, quit, hide_login, window, pool, logout, TypeOK
<1>5. CASE Submit
  <2>1. attempts + 1 \in Sessions
    BY <1>1, <1>5, LoginsAssumption DEF Submit, Sessions, TypeOK
  <2>2. queued' \in Seq(Task)
    BY <1>1, <1>5, <2>1, QueueTyped DEF Submit
  <2>3. attempts' \in 0 .. MaxLogins
    BY <1>5, <2>1, LoginsAssumption DEF Submit, Sessions
  <2>4. login' \in [visible : BOOLEAN, busy : BOOLEAN]
    BY <1>1, <1>5, LoginTyped DEF Submit
  <2> QED
    BY <1>1, <1>5, <2>2, <2>3, <2>4 DEF Submit, window, logout, TypeOK
<1>6. CASE SubmitChange
  <2>1. dialogs[Len(dialogs)] \in Sessions
    BY <1>2, <1>6, LenProperties, EmptySeq, ElementOfSeq DEF SubmitChange
  <2>2. queued' \in Seq(Task)
    BY <1>1, <1>6, <2>1, QueueTyped DEF SubmitChange
  <2> QED
    BY <1>1, <1>6, <2>1, <2>2 DEF SubmitChange, window, logout, TypeOK
<1>7. CASE CancelChange
  <2>1. dialogs' \in Seq(Sessions)
    BY <1>2, <1>7, Shortened DEF CancelChange
  <2>2. session' \in Sessions \cup {None}
    BY <1>1, <1>7 DEF CancelChange, TypeOK
  <2>3. login' \in [visible : BOOLEAN, busy : BOOLEAN]
    BY <1>1, <1>7, LoginTyped DEF CancelChange
  <2> QED
    BY <1>1, <1>7, <2>1, <2>2, <2>3 DEF CancelChange, pool, logout, TypeOK
<1>8. ASSUME NEW s \in Sessions, ReadPage(s) PROVE TypeOK'
  <2>1. queued' \in Seq(Task)
    BY <1>1, <1>8, QueueTyped DEF ReadPage
  <2> QED
    BY <1>1, <1>8, <2>1 DEF ReadPage, window, logout, TypeOK
<1>9. ASSUME NEW exit_after \in BOOLEAN, BeginLogout(exit_after) PROVE TypeOK'
  <2>1. CASE session = None
    <3>1. login' \in [visible : BOOLEAN, busy : BOOLEAN] /\ phase' \in {"running", "draining"}
      BY <1>1, <1>9, <2>1, LoginTyped DEF BeginLogout, quit, TypeOK, AtWindow
    <3> QED
      BY <1>1, <1>9, <2>1, <3>1 DEF BeginLogout, window, logout, TypeOK
  <2>2. CASE session # None
    <3>1. session \in Sessions
      BY <1>1, <2>2 DEF TypeOK
    <3>2. queued' \in Seq(Task)
      BY <1>1, <1>9, <2>2, <3>1, QueueTyped DEF BeginLogout
    <3>3. logout_pending' \in BOOLEAN /\ exit_after_logout' \in BOOLEAN
      BY <1>9, <2>2 DEF BeginLogout
    <3> QED
      BY <1>1, <1>9, <2>2, <3>2, <3>3 DEF BeginLogout, window, TypeOK
  <2> QED
    BY <2>1, <2>2
<1>10. CASE StartTask
  <2>1. queued' \in Seq(Task) /\ running' \subseteq Task
    BY <1>2, <1>10, Consumed DEF StartTask
  <2> QED
    BY <1>1, <1>10, <2>1 DEF StartTask, window, logout, TypeOK
<1>11. ASSUME NEW t \in Task, Complete(t) PROVE TypeOK'
  <2>1. t.session \in Sessions
    BY TaskNamed
  <2>2. Login(t.session) \/ ChangePassword(t.session) \/ Logout(t.session) \/ Page(t.session)
    BY <1>11, TaskNamed DEF Complete
  <2>3. events' \in Seq(Event) /\ restricted' \subseteq Sessions
    BY <1>1, <2>1, <2>2, EventsTyped DEF TypeOK
  <2>4. running' \subseteq Task
    BY <1>2, <1>11 DEF Complete
  <2> QED
    BY <1>1, <1>11, <2>3, <2>4 DEF Complete, window, logout, TypeOK
<1>12. CASE ClearPool
  <2>1. queued' \in Seq(Task)
    BY <1>12, EmptySeq DEF ClearPool
  <2> QED
    BY <1>1, <1>12, <2>1 DEF ClearPool, window, logout, TypeOK
<1>13. ASSUME events # <<>>
       PROVE  Tail(events) \in Seq(Event) /\ Head(events).session \in Sessions
  BY <1>1, <1>13, EventsTail, EventNamed
<1>14. CASE LoginFailed \/ ChangeFailed
  BY <1>1, <1>13, <1>14
  DEF LoginFailed, ChangeFailed, Delivered, window, pool, logout, TypeOK
<1>15. CASE LoginFinished
  <2>1. login' \in [visible : BOOLEAN, busy : BOOLEAN]
    BY <1>1, <1>15, LoginTyped DEF LoginFinished
  <2> QED
    BY <1>1, <1>13, <1>15, <2>1 DEF LoginFinished, Delivered, window, pool, logout, TypeOK
<1>16. CASE ChangeFinished
  BY <1>1, <1>13, <1>16 DEF ChangeFinished, Delivered, window, pool, logout, TypeOK
<1>17. CASE LogoutFailed
  BY <1>1, <1>13, <1>17 DEF LogoutFailed, Delivered, window, pool, logout, TypeOK
<1>18. CASE Authenticated
  <2>1. PICK u \in Sessions : u = Head(events).session
    BY <1>13, <1>18 DEF Authenticated, Delivered
  <2>2. CASE u \in restricted
    <3>1. dialogs' \in Seq(Sessions)
      BY <1>2, <1>18, <2>1, <2>2, Appended DEF Authenticated
    <3>2. login' \in [visible : BOOLEAN, busy : BOOLEAN]
      BY <1>1, <1>18, <2>1, <2>2, LoginTyped DEF Authenticated
    <3> QED
      BY <1>1, <1>13, <1>18, <2>1, <2>2, <3>1, <3>2 DEF Authenticated, Delivered, window, logout, TypeOK
  <2>3. CASE u \notin restricted
    <3>1. open_main(u) /\ UNCHANGED dialogs
      BY <1>18, <2>1, <2>3 DEF Authenticated
    <3>2. login' \in [visible : BOOLEAN, busy : BOOLEAN]
      BY <1>1, <3>1, LoginTyped DEF open_main
    <3> QED
      BY <1>1, <1>13, <1>18, <3>1, <3>2, OpenedTyped DEF Authenticated, Delivered, logout, TypeOK
  <2> QED
    BY <2>2, <2>3
<1>19. CASE SessionChanged
  <2>1. PICK u \in Sessions : u = Head(events).session
    BY <1>13, <1>19 DEF SessionChanged, Delivered
  <2>2. open_main(u)
    BY <1>19, <2>1 DEF SessionChanged
  <2>3. login' \in [visible : BOOLEAN, busy : BOOLEAN]
    BY <1>1, <2>2, LoginTyped DEF open_main
  <2>4. dialogs' \in Seq(Sessions)
    <3>1. ASSUME NEW i \in DOMAIN dialogs,
                 dialogs' = SubSeq(dialogs, 1, i-1) \o SubSeq(dialogs, i+1, Len(dialogs))
          PROVE  dialogs' \in Seq(Sessions)
      BY <1>2, <3>1, Removed
    <3> QED
      BY <1>2, <1>19, <3>1 DEF SessionChanged, closed
  <2> QED
    BY <1>1, <1>13, <1>19, <2>2, <2>3, <2>4, OpenedTyped
    DEF SessionChanged, Delivered, logout, TypeOK
<1>20. CASE LoggedOut
  <2>1. events # <<>> /\ close_main
    BY <1>20 DEF LoggedOut, Delivered
  <2>2. login' \in [visible : BOOLEAN, busy : BOOLEAN] /\ phase' \in {"running", "draining"}
    BY <1>1, <1>20, LoginTyped DEF LoggedOut, Delivered, quit, TypeOK
  <2> QED
    BY <1>1, <1>20, <2>1, <2>2, ClosedTyped DEF LoggedOut, pool, TypeOK
<1>21. CASE SessionInvalidated
  <2>1. events # <<>>
    BY <1>21 DEF SessionInvalidated, Delivered
  <2>2. CASE Head(events).session \in alive
    <3>1. login' \in [visible : BOOLEAN, busy : BOOLEAN]
      BY <1>1, <1>21, <2>2, LoginTyped DEF SessionInvalidated
    <3> QED
      BY <1>1, <1>21, <2>1, <2>2, <3>1, ClosedTyped DEF SessionInvalidated, pool, logout, TypeOK
  <2>3. CASE Head(events).session \notin alive
    BY <1>1, <1>13, <1>21, <2>1, <2>3 DEF SessionInvalidated, window, pool, logout, TypeOK
  <2> QED
    BY <2>2, <2>3
<1>22. CASE Deleted
  <2>1. PICK u \in Sessions : u = Head(events).session /\ Head(events) = E("delete", u)
    BY <1>1, <1>22, EventsTail, EventNamed DEF Deleted, Delivered
  <2>2. u \notin shown
    BY <1>1, <1>22, <2>1, EventsTail DEF Stages, Window, Posted, Deleted, Delivered
  <2> QED
    BY <1>1, <1>13, <1>22, <2>1, <2>2 DEF Deleted, Delivered, pool, logout, TypeOK
<1> QED
  BY <1>3, <1>4, <1>5, <1>6, <1>7, <1>8, <1>9, <1>10, <1>11, <1>12, <1>14, <1>15, <1>16,
     <1>17, <1>18, <1>19, <1>20, <1>21, <1>22
  DEF Next, Act, Deliver

(* The window that a step leaves is the session's, or there is none.       *)
LEMMA MatchStep == ASSUME Inv, [Next]_vars PROVE SessionMatchesMain'
<1>1. TypeOK /\ SessionMatchesMain
  BY DEF Inv
<1>2. CASE UNCHANGED <<session, main, shown>>
  BY <1>1, <1>2 DEF SessionMatchesMain
<1>3. ASSUME NEW u \in Sessions, open_main(u) PROVE SessionMatchesMain'
  BY <1>1, <1>3, OpenedTyped DEF SessionMatchesMain
<1>4. CASE close_main
  BY <1>4 DEF close_main, SessionMatchesMain
<1>5. CASE CancelChange
  BY <1>1, <1>5 DEF CancelChange, SessionMatchesMain
<1>6. CASE Authenticated \/ SessionChanged
  <2>1. Head(events).session \in Sessions
    BY <1>1, <1>6, EventsTail, EventNamed DEF Authenticated, SessionChanged, Delivered
  <2>2. UNCHANGED window \/ open_main(Head(events).session)
    BY <1>6 DEF Authenticated, SessionChanged
  <2> QED
    BY <1>2, <1>3, <2>1, <2>2 DEF window
<1>7. CASE LoggedOut
  BY <1>4, <1>7 DEF LoggedOut
<1>8. CASE SessionInvalidated
  BY <1>2, <1>4, <1>8 DEF SessionInvalidated, window
<1>9. CASE Submit \/ SubmitChange \/ FirstRunClosed \/ Exit
  BY <1>2, <1>9 DEF Submit, SubmitChange, FirstRunClosed, Exit, window
<1>10. ASSUME \/ \E s \in Sessions : ReadPage(s)
              \/ \E exit_after \in BOOLEAN : BeginLogout(exit_after)
       PROVE  SessionMatchesMain'
  BY <1>2, <1>10 DEF ReadPage, BeginLogout, window
<1>11. CASE StartTask \/ (\E t \in Task : Complete(t)) \/ ClearPool \/ Dispose
  BY <1>2, <1>11 DEF StartTask, Complete, ClearPool, Dispose, window
<1>12. CASE \/ LoginFailed \/ LoginFinished \/ ChangeFailed \/ ChangeFinished
            \/ LogoutFailed \/ Deleted \/ UNCHANGED vars
  BY <1>2, <1>12
  DEF LoginFailed, LoginFinished, ChangeFailed, ChangeFinished, LogoutFailed, Deleted, vars, window
<1> QED
  BY <1>5, <1>6, <1>7, <1>8, <1>9, <1>10, <1>11, <1>12 DEF Next, Act, Deliver

(* Something is on the screen after every step.                            *)
LEMMA StrandedStep == ASSUME Inv, [Next]_vars PROVE NeverStranded'
<1>1. TypeOK /\ NeverStranded /\ SessionMatchesMain
  BY DEF Inv
<1>2. CASE UNCHANGED <<login, first_run, dialogs, shown>> /\ (phase' = "running" => phase = "running")
  BY <1>1, <1>2 DEF NeverStranded
<1>3. CASE reset_for_sign_in
  BY <1>3 DEF reset_for_sign_in, NeverStranded
<1>4. CASE quit
  BY <1>4 DEF quit, NeverStranded
<1>5. ASSUME NEW u \in Sessions, open_main(u) PROVE NeverStranded'
  BY <1>1, <1>5, OpenedTyped DEF NeverStranded
<1>6. CASE Submit \/ LoginFinished
  <2>1. login'.visible = login.visible
    BY <1>1, <1>6 DEF Submit, LoginFinished, TypeOK
  <2>2. UNCHANGED <<phase, first_run, dialogs, shown>>
    BY <1>6 DEF Submit, LoginFinished, window
  <2> QED
    BY <1>1, <2>1, <2>2 DEF NeverStranded
<1>7. CASE CancelChange
  <2>1. CASE main = None
    BY <1>3, <1>7, <2>1 DEF CancelChange
  <2>2. CASE main # None
    BY <1>1, <1>7, <2>2 DEF CancelChange, SessionMatchesMain, NeverStranded
  <2> QED
    BY <2>1, <2>2
<1>8. CASE Authenticated
  <2>1. PICK u \in Sessions : u = Head(events).session
    BY <1>1, <1>8, EventsTail, EventNamed DEF Authenticated, Delivered
  <2>2. CASE u \in restricted
    <3>1. dialogs' = Append(dialogs, u)
      BY <1>8, <2>1, <2>2 DEF Authenticated
    <3>2. dialogs' # <<>>
      BY <1>1, <3>1, TypeFacts, AppendProperties
    <3> QED
      BY <3>2 DEF NeverStranded
  <2>3. CASE u \notin restricted
    BY <1>5, <1>8, <2>1, <2>3 DEF Authenticated
  <2> QED
    BY <2>2, <2>3
<1>9. CASE SessionChanged
  <2>1. Head(events).session \in Sessions
    BY <1>1, <1>9, EventsTail, EventNamed DEF SessionChanged, Delivered
  <2> QED
    BY <1>5, <1>9, <2>1 DEF SessionChanged
<1>10. CASE LoggedOut
  BY <1>3, <1>4, <1>10 DEF LoggedOut
<1>11. CASE SessionInvalidated
  BY <1>2, <1>3, <1>11 DEF SessionInvalidated, Delivered, window
<1>12. ASSUME NEW exit_after \in BOOLEAN, BeginLogout(exit_after) PROVE NeverStranded'
  BY <1>2, <1>3, <1>4, <1>12 DEF BeginLogout, window
<1>13. CASE FirstRunClosed \/ Exit
  BY <1>3, <1>4, <1>13 DEF FirstRunClosed, Exit
<1>14. CASE SubmitChange \/ (\E s \in Sessions : ReadPage(s)) \/ StartTask
            \/ (\E t \in Task : Complete(t)) \/ ClearPool
  BY <1>2, <1>14 DEF SubmitChange, ReadPage, StartTask, Complete, ClearPool, window
<1>15. CASE Dispose
  BY <1>15 DEF Dispose, NeverStranded
<1>16. CASE LoginFailed \/ ChangeFailed \/ ChangeFinished \/ LogoutFailed \/ Deleted \/ UNCHANGED vars
  BY <1>2, <1>16
  DEF LoginFailed, ChangeFailed, ChangeFinished, LogoutFailed, Deleted, vars, window
<1> QED
  BY <1>6, <1>7, <1>8, <1>9, <1>10, <1>11, <1>12, <1>13, <1>14, <1>15, <1>16
  DEF Next, Act, Deliver

(* ------------------------------ one logout ----------------------------- *)

LEMMA LogoutKinds ==
  ASSUME NEW s \in Sessions
  PROVE  /\ \A kind \in {"login", "change", "page", "logout"} :
              T(kind, s) \in LogoutTasks <=> kind = "logout"
         /\ \A kind \in {"authenticated", "login_failed", "login_finished", "session_changed",
                         "change_failed", "change_finished", "logged_out", "logout_failed",
                         "denied", "delete"} :
              E(kind, s) \in LogoutEvents <=> kind \in {"logged_out", "logout_failed"}
  BY Tasks, Events DEF LogoutTasks, LogoutEvents

(* Steps that neither begin nor end a logout.                              *)
LEMMA LogoutsKept ==
  ASSUME Logouts, phase' = "running" => phase = "running", logout_pending' = logout_pending,
         Pending(LogoutTasks)' <=> Pending(LogoutTasks),
         Alone(LogoutTasks) => Alone(LogoutTasks)',
         Has(events, LogoutEvents)' <=> Has(events, LogoutEvents),
         Once(events, LogoutEvents) => Once(events, LogoutEvents)'
  PROVE  Logouts'
<1> SUFFICES ASSUME phase' = "running"
             PROVE  /\ Alone(LogoutTasks)'
                    /\ Once(events, LogoutEvents)'
                    /\ Has(events, LogoutEvents)' => ~Pending(LogoutTasks)'
                    /\ logout_pending' <=> Has(events, LogoutEvents)' \/ Pending(LogoutTasks)'
  BY DEF Logouts
<1> QED
  BY DEF Logouts

LEMMA OtherEvents ==
  ASSUME TypeOK, NEW u \in Sessions, Login(u) \/ ChangePassword(u) \/ Page(u)
  PROVE  /\ Has(events, LogoutEvents)' <=> Has(events, LogoutEvents)
         /\ Once(events, LogoutEvents) => Once(events, LogoutEvents)'
<1>1. events \in Seq(Event)
  BY TypeFacts
<1>2. ASSUME NEW k1 \in {"login_failed", "authenticated", "change_failed", "session_changed"},
             NEW k2 \in {"login_finished", "change_finished"},
             events' = events \o <<E(k1, u), E(k2, u)>>
      PROVE  /\ Has(events, LogoutEvents)' <=> Has(events, LogoutEvents)
             /\ Once(events, LogoutEvents) => Once(events, LogoutEvents)'
  <2>1. /\ E(k1, u) \in Event /\ E(k2, u) \in Event
        /\ E(k1, u) \notin LogoutEvents /\ E(k2, u) \notin LogoutEvents
    BY Events, LogoutKinds
  <2> QED
    BY <1>1, <1>2, <2>1, PostedTwo
<1>3. ASSUME events' = Append(events, E("denied", u))
      PROVE  /\ Has(events, LogoutEvents)' <=> Has(events, LogoutEvents)
             /\ Once(events, LogoutEvents) => Once(events, LogoutEvents)'
  <2>1. E("denied", u) \in Event /\ E("denied", u) \notin LogoutEvents
    BY Events, LogoutKinds
  <2> QED
    BY <1>1, <1>3, <2>1, Appended
<1> QED
  BY <1>2, <1>3 DEF Login, ChangePassword, Page

LEMMA LogoutsStep == ASSUME Inv, [Next]_vars PROVE Logouts'
<1>1. TypeOK /\ Logouts /\ LogoutTasks = LogoutTasks' /\ LogoutEvents = LogoutEvents'
  BY DEF Inv, LogoutTasks, LogoutEvents
<1>2. CASE UNCHANGED <<logout_pending, events, pool>> /\ (phase' = "running" => phase = "running")
  BY <1>1, <1>2, PoolStill, LogoutsKept
<1>3. CASE phase' # "running"
  BY <1>3 DEF Logouts
<1>4. ASSUME NEW kind \in {"login", "change", "page"}, NEW s \in Sessions,
             queued' = Append(queued, T(kind, s)), running' = running,
             UNCHANGED <<logout_pending, events, phase>>
      PROVE  Logouts'
  <2>1. T(kind, s) \in Task /\ T(kind, s) \notin LogoutTasks
    BY Tasks, LogoutKinds
  <2>2. /\ Pending(LogoutTasks)' <=> Pending(LogoutTasks)
        /\ Alone(LogoutTasks) => Alone(LogoutTasks)'
    BY <1>1, <1>4, <2>1, PoolGrows
  <2> QED
    BY <1>1, <1>4, <2>2, LogoutsKept
<1>5. ASSUME events # <<>>, Head(events) \notin LogoutEvents, events' = Tail(events),
             UNCHANGED <<pool, logout_pending, phase>>
      PROVE  Logouts'
  BY <1>1, <1>5, EventsTail, PoolStill, LogoutsKept
<1>6. ASSUME events # <<>>, Head(events).kind \notin {"logged_out", "logout_failed"}
      PROVE  Head(events) \notin LogoutEvents /\ Head(events).session \in Sessions
  BY <1>1, <1>6, EventsTail, EventNamed DEF LogoutEvents
<1>7. ASSUME events # <<>>, close_main
      PROVE  /\ Has(events', LogoutEvents) <=> Has(Tail(events), LogoutEvents)
             /\ Once(events, LogoutEvents) => Once(events', LogoutEvents)
  <2>1. /\ Tail(events) \in Seq(Event)
        /\ Once(events, LogoutEvents) => Once(Tail(events), LogoutEvents)
    BY <1>1, <1>7, EventsTail
  <2>2. CASE main = None
    BY <1>7, <2>1, <2>2, ConcatEmptySeq DEF close_main
  <2>3. CASE main # None
    <3>1. E("delete", main) \in Event /\ E("delete", main) \notin LogoutEvents
      BY <1>1, <2>3, Events, LogoutKinds DEF TypeOK
    <3>2. events' = Append(Tail(events), E("delete", main))
      BY <1>7, <2>1, <2>3, <3>1, AppendIsConcat DEF close_main
    <3> QED
      BY <2>1, <3>1, <3>2, Appended
  <2> QED
    BY <2>2, <2>3
<1>8. CASE Submit
  <2>1. attempts + 1 \in Sessions
    BY <1>8, <1>1, LoginsAssumption DEF Submit, Sessions, TypeOK
  <2> QED
    BY <1>4, <1>8, <2>1 DEF Submit, logout
<1>9. CASE SubmitChange
  <2>1. dialogs[Len(dialogs)] \in Sessions
    BY <1>1, <1>9, TypeFacts, LenProperties, EmptySeq, ElementOfSeq DEF SubmitChange
  <2> QED
    BY <1>4, <1>9, <2>1 DEF SubmitChange, logout
<1>10. ASSUME NEW s \in Sessions, ReadPage(s) PROVE Logouts'
  BY <1>4, <1>10 DEF ReadPage, logout
<1>11. ASSUME NEW exit_after \in BOOLEAN, BeginLogout(exit_after) PROVE Logouts'
  <2>1. CASE session = None
    <3>1. UNCHANGED <<logout_pending, events, pool>> /\ phase = "running"
      BY <1>11, <2>1 DEF BeginLogout, AtWindow, logout, pool
    <3> QED
      BY <1>2, <3>1
  <2>2. CASE session # None
    <3>1. /\ session \in Sessions /\ phase = "running" /\ ~logout_pending
          /\ queued' = Append(queued, T("logout", session)) /\ running' = running
          /\ events' = events /\ logout_pending' = TRUE
      BY <1>1, <1>11, <2>2 DEF BeginLogout, AtWindow, TypeOK
    <3>2. /\ Alone(LogoutTasks) /\ Once(events, LogoutEvents)
          /\ ~Has(events, LogoutEvents) /\ ~Pending(LogoutTasks)
      BY <1>1, <3>1 DEF Logouts
    <3>3. T("logout", session) \in Task /\ T("logout", session) \in LogoutTasks
      BY <3>1, Tasks, LogoutKinds
    <3>4. Alone(LogoutTasks)' /\ Pending(LogoutTasks)'
      BY <1>1, <3>1, <3>2, <3>3, PoolGrows
    <3> QED
      BY <1>1, <3>1, <3>2, <3>4 DEF Logouts
  <2> QED
    BY <2>1, <2>2
<1>12. CASE StartTask
  BY <1>1, <1>12, PoolStarts, LogoutsKept DEF StartTask, logout
<1>13. ASSUME NEW t \in Task, Complete(t) PROVE Logouts'
  <2>1. /\ t \in running /\ running' = running \ {t} /\ queued' = queued
        /\ UNCHANGED <<logout_pending, phase>>
    BY <1>13 DEF Complete, logout
  <2>2. t.session \in Sessions /\ t.kind \in {"login", "change", "page", "logout"}
    BY TaskNamed
  <2>3. CASE t.kind = "logout"
    <3>1. Logout(t.session)
      BY <1>13, <2>3 DEF Complete
    <3>2. PICK kind \in {"logged_out", "logout_failed"} : events' = Append(events, E(kind, t.session))
      BY <3>1 DEF Logout
    <3>3. E(kind, t.session) \in Event /\ E(kind, t.session) \in LogoutEvents
      BY <2>2, Events, LogoutKinds
    <3>4. t \in LogoutTasks
      BY <2>3 DEF LogoutTasks
    <3>5. Pending(LogoutTasks)
      BY <2>1, <3>4, PoolCompletes
    <3>6. ASSUME phase' = "running"
          PROVE  /\ Alone(LogoutTasks)' /\ ~Pending(LogoutTasks)'
                 /\ Has(events', LogoutEvents) /\ Once(events', LogoutEvents)
                 /\ logout_pending'
      <4>1. Alone(LogoutTasks) /\ Once(events, LogoutEvents) /\ ~Has(events, LogoutEvents) /\ logout_pending
        BY <1>1, <2>1, <3>5, <3>6 DEF Logouts
      <4>2. Alone(LogoutTasks)' /\ ~Pending(LogoutTasks)'
        BY <2>1, <3>4, <4>1, PoolCompletes
      <4>3. Has(events', LogoutEvents) /\ Once(events', LogoutEvents)
        BY <1>1, <3>2, <3>3, <4>1, TypeFacts, Appended
      <4> QED
        BY <2>1, <4>1, <4>2, <4>3
    <3> QED
      BY <1>1, <3>6 DEF Logouts
  <2>4. CASE t.kind # "logout"
    <3>1. Login(t.session) \/ ChangePassword(t.session) \/ Page(t.session)
      BY <1>13, <2>2, <2>4 DEF Complete
    <3>2. /\ Has(events, LogoutEvents)' <=> Has(events, LogoutEvents)
          /\ Once(events, LogoutEvents) => Once(events, LogoutEvents)'
      BY <1>1, <2>2, <3>1, OtherEvents
    <3>3. t \notin LogoutTasks
      BY <2>4 DEF LogoutTasks
    <3>4. /\ Pending(LogoutTasks)' <=> Pending(LogoutTasks)
          /\ Alone(LogoutTasks) => Alone(LogoutTasks)'
      BY <2>1, <3>3, PoolCompletes
    <3> QED
      BY <1>1, <2>1, <3>2, <3>4, LogoutsKept
  <2> QED
    BY <2>3, <2>4
<1>14. CASE LoginFailed \/ LoginFinished \/ ChangeFailed \/ ChangeFinished \/ Deleted
  BY <1>5, <1>6, <1>14
  DEF LoginFailed, LoginFinished, ChangeFailed, ChangeFinished, Deleted, Delivered, logout
<1>15. CASE Authenticated \/ SessionChanged
  <2>1. /\ events # <<>> /\ Head(events).kind \notin {"logged_out", "logout_failed"}
        /\ events' = Tail(events) /\ UNCHANGED <<running, logout_pending, phase>>
    BY <1>15 DEF Authenticated, SessionChanged, Delivered, logout
  <2>2. PICK u \in Sessions : u = Head(events).session
    BY <1>6, <2>1
  <2>3. UNCHANGED queued \/ queued' = Append(queued, T("page", u))
    BY <1>15, <2>2 DEF Authenticated, SessionChanged, open_main
  <2>4. CASE UNCHANGED queued
    BY <1>5, <1>6, <2>1, <2>4 DEF pool
  <2>5. CASE queued' = Append(queued, T("page", u))
    <3>1. T("page", u) \in Task /\ T("page", u) \notin LogoutTasks
      BY Tasks, LogoutKinds
    <3>2. /\ Pending(LogoutTasks)' <=> Pending(LogoutTasks)
          /\ Alone(LogoutTasks) => Alone(LogoutTasks)'
      BY <1>1, <2>1, <2>5, <3>1, PoolGrows
    <3>3. /\ Has(events, LogoutEvents)' <=> Has(events, LogoutEvents)
          /\ Once(events, LogoutEvents) => Once(events, LogoutEvents)'
      BY <1>1, <1>6, <2>1, EventsTail
    <3> QED
      BY <1>1, <2>1, <3>2, <3>3, LogoutsKept
  <2> QED
    BY <2>3, <2>4, <2>5
<1>16. ASSUME events # <<>>, Head(events).kind \in {"logged_out", "logout_failed"},
              phase = "running", UNCHANGED pool, logout_pending' = FALSE,
              events' = Tail(events) \/ close_main
       PROVE  Logouts'
  <2>1. Head(events) \in LogoutEvents
    BY <1>1, <1>16, EventsTail DEF LogoutEvents
  <2>2. /\ Has(events, LogoutEvents)
        /\ Once(events, LogoutEvents) => ~Has(Tail(events), LogoutEvents) /\ Once(Tail(events), LogoutEvents)
    BY <1>1, <1>16, <2>1, EventsTail
  <2>3. Alone(LogoutTasks) /\ Once(events, LogoutEvents) /\ ~Pending(LogoutTasks)
    BY <1>1, <1>16, <2>2 DEF Logouts
  <2>4. Alone(LogoutTasks)' /\ ~Pending(LogoutTasks)'
    BY <1>16, <2>3, PoolStill
  <2>5. ~Has(events', LogoutEvents) /\ Once(events', LogoutEvents)
    BY <1>7, <1>16, <2>2, <2>3
  <2> QED
    BY <1>1, <1>16, <2>4, <2>5 DEF Logouts
<1>17. CASE LoggedOut \/ LogoutFailed
  BY <1>16, <1>17 DEF LoggedOut, LogoutFailed, Delivered
<1>18. CASE SessionInvalidated
  <2>1. /\ events # <<>> /\ Head(events) \notin LogoutEvents
        /\ UNCHANGED <<pool, logout_pending, phase>>
    BY <1>6, <1>18 DEF SessionInvalidated, Delivered, logout
  <2>2. CASE close_main
    <3>1. /\ Has(events, LogoutEvents)' <=> Has(events, LogoutEvents)
          /\ Once(events, LogoutEvents) => Once(events, LogoutEvents)'
      BY <1>1, <1>7, <2>1, <2>2, EventsTail
    <3> QED
      BY <1>1, <2>1, <3>1, PoolStill, LogoutsKept
  <2>3. CASE events' = Tail(events)
    BY <1>5, <2>1, <2>3
  <2> QED
    BY <1>18, <2>2, <2>3 DEF SessionInvalidated
<1>19. CASE FirstRunClosed \/ CancelChange \/ UNCHANGED vars
  BY <1>2, <1>19 DEF FirstRunClosed, CancelChange, logout, vars
<1>20. CASE Exit
  BY <1>2, <1>20 DEF Exit, AtWindow, logout
<1>21. CASE ClearPool \/ Dispose
  BY <1>3, <1>21 DEF ClearPool, Dispose
<1> QED
  BY <1>8, <1>9, <1>10, <1>11, <1>12, <1>13, <1>14, <1>15, <1>17, <1>18, <1>19, <1>20, <1>21
  DEF Next, Act, Deliver

(* ------------------------------- theorems ------------------------------ *)

THEOREM Invariant == Spec => []Inv
<1>1. Inv /\ [Next]_vars => Inv'
  BY TypeStep, StrandedStep, MatchStep, LogoutsStep, StagesStep DEF Inv
<1> QED
  BY Initially, <1>1, PTL DEF Spec

LEMMA Counted ==
  ASSUME NEW seq, NEW X, Once(seq, X)
  PROVE  Cardinality({i \in DOMAIN seq : seq[i] \in X}) = IF Has(seq, X) THEN 1 ELSE 0
<1> DEFINE C == {i \in DOMAIN seq : seq[i] \in X}
<1>1. CASE Has(seq, X)
  <2>1. PICK k \in DOMAIN seq : seq[k] \in X
    BY <1>1 DEF Has
  <2>2. C = {k}
    BY <2>1 DEF Once
  <2>3. Cardinality({k}) = 1
    BY FS_Singleton
  <2> QED
    BY <1>1, <2>2, <2>3
<1>2. CASE ~Has(seq, X)
  <2>1. C = {}
    BY <1>2 DEF Has
  <2> QED
    BY <1>2, <2>1, FS_EmptySet
<1> QED
  BY <1>1, <1>2

LEMMA LogoutCounted ==
  ASSUME TypeOK, Logouts
  PROVE  OneLogout
<1> SUFFICES ASSUME phase = "running"
             PROVE  LogoutsUnderWay = IF logout_pending THEN 1 ELSE 0
  BY DEF OneLogout
<1> DEFINE Q == {i \in DOMAIN queued : queued[i].kind = "logout"}
           R == {t \in running : t.kind = "logout"}
           V == {i \in DOMAIN events : events[i].kind \in {"logged_out", "logout_failed"}}
<1>1. Q = {i \in DOMAIN queued : queued[i] \in LogoutTasks}
  BY TypeFacts, LenProperties, ElementOfSeq DEF LogoutTasks
<1>2. V = {i \in DOMAIN events : events[i] \in LogoutEvents}
  BY TypeFacts, LenProperties, ElementOfSeq DEF LogoutEvents
<1>3. R = running \cap LogoutTasks
  BY TypeFacts DEF LogoutTasks
<1>4. Alone(LogoutTasks) /\ Once(events, LogoutEvents)
  BY DEF Logouts
<1>5. Cardinality(Q) = IF Has(queued, LogoutTasks) THEN 1 ELSE 0
  BY <1>1, <1>4, Counted DEF Alone
<1>6. Cardinality(V) = IF Has(events, LogoutEvents) THEN 1 ELSE 0
  BY <1>2, <1>4, Counted
<1>7. Cardinality(R) = IF R = {} THEN 0 ELSE 1
  <2>1. CASE R = {}
    BY <2>1, FS_EmptySet
  <2>2. CASE R # {}
    <3>1. PICK t : t \in R
      BY <2>2
    <3>2. R = {t}
      BY <1>3, <1>4, <3>1 DEF Alone
    <3> QED
      BY <2>2, <3>2, FS_Singleton
  <2> QED
    BY <2>1, <2>2
<1>8. /\ Has(queued, LogoutTasks) => R = {}
      /\ Has(events, LogoutEvents) => ~Has(queued, LogoutTasks) /\ R = {}
      /\ logout_pending <=> Has(events, LogoutEvents) \/ Has(queued, LogoutTasks) \/ R # {}
  BY <1>3 DEF Logouts, Alone, Pending
<1>9. LogoutsUnderWay = Cardinality(Q) + Cardinality(R) + Cardinality(V)
  BY DEF LogoutsUnderWay
<1> HIDE DEF Q, R, V
<1> QED
  BY <1>5, <1>6, <1>7, <1>8, <1>9

(* Whatever comes late and in whatever order the user clicks: there is     *)
(* always a window, the main window on the screen works for the session a  *)
(* logout would end, none opens for an account that has yet to change its  *)
(* password, and at most one logout is under way, which the flag knows of. *)
THEOREM WindowsAlwaysFit == Spec => []WindowsFitSession
<1>1. Inv => WindowsFitSession
  <2> SUFFICES ASSUME Inv PROVE WindowsFitSession
    OBVIOUS
  <2>1. TypeOK /\ NeverStranded /\ SessionMatchesMain /\ Logouts /\ Stages
    BY DEF Inv
  <2>2. NoBypass
    BY <2>1 DEF TypeOK, Stages, Window, Opened, NoBypass
  <2> QED
    BY <2>1, <2>2, LogoutCounted DEF WindowsFitSession
<1> QED
  BY <1>1, Invariant, PTL

(* ------------------- the accounts beside the shell --------------------- *)

AccountsProofs == INSTANCE UsersProofs WITH session <- contexts

(* Users, as MCDesktopSession and as its own proofs instantiate it, is one *)
(* and the same.                                                           *)
LEMMA AccountActions ==
  ASSUME NEW d, NEW i
  PROVE  /\ Accounts!login_success(d, i) = AccountsProofs!login_success(d, i)
         /\ Accounts!login_failure(i) = AccountsProofs!login_failure(i)
         /\ Accounts!logout(d) = AccountsProofs!logout(d)
         /\ Accounts!change_password(d) = AccountsProofs!change_password(d)
         /\ Accounts!create_user(d) = AccountsProofs!create_user(d)
         /\ Accounts!Administer(d, i) = AccountsProofs!Administer(d, i)
         /\ Accounts!Signed(d) = AccountsProofs!Signed(d)
<1>1. /\ Accounts!login_failure(i) = AccountsProofs!login_failure(i)
      /\ Accounts!login_success(d, i) = AccountsProofs!login_success(d, i)
  BY DEF Accounts!login_failure, AccountsProofs!login_failure, Accounts!login_success,
         AccountsProofs!login_success, Accounts!LoginRefused, AccountsProofs!LoginRefused,
         Accounts!Locked, AccountsProofs!Locked, Accounts!Available, AccountsProofs!Available,
         Accounts!Never, AccountsProofs!Never, Accounts!lockout_duration,
         AccountsProofs!lockout_duration, Accounts!Context, AccountsProofs!Context,
         Accounts!Signed, AccountsProofs!Signed
<1>2. /\ Accounts!logout(d) = AccountsProofs!logout(d)
      /\ Accounts!Signed(d) = AccountsProofs!Signed(d)
      /\ Accounts!change_password(d) = AccountsProofs!change_password(d)
  BY DEF Accounts!logout, AccountsProofs!logout, Accounts!Signed, AccountsProofs!Signed,
         Accounts!change_password, AccountsProofs!change_password, Accounts!NewCredential,
         AccountsProofs!NewCredential, Accounts!Available, AccountsProofs!Available,
         Accounts!Context, AccountsProofs!Context, Accounts!Never, AccountsProofs!Never
<1>3. /\ Accounts!require_current_administrator(d)
           = AccountsProofs!require_current_administrator(d)
      /\ Accounts!LastActiveAdministrator(i) = AccountsProofs!LastActiveAdministrator(i)
  <2>1. Accounts!active_admins = AccountsProofs!active_admins
    BY DEF Accounts!Available, AccountsProofs!Available, Accounts!active_admins,
           AccountsProofs!active_admins
  <2>2. \A S : Accounts!Cardinality(S) = AccountsProofs!Cardinality(S)
    BY DEF Accounts!Cardinality, AccountsProofs!Cardinality
  <2>3. Accounts!LastActiveAdministrator(i) = AccountsProofs!LastActiveAdministrator(i)
    BY <2>1, <2>2 DEF Accounts!LastActiveAdministrator, AccountsProofs!LastActiveAdministrator
  <2>4. Accounts!require_current_administrator(d)
          = AccountsProofs!require_current_administrator(d)
    BY DEF Accounts!require_current_administrator, Accounts!Available,
           AccountsProofs!require_current_administrator, AccountsProofs!Available
  <2> QED
    BY <2>3, <2>4
<1>4. Accounts!create_user(d) = AccountsProofs!create_user(d)
  BY <1>3 DEF Accounts!create_user, AccountsProofs!create_user, Accounts!UserRoles,
         AccountsProofs!UserRoles, Accounts!Reserved, AccountsProofs!Reserved,
         Accounts!TemporaryAccount, AccountsProofs!TemporaryAccount, Accounts!Never,
         AccountsProofs!Never
<1>5. Accounts!Administer(d, i) = AccountsProofs!Administer(d, i)
  <2>1. \A c : Accounts!Mutate(d, i, c) = AccountsProofs!Mutate(d, i, c)
    BY <1>3 DEF Accounts!Mutate, AccountsProofs!Mutate
  <2> QED
    BY <1>3, <2>1
       DEF Accounts!Administer, AccountsProofs!Administer, Accounts!change_username,
           AccountsProofs!change_username, Accounts!Reserved, AccountsProofs!Reserved,
           Accounts!change_role, AccountsProofs!change_role, Accounts!UserRoles,
           AccountsProofs!UserRoles, Accounts!activate_user, AccountsProofs!activate_user,
           Accounts!deactivate_user, AccountsProofs!deactivate_user, Accounts!archive_user,
           AccountsProofs!archive_user, Accounts!restore_user, AccountsProofs!restore_user,
           Accounts!reset_password, AccountsProofs!reset_password, Accounts!NewCredential,
           AccountsProofs!NewCredential, Accounts!Never, AccountsProofs!Never
<1> QED
  BY <1>1, <1>2, <1>4, <1>5

LEMMA AccountSteps ==
  /\ Accounts!Init = AccountsProofs!Init
  /\ Accounts!Next = AccountsProofs!Next
<1>1. Accounts!Init = AccountsProofs!Init
  BY DEF Accounts!Init, AccountsProofs!Init
<1>2. Accounts!initialize = AccountsProofs!initialize /\ Accounts!Tick = AccountsProofs!Tick
  BY DEF Accounts!initialize, AccountsProofs!initialize, Accounts!TemporaryAccount,
         AccountsProofs!TemporaryAccount, Accounts!Never, AccountsProofs!Never,
         Accounts!Tick, AccountsProofs!Tick
<1> QED
  BY <1>1, <1>2, AccountActions DEF Accounts!Next, AccountsProofs!Next

(* Each part of a behaviour of MCDesktopSession is one of its component.   *)
LEMMA ShellBehaves == DesktopSpec => Spec
<1>1. DesktopInit => Init
  BY DEF DesktopInit
<1>2. [DesktopNext]_<<vars, accounts, part>> => [Next]_vars
  BY DEF DesktopNext, accounts
<1> QED
  BY <1>1, <1>2, PTL DEF DesktopSpec, Spec

LEMMA AccountsBehave == DesktopSpec => AccountsProofs!Spec
<1>1. DesktopInit => AccountsProofs!Init
  BY AccountSteps DEF DesktopInit
<1>2. [DesktopNext]_<<vars, accounts, part>> => [AccountsProofs!Next]_AccountsProofs!vars
  BY AccountSteps DEF DesktopNext, accounts, AccountsProofs!vars
<1> QED
  BY <1>1, <1>2, PTL DEF DesktopSpec, AccountsProofs!Spec

LEMMA AccountsAssumptions ==
  /\ AccountsProofs!NamesAssumption /\ AccountsProofs!LockoutAssumption
  /\ AccountsProofs!LimitsAssumption /\ AccountsProofs!NoSessionAssumption
BY AccountsAssumption
   DEF Accounts!NamesAssumption, AccountsProofs!NamesAssumption, Accounts!LockoutAssumption,
       AccountsProofs!LockoutAssumption, Accounts!LimitsAssumption,
       AccountsProofs!LimitsAssumption, Accounts!NoSessionAssumption,
       AccountsProofs!NoSessionAssumption, Accounts!SessionContext,
       AccountsProofs!SessionContext, Accounts!UserRoles, AccountsProofs!UserRoles

LEMMA SameWaiting == Accounts!TimeLocked = AccountsProofs!TimeLocked
<1>1. \A n : Accounts!lockout_duration(n) = AccountsProofs!lockout_duration(n)
  BY DEF Accounts!lockout_duration, AccountsProofs!lockout_duration
<1> QED
  BY <1>1 DEF Accounts!TimeLocked, AccountsProofs!TimeLocked

(* The windows fit the session beside the logins, too.                     *)
THEOREM WindowsFitBesideLogins == DesktopSpec => []WindowsFitSession
BY ShellBehaves, WindowsAlwaysFit, PTL

(* With the thresholds of any policy, an account is locked exactly from    *)
(* the threshold of failures on, and no lock outlasts the longest one:     *)
(* login and change_password never leave a lock without its count.         *)
THEOREM LocksFitFailures == DesktopSpec => []LockoutConsistent
<1>1. AccountsProofs!LockoutConsistent => LockoutConsistent
  BY DEF LockoutConsistent, Accounts!LockoutConsistent, AccountsProofs!LockoutConsistent,
         Accounts!Never, AccountsProofs!Never
<1>2. AccountsProofs!Spec => []AccountsProofs!LockoutConsistent
  BY AccountsAssumptions, AccountsProofs!LockoutBounded
<1> QED
  BY <1>1, <1>2, AccountsBehave, PTL

(* With any delays, the n-th failed login in a row is counted no earlier   *)
(* than the sum of the delays that the failures before it earned.          *)
THEOREM GuessingWaits == DesktopSpec => []GuessingTakesTime
<1>1. AccountsProofs!GuessingTakesTime => GuessingTakesTime
  BY SameWaiting DEF GuessingTakesTime, Accounts!GuessingTakesTime, AccountsProofs!GuessingTakesTime
<1>2. AccountsProofs!Spec => []AccountsProofs!GuessingTakesTime
  BY AccountsAssumptions, AccountsProofs!GuessingIsSlow
<1> QED
  BY <1>1, <1>2, AccountsBehave, PTL
=============================================================================
