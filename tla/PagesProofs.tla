----------------------------- MODULE PagesProofs ----------------------------
(***************************************************************************)
(* Proofs about the four pages of the main window, for any number of       *)
(* clicks, filters, pages and pool threads.                                *)
(*                                                                         *)
(* A call that a page has submitted is first on its way (Sent), then has   *)
(* an answer that has not been delivered (Replies), and is under way       *)
(* until its "finished" has been.  The first part of the module reads      *)
(* these three off the tasks and the posted events, and shows once for     *)
(* all pages how each step of the worker and each delivery changes them.   *)
(* What a page then has to keep in mind is a few facts about calls on      *)
(* their way.                                                              *)
(***************************************************************************)
EXTENDS MCPages, SequenceTheorems, FiniteSetTheorems, TLAPS

(* ------------------------ calls on their way --------------------------- *)

Answers == {"result", "error", "denied"}

Task(C, V) == [id : Nat, call : C, stage : {"sent", "ran", "told"}, kind : Answers, value : V]

TimerCalls ==
  {[name |-> "list"], [name |-> "load"], [name |-> "list", dialog |-> 0],
   [name |-> "list", applied |-> FALSE]}

Posted(C, V) ==
  [kind : Answers \cup {"finished"}, id : Nat, call : C, value : V]
  \cup [kind : {"timer"}, id : {0}, call : TimerCalls, value : {NoValue}]

(* The tasks T and the queue q after n calls.  Each call answers, then     *)
(* finishes, and neither is posted twice.                                  *)
Orderly(n, T, q, C, V) ==
  /\ n \in Nat
  /\ T \subseteq Task(C, V) /\ IsFiniteSet(T)
  /\ q \in Seq(Posted(C, V))
  /\ \A t \in T : t.id \in 1..n
  /\ \A t, u \in T : t.id = u.id => t = u
  /\ \A i \in DOMAIN q : q[i].kind # "timer" => q[i].id \in 1..n
  /\ \A i, j \in DOMAIN q :
       i < j /\ q[i].kind # "timer" /\ q[j].kind # "timer" /\ q[i].id = q[j].id
         => q[i].kind \in Answers /\ q[j].kind = "finished" /\ q[i].call = q[j].call
  /\ \A i \in DOMAIN q, t \in T :
       q[i].kind # "timer" /\ q[i].id = t.id
         => t.stage = "told" /\ q[i].kind \in Answers /\ q[i].call = t.call
  /\ \A i \in DOMAIN q :
       q[i].kind \in Answers =>
         \/ \E t \in T : t.id = q[i].id
         \/ \E j \in DOMAIN q : q[j].kind = "finished" /\ q[j].id = q[i].id

Sent(T) == {t \in T : t.stage = "sent"}

Reply(t) == [kind |-> t.kind, id |-> t.id, call |-> t.call, value |-> t.value]

(* Answers a thread is about to post, and those that are posted.           *)
Replies(T, q) ==
  {Reply(t) : t \in {t \in T : t.stage = "ran"}}
  \cup {q[i] : i \in {i \in DOMAIN q : q[i].kind \in Answers}}

(* The calls among K that are under way, by their numbers.                 *)
Going(T, q, K) ==
  {t.id : t \in {t \in T : t.call \in K}}
  \cup {q[i].id : i \in {i \in DOMAIN q : q[i].kind = "finished" /\ q[i].call \in K}}

Waiting(q) == \E i \in DOMAIN q : q[i].kind = "timer"

(* The call c, with the number m, joins the tasks T, which become U.       *)
Asked(T, q, U, m, c) ==
  /\ \E t \in Sent(U) : t.call = c /\ Sent(U) = Sent(T) \cup {t}
  /\ Replies(U, q) = Replies(T, q)
  /\ \A K : /\ c \in K => Going(U, q, K) = Going(T, q, K) \cup {m}
            /\ c \notin K => Going(U, q, K) = Going(T, q, K)

(* From tasks T and queue q to U and r: the same calls are on their way.   *)
Same(T, q, U, r) ==
  /\ Sent(U) = Sent(T) /\ Replies(U, r) = Replies(T, q)
  /\ \A K : Going(U, r, K) = Going(T, q, K)
  /\ Waiting(r) <=> Waiting(q)

(* What the page takes from the queue q, which leaves r, is h.             *)
Taken(T, q, h, r) ==
  /\ h.kind \in Answers =>
       /\ h \in Replies(T, q) /\ Replies(T, r) = Replies(T, q) \ {h}
       /\ \A K : Going(T, r, K) = Going(T, q, K)
  /\ h.kind = "finished" =>
       /\ Replies(T, r) = Replies(T, q)
       /\ \A K : Going(T, r, K) = Going(T, q, K) \ {h.id}
       /\ \A K : h.call \in K => h.id \in Going(T, q, K)
  /\ h.kind = "timer" =>
       /\ Replies(T, r) = Replies(T, q)
       /\ \A K : Going(T, r, K) = Going(T, q, K)
  /\ h.kind # "timer" => (Waiting(r) <=> Waiting(q))

(* A timer joins the queue q, which becomes r.                             *)
Timed(T, q, r) ==
  /\ Replies(T, r) = Replies(T, q)
  /\ \A K : Going(T, r, K) = Going(T, q, K)
  /\ Waiting(r)

(* A busy flag that tells the truth about the calls among K.               *)
Flagged(T, q, K, flag) ==
  /\ flag <=> Going(T, q, K) # {}
  /\ \A x, y \in Going(T, q, K) : x = y

Named(C, names) == {c \in C : c.name \in names}

(* The answer a to a call named name.                                      *)
To(a, name) == a.call.name = name
Result(a, name) == a.kind = "result" /\ a.call.name = name

(* ----------------------------- invariants ------------------------------ *)

ClientsCalls == Clients!Call
ClientsValues == Nat \cup {NoValue}

(* Its single call is a list, which is up to date, or a change, whose      *)
(* result brings a timer, which brings a list.                             *)
ClientsOnTheWay ==
  LET answers == Replies(tasks, client_events)
  IN /\ Flagged(tasks, client_events, ClientsCalls, busy)
     /\ \A a \in answers : Result(a, "list") => a.value = changes
     /\ \/ listed = changes \/ missed \/ Waiting(client_events)
        \/ \E t \in Sent(tasks) : To(t, "list")
        \/ \E a \in answers : To(a, "list") \/ Result(a, "change")

ClientsInv ==
  /\ Clients!TypeOK
  /\ Orderly(submitted, tasks, client_events, ClientsCalls, ClientsValues)
  /\ alive => ClientsOnTheWay

UsersCalls == [name : Users!Names]
UsersValues == Nat \cup {NoValue}
UsersLists == Named(UsersCalls, {"list"})

Password(a) == a.kind = "result" /\ a.call.name \in {"create", "reset"}

(* A password is seen or on its way.                                       *)
PasswordsOnTheWay ==
  LET answers == Replies(tasks, user_events)
  IN /\ \A id \in made \ seen : \E a \in answers : a.id = id /\ Password(a)
     /\ \A a \in answers : Password(a) => a.id \in made

(* Another list is still to be asked for, or the last one, alone, shows    *)
(* every change.                                                           *)
UserListOnTheWay ==
  LET answers == Replies(tasks, user_events)
  IN \/ Waiting(user_events)
     \/ \E a \in answers : a.kind = "result" /\ ~To(a, "list")
     \/ /\ \A a \in answers : Result(a, "list") => a.value = changes
        /\ \/ user_list = changes \/ missed
           \/ \E t \in Sent(tasks) : To(t, "list")
           \/ \E a \in answers : To(a, "list")

UsersOnTheWay ==
  /\ PasswordsOnTheWay
  /\ \A a \in Replies(tasks, user_events) : Result(a, "list") => a.value \in 0..changes
  /\ ~overlapped =>
       /\ \A x, y \in Going(tasks, user_events, UsersLists) : x = y
       /\ UserListOnTheWay

UsersInv ==
  /\ Users!TypeOK
  /\ Orderly(submitted, tasks, user_events, UsersCalls, UsersValues)
  /\ alive => UsersOnTheWay

Loads == [name : {"load"}, generation : Nat, filter : ShipmentsFilters]
OtherCalls == [name : Shipments!Others]
ShipmentsCalls == Loads \cup OtherCalls
Pages == [page : 1..MaxPages, total : 0..MaxPages, changes : Nat]
ShipmentsValues == Pages \cup {NoValue}

Newest == {c \in Loads : c.generation = generation}
Newer == {c \in Loads : c.generation > generation}

(* The load asked for last: alone, younger than the table, and the flag    *)
(* waits for it.                                                           *)
LoadsOnTheWay ==
  /\ Going(tasks, events, Newer) = {}
  /\ \A x, y \in Going(tasks, events, Newest) : x = y
  /\ Going(tasks, events, Newest) # {} => load_busy
  /\ \A a \in Replies(tasks, events) : Result(a, "load") =>
       /\ a.value \in Pages /\ a.value.changes <= changes
       /\ a.call \in Newest => shown.changes <= a.value.changes

Loading ==
  \/ \E t \in Sent(tasks) : t.call \in Newest
  \/ \E a \in Replies(tasks, events) : a.call \in Newest

TableTrue ==
  generation # 0 =>
    \/ failed \/ Loading
    \/ /\ shown.generation = generation /\ page = shown.page
       /\ page <= Shipments!page_count(total)

(* Another load is still to be asked for, or the newest shows every change.*)
ChangesOnTheWay ==
  LET answers == Replies(tasks, events)
  IN \/ Waiting(events)
     \/ \E a \in answers : Result(a, "mutate")
     \/ /\ \A a \in answers :
             Result(a, "load") /\ a.call \in Newest => a.value.changes = changes
        /\ failed \/ Loading \/ (shown.changes = changes /\ pending = 0)

ShipmentsOnTheWay ==
  /\ Flagged(tasks, events, OtherCalls, mutation_busy)
  /\ LoadsOnTheWay /\ TableTrue /\ ChangesOnTheWay

ShipmentsInv ==
  /\ Shipments!TypeOK
  /\ Orderly(submitted, tasks, events, ShipmentsCalls, ShipmentsValues)
  /\ alive => ShipmentsOnTheWay

SmsCalls == [name : {"list", "history"}, applied : BOOLEAN]
SmsValues == [view : Sms!View, total : 0..MaxPages] \cup {NoValue}

Listing ==
  \/ \E t \in Sent(tasks) : To(t, "list")
  \/ \E a \in Replies(tasks, sms_events) : To(a, "list")

(* While a list is on its way neither page nor filter change, and without  *)
(* a search it only grows.                                                 *)
SmsOnTheWay ==
  LET answers == Replies(tasks, sms_events)
  IN /\ Flagged(tasks, sms_events, SmsCalls, busy)
     /\ asked.page = page /\ (Listing => asked.filter = sms_filter)
     /\ \A x \in Sent(tasks) \cup answers : To(x, "list") /\ x.call.applied => page = 1
     /\ \A a \in answers : Result(a, "list") =>
          /\ a.value \in [view : {asked}, total : 0..MaxPages]
          /\ sms_filter \notin SmsSearches => a.value.total <= sms_pages[sms_filter]
          /\ Sms!Settled => page <= Sms!page_count(a.value.total)
     /\ Sms!Settled => /\ total <= sms_pages[sms_filter]
                       /\ page <= Sms!page_count(sms_pages[sms_filter])
     /\ failed \/ Listing \/ sms_shown = asked
     /\ Sms!Settled => failed \/ Listing \/ page <= Sms!page_count(total)

SmsInv ==
  /\ Sms!TypeOK
  /\ Orderly(submitted, tasks, sms_events, SmsCalls, SmsValues)
  /\ alive => SmsOnTheWay

PagesInv ==
  /\ opened \in {"clients", "users", "shipments", "sms"}
  /\ opened = "clients" => ClientsInv
  /\ opened = "users" => UsersInv
  /\ opened = "shipments" => ShipmentsInv
  /\ opened = "sms" => SmsInv
  /\ listed \in Int
  /\ shown.generation \in Int /\ shown.changes \in Int

(* ------------------- queues and sets of calls -------------------------- *)

(* A posting is added at the end of a queue.                               *)
LEMMA Appended ==
  ASSUME NEW S, NEW q \in Seq(S), NEW e \in S
  PROVE  /\ Append(q, e) \in Seq(S)
         /\ Len(q) \in Nat /\ DOMAIN q = 1..Len(q) /\ DOMAIN Append(q, e) = 1..Len(q) + 1
         /\ \A i \in 1..Len(q) : Append(q, e)[i] = q[i]
         /\ Append(q, e)[Len(q) + 1] = e
  OBVIOUS

(* The first posting leaves a queue.                                       *)
LEMMA Removed ==
  ASSUME NEW S, NEW q \in Seq(S), q # <<>>
  PROVE  /\ Tail(q) \in Seq(S)
         /\ Len(q) \in Nat \ {0} /\ DOMAIN q = 1..Len(q) /\ DOMAIN Tail(q) = 1..Len(q) - 1
         /\ \A i \in 1..Len(q) - 1 : Tail(q)[i] = q[i+1]
         /\ Head(q) = q[1] /\ Head(q) \in S
  OBVIOUS

(* A posting that is no timer belongs to a call.                           *)
LEMMA PostedFields ==
  ASSUME NEW C, NEW V, NEW e \in Posted(C, V)
  PROVE  /\ e.kind \in Answers \cup {"finished", "timer"}
         /\ e.kind # "timer" =>
              e \in [kind : Answers \cup {"finished"}, id : Nat, call : C, value : V]
  BY DEF Posted, Answers

(* What an answer or a call on its way tells.                              *)
LEMMA OnTheWay ==
  ASSUME NEW C, NEW V, NEW n, NEW T, NEW q, Orderly(n, T, q, C, V)
  PROVE  /\ Sent(T) \subseteq Task(C, V)
         /\ \A a \in Replies(T, q) :
              /\ a \in [kind : Answers, id : Nat, call : C, value : V]
              /\ \A K : a.call \in K => a.id \in Going(T, q, K)
         /\ \A K : \A t \in Sent(T) : t.call \in K => t.id \in Going(T, q, K)
         /\ \A a, b \in Replies(T, q) : a.id = b.id => a = b
         /\ \A a \in Replies(T, q), t \in Sent(T) : a.id # t.id
         /\ \A K : Going(T, q, K) \subseteq 1..n
<1>1. Sent(T) \subseteq Task(C, V)
  BY DEF Sent, Orderly
<1>2. ASSUME NEW a \in Replies(T, q)
      PROVE  /\ a \in [kind : Answers, id : Nat, call : C, value : V]
             /\ \A K : a.call \in K => a.id \in Going(T, q, K)
             /\ \A t \in Sent(T) : a.id # t.id
  <2>1. CASE \E t \in T : t.stage = "ran" /\ a = Reply(t)
    <3>1. PICK t \in T : t.stage = "ran" /\ a = Reply(t)
      BY <2>1
    <3>2. t \in Task(C, V)
      BY DEF Orderly
    <3>3. a.id = t.id /\ a.call = t.call
      BY <3>1 DEF Reply
    <3> QED
      BY <3>1, <3>2, <3>3 DEF Orderly, Task, Reply, Going, Sent
  <2>2. CASE \E i \in DOMAIN q : q[i].kind \in Answers /\ a = q[i]
    <3>1. PICK i \in DOMAIN q : q[i].kind \in Answers /\ a = q[i]
      BY <2>2
    <3>2. a \in Posted(C, V)
      BY <3>1 DEF Orderly
    <3>3. a.kind # "timer" /\ a.kind # "finished"
      BY <3>1 DEF Answers
    <3>4. a \in [kind : Answers, id : Nat, call : C, value : V]
      BY <3>1, <3>2, <3>3, PostedFields
    <3>5. \A t \in T : t.id = a.id => t.stage = "told" /\ t.call = a.call
      BY <3>1, <3>3 DEF Orderly
    <3>6. ASSUME NEW K, a.call \in K PROVE a.id \in Going(T, q, K)
      <4>1. CASE \E t \in T : t.id = a.id
        BY <3>5, <3>6, <4>1 DEF Going
      <4>2. CASE \E j \in DOMAIN q : q[j].kind = "finished" /\ q[j].id = a.id
        <5>1. PICK j \in DOMAIN q : q[j].kind = "finished" /\ q[j].id = a.id
          BY <4>2
        <5>2. i \in Nat /\ j \in Nat /\ i # j
          BY <3>1, <3>3, <5>1 DEF Orderly
        <5>3. q[j].kind # "timer" /\ q[j].kind \notin Answers
          BY <5>1 DEF Answers
        <5>4. q[j].call = a.call
          BY <3>1, <3>3, <5>1, <5>2, <5>3 DEF Orderly
        <5> QED
          BY <3>6, <5>1, <5>4 DEF Going
      <4> QED
        BY <3>1, <4>1, <4>2 DEF Orderly
    <3> QED
      BY <3>4, <3>5, <3>6 DEF Sent
  <2> QED
    BY <2>1, <2>2 DEF Replies
<1>3. \A K : \A t \in Sent(T) : t.call \in K => t.id \in Going(T, q, K)
  BY DEF Sent, Going
<1>4. ASSUME NEW a \in Replies(T, q), NEW b \in Replies(T, q), a.id = b.id
      PROVE  a = b
  <2>1. ASSUME NEW t \in T, t.stage = "ran", NEW u \in T, u.stage = "ran", t.id = u.id
        PROVE  Reply(t) = Reply(u)
    BY <2>1 DEF Orderly
  <2>2. ASSUME NEW t \in T, t.stage = "ran", NEW i \in DOMAIN q, q[i].kind \in Answers
        PROVE  t.id # q[i].id
    BY <2>2 DEF Orderly, Answers
  <2>3. ASSUME NEW i \in DOMAIN q, NEW j \in DOMAIN q, q[i].kind \in Answers,
               q[j].kind \in Answers, q[i].id = q[j].id
        PROVE  i = j
    <3>1. i \in Nat /\ j \in Nat
      BY DEF Orderly
    <3>2. ~(i < j) /\ ~(j < i)
      BY <2>3, <3>1 DEF Orderly, Answers
    <3> QED
      BY <3>1, <3>2
  <2>4. \A t : Reply(t).id = t.id
    BY DEF Reply
  <2> QED
    BY <1>4, <2>1, <2>2, <2>3, <2>4 DEF Replies
<1>5. ASSUME NEW K PROVE Going(T, q, K) \subseteq 1..n
  BY DEF Going, Orderly
<1> QED
  BY <1>1, <1>2, <1>3, <1>4, <1>5

(* A call is submitted.                                                    *)
LEMMA Submitting ==
  ASSUME NEW C, NEW V, NEW n, NEW T, NEW q, Orderly(n, T, q, C, V), NEW m, m = n + 1,
         NEW t \in Task(C, V), t.id = m, t.stage = "sent", NEW U, U = T \cup {t}
  PROVE  /\ Orderly(m, U, q, C, V)
         /\ Sent(U) = Sent(T) \cup {t}
         /\ Replies(U, q) = Replies(T, q)
         /\ \A K : /\ t.call \in K => Going(U, q, K) = Going(T, q, K) \cup {t.id}
                   /\ t.call \notin K => Going(U, q, K) = Going(T, q, K)
<1>1. /\ n \in Nat /\ m \in Nat
      /\ U \subseteq Task(C, V) /\ IsFiniteSet(U)
      /\ q \in Seq(Posted(C, V))
  BY FS_AddElement DEF Orderly
<1>2. \A u \in T : u.id \in 1..n
  BY DEF Orderly
<1>3. \A i \in DOMAIN q : q[i].kind # "timer" => q[i].id \in 1..n
  BY DEF Orderly
<1>4. /\ \A u \in U : u.id \in 1..m
      /\ \A u, v \in U : u.id = v.id => u = v
  BY <1>1, <1>2 DEF Orderly
<1>5. \A i \in DOMAIN q, u \in U :
        q[i].kind # "timer" /\ q[i].id = u.id
          => u.stage = "told" /\ q[i].kind \in Answers /\ q[i].call = u.call
  BY <1>1, <1>3 DEF Orderly
<1>6. Orderly(m, U, q, C, V)
  BY <1>1, <1>3, <1>4, <1>5 DEF Orderly
<1>7. Sent(U) = Sent(T) \cup {t}
  BY DEF Sent
<1>8. {u \in U : u.stage = "ran"} = {u \in T : u.stage = "ran"}
  OBVIOUS
<1>9. Replies(U, q) = Replies(T, q)
  BY <1>8 DEF Replies
<1>10. ASSUME NEW K
       PROVE  /\ t.call \in K => Going(U, q, K) = Going(T, q, K) \cup {t.id}
              /\ t.call \notin K => Going(U, q, K) = Going(T, q, K)
  <2>1. {u \in U : u.call \in K} =
          IF t.call \in K THEN {u \in T : u.call \in K} \cup {t} ELSE {u \in T : u.call \in K}
    OBVIOUS
  <2> QED
    BY <2>1 DEF Going
<1> QED
  BY <1>6, <1>7, <1>9, <1>10

(* A sent call has run.                                                    *)
LEMMA Running ==
  ASSUME NEW C, NEW V, NEW n, NEW T, NEW q, Orderly(n, T, q, C, V), NEW t \in Sent(T),
         NEW u \in Task(C, V), u.id = t.id, u.call = t.call, u.stage = "ran",
         NEW U, U = (T \ {t}) \cup {u}
  PROVE  /\ Orderly(n, U, q, C, V)
         /\ Sent(U) = Sent(T) \ {t}
         /\ Replies(U, q) = Replies(T, q) \cup {Reply(u)}
         /\ \A K : Going(U, q, K) = Going(T, q, K)
<1>1. t \in T /\ t \in Task(C, V) /\ t.stage = "sent"
  BY DEF Sent, Orderly
<1>2. U \subseteq Task(C, V) /\ IsFiniteSet(U)
  <2>1. IsFiniteSet(T \ {t}) /\ T \subseteq Task(C, V)
    BY FS_RemoveElement DEF Orderly
  <2> QED
    BY <1>1, <2>1, FS_AddElement
<1>3. /\ \A x \in U : x.id \in 1..n
      /\ \A x, y \in U : x.id = y.id => x = y
  BY <1>1 DEF Orderly
<1>4. \A i \in DOMAIN q, x \in U :
        q[i].kind # "timer" /\ q[i].id = x.id
          => x.stage = "told" /\ q[i].kind \in Answers /\ q[i].call = x.call
  <2>1. ASSUME NEW i \in DOMAIN q, q[i].kind # "timer" PROVE q[i].id # t.id
    BY <1>1, <2>1 DEF Orderly
  <2> QED
    BY <1>1, <2>1 DEF Orderly
<1>5. \A i \in DOMAIN q :
        q[i].kind \in Answers =>
          \/ \E x \in U : x.id = q[i].id
          \/ \E j \in DOMAIN q : q[j].kind = "finished" /\ q[j].id = q[i].id
  <2>1. \A x \in T : \E y \in U : y.id = x.id
    OBVIOUS
  <2> QED
    BY <2>1 DEF Orderly
<1>6. Orderly(n, U, q, C, V)
  BY <1>2, <1>3, <1>4, <1>5 DEF Orderly
<1>7. Sent(U) = Sent(T) \ {t}
  BY <1>1 DEF Sent
<1>8. {x \in U : x.stage = "ran"} = {x \in T : x.stage = "ran"} \cup {u}
  BY <1>1
<1>9. Replies(U, q) = Replies(T, q) \cup {Reply(u)}
  BY <1>8 DEF Replies
<1>10. ASSUME NEW K PROVE Going(U, q, K) = Going(T, q, K)
  <2>1. ASSUME NEW i PROVE (\E x \in U : x.call \in K /\ i = x.id)
                             <=> (\E x \in T : x.call \in K /\ i = x.id)
    BY <1>1
  <2> QED
    BY <2>1 DEF Going
<1> QED
  BY <1>6, <1>7, <1>9, <1>10

(* A posting takes its place at the end of the queue.                      *)
LEMMA Queued ==
  ASSUME NEW C, NEW V, NEW q \in Seq(Posted(C, V)), NEW e \in Posted(C, V)
  PROVE  LET r == Append(q, e)
         IN /\ \A T : Replies(T, r) =
                        IF e.kind \in Answers THEN Replies(T, q) \cup {e} ELSE Replies(T, q)
            /\ \A T, K : Going(T, r, K) =
                           IF e.kind = "finished" /\ e.call \in K
                           THEN Going(T, q, K) \cup {e.id} ELSE Going(T, q, K)
            /\ Waiting(r) <=> Waiting(q) \/ e.kind = "timer"
<1> DEFINE r == Append(q, e)
           m == Len(q)
<1>1. /\ m \in Nat /\ DOMAIN q = 1..m /\ DOMAIN r = 1..m+1
      /\ \A i \in 1..m : r[i] = q[i]
      /\ r[m+1] = e
  BY Appended
<1> HIDE DEF r, m
<1>2. 1..m+1 = 1..m \cup {m+1} /\ m+1 \notin 1..m
  BY <1>1
<1>3. {r[i] : i \in {i \in DOMAIN r : r[i].kind \in Answers}}
        = {q[i] : i \in {i \in DOMAIN q : q[i].kind \in Answers}}
            \cup IF e.kind \in Answers THEN {e} ELSE {}
  BY <1>1, <1>2
<1>4. ASSUME NEW K
      PROVE  {r[i].id : i \in {i \in DOMAIN r : r[i].kind = "finished" /\ r[i].call \in K}}
               = {q[i].id : i \in {i \in DOMAIN q : q[i].kind = "finished" /\ q[i].call \in K}}
                   \cup IF e.kind = "finished" /\ e.call \in K THEN {e.id} ELSE {}
  BY <1>1, <1>2
<1>5. Waiting(r) <=> Waiting(q) \/ e.kind = "timer"
  BY <1>1, <1>2 DEF Waiting
<1>6. ASSUME NEW T
      PROVE  Replies(T, r) =
               IF e.kind \in Answers THEN Replies(T, q) \cup {e} ELSE Replies(T, q)
  BY <1>3 DEF Replies
<1>7. ASSUME NEW T, NEW K
      PROVE  Going(T, r, K) = IF e.kind = "finished" /\ e.call \in K
                              THEN Going(T, q, K) \cup {e.id} ELSE Going(T, q, K)
  <2> DEFINE I == {t.id : t \in {t \in T : t.call \in K}}
             P == {q[i].id : i \in {i \in DOMAIN q : q[i].kind = "finished" /\ q[i].call \in K}}
             R == {r[i].id : i \in {i \in DOMAIN r : r[i].kind = "finished" /\ r[i].call \in K}}
  <2>1. Going(T, r, K) = I \cup R /\ Going(T, q, K) = I \cup P
    BY DEF Going
  <2>2. R = P \cup IF e.kind = "finished" /\ e.call \in K THEN {e.id} ELSE {}
    BY <1>4
  <2> HIDE DEF I, P, R
  <2> QED
    BY <2>1, <2>2
<1> QED
  BY <1>5, <1>6, <1>7 DEF r

(* The answer of a call is posted.                                         *)
LEMMA Telling ==
  ASSUME NEW C, NEW V, NEW n, NEW T, NEW q, Orderly(n, T, q, C, V), NEW t \in T,
         t.stage = "ran",
         NEW u \in Task(C, V), u.id = t.id, u.call = t.call, u.stage = "told",
         NEW U, U = (T \ {t}) \cup {u}, NEW r, r = Append(q, Reply(t))
  PROVE  Orderly(n, U, r, C, V) /\ Same(T, q, U, r)
<1> DEFINE m == Len(q)
<1>1. /\ t \in Task(C, V) /\ q \in Seq(Posted(C, V))
      /\ t.id \in 1..n
  BY DEF Orderly
<1>2. /\ Reply(t) \in [kind : Answers, id : Nat, call : C, value : V]
      /\ Reply(t).id = t.id /\ Reply(t).call = t.call
  BY <1>1 DEF Reply, Task
<1>3. Reply(t) \in Posted(C, V) /\ Reply(t).kind \in Answers
      /\ Reply(t).kind # "finished" /\ Reply(t).kind # "timer"
  BY <1>2 DEF Posted, Answers
<1>4. /\ m \in Nat /\ DOMAIN q = 1..m /\ DOMAIN r = 1..m+1
      /\ \A i \in 1..m : r[i] = q[i]
      /\ r[m+1] = Reply(t)
      /\ r \in Seq(Posted(C, V))
  BY <1>1, <1>3, Appended
<1> HIDE DEF m
<1>5. 1..m+1 = 1..m \cup {m+1} /\ m+1 \notin 1..m
  BY <1>4
<1>6. U \subseteq Task(C, V) /\ IsFiniteSet(U)
  <2>1. IsFiniteSet(T \ {t}) /\ T \subseteq Task(C, V)
    BY FS_RemoveElement DEF Orderly
  <2> QED
    BY <1>1, <2>1, FS_AddElement
<1>7. /\ \A x \in U : x.id \in 1..n
      /\ \A x, y \in U : x.id = y.id => x = y
  BY <1>1 DEF Orderly
<1>8. \A i \in 1..m : q[i].kind # "timer" => q[i].id # t.id
  BY <1>4 DEF Orderly
<1>9. \A i \in DOMAIN r : r[i].kind # "timer" => r[i].id \in 1..n
  BY <1>1, <1>2, <1>4, <1>5 DEF Orderly
<1>10. \A i, j \in DOMAIN r :
         i < j /\ r[i].kind # "timer" /\ r[j].kind # "timer" /\ r[i].id = r[j].id
           => r[i].kind \in Answers /\ r[j].kind = "finished" /\ r[i].call = r[j].call
  BY <1>2, <1>4, <1>5, <1>8 DEF Orderly
<1>11. \A i \in DOMAIN r, x \in U :
         r[i].kind # "timer" /\ r[i].id = x.id
           => x.stage = "told" /\ r[i].kind \in Answers /\ r[i].call = x.call
  <2>1. ASSUME NEW i \in 1..m, NEW x \in U, q[i].kind # "timer", q[i].id = x.id
        PROVE  x.stage = "told" /\ q[i].kind \in Answers /\ q[i].call = x.call
    BY <1>4, <1>8, <2>1 DEF Orderly
  <2>2. ASSUME NEW x \in U, x.id = t.id
        PROVE  x = u
    BY <1>7, <2>2
  <2> QED
    BY <1>2, <1>3, <1>4, <1>5, <2>1, <2>2
<1>12. \A i \in DOMAIN r :
         r[i].kind \in Answers =>
           \/ \E x \in U : x.id = r[i].id
           \/ \E j \in DOMAIN r : r[j].kind = "finished" /\ r[j].id = r[i].id
  <2>1. \A x \in T : \E y \in U : y.id = x.id
    OBVIOUS
  <2> QED
    BY <1>2, <1>4, <1>5, <2>1 DEF Orderly
<1>13. Orderly(n, U, r, C, V)
  BY <1>4, <1>6, <1>7, <1>9, <1>10, <1>11, <1>12 DEF Orderly
<1>14. Sent(U) = Sent(T)
  BY DEF Sent
<1>15. Replies(U, r) = Replies(T, q)
  <2>1. Replies(U, r) = Replies(U, q) \cup {Reply(t)}
    BY <1>1, <1>3, Queued
  <2>2. {x \in T : x.stage = "ran"} = {x \in U : x.stage = "ran"} \cup {t}
    OBVIOUS
  <2>3. Replies(T, q) = Replies(U, q) \cup {Reply(t)}
    BY <2>2 DEF Replies
  <2> QED
    BY <2>1, <2>3
<1>16. ASSUME NEW K PROVE Going(U, r, K) = Going(T, q, K)
  <2>1. ASSUME NEW i PROVE (\E x \in U : x.call \in K /\ i = x.id)
                             <=> (\E x \in T : x.call \in K /\ i = x.id)
    OBVIOUS
  <2>2. Going(U, q, K) = Going(T, q, K)
    BY <2>1 DEF Going
  <2> QED
    BY <1>1, <1>3, <2>2, Queued
<1>17. Waiting(r) <=> Waiting(q)
  BY <1>1, <1>3, Queued
<1> QED
  BY <1>13, <1>14, <1>15, <1>16, <1>17 DEF Same

(* "finished" is posted.                                                   *)
LEMMA Ending ==
  ASSUME NEW C, NEW V, NEW n, NEW T, NEW q, Orderly(n, T, q, C, V), NEW t \in T,
         t.stage = "told",
         NEW e \in Posted(C, V), e.kind = "finished", e.id = t.id, e.call = t.call,
         NEW U, U = T \ {t}, NEW r, r = Append(q, e)
  PROVE  Orderly(n, U, r, C, V) /\ Same(T, q, U, r)
<1> DEFINE m == Len(q)
<1>1. t \in Task(C, V) /\ q \in Seq(Posted(C, V)) /\ t.id \in 1..n
  BY DEF Orderly
<1>2. /\ e \in Posted(C, V) /\ e.kind = "finished"
      /\ e.kind \notin Answers /\ e.kind # "timer"
  BY DEF Posted, Answers
<1>3. /\ m \in Nat /\ DOMAIN q = 1..m /\ DOMAIN r = 1..m+1
      /\ \A i \in 1..m : r[i] = q[i]
      /\ r[m+1] = e
      /\ r \in Seq(Posted(C, V))
  BY <1>1, <1>2, Appended
<1> HIDE DEF m
<1>4. 1..m+1 = 1..m \cup {m+1} /\ m+1 \notin 1..m
  BY <1>3
<1>5. U \subseteq Task(C, V) /\ IsFiniteSet(U)
  BY FS_RemoveElement DEF Orderly
<1>6. /\ \A x \in U : x.id \in 1..n
      /\ \A x, y \in U : x.id = y.id => x = y
  BY DEF Orderly
<1>7. \A i \in DOMAIN r : r[i].kind # "timer" => r[i].id \in 1..n
  BY <1>1, <1>3, <1>4 DEF Orderly
<1>8. \A i \in 1..m :
        q[i].kind # "timer" /\ q[i].id = t.id => q[i].kind \in Answers /\ q[i].call = t.call
  BY <1>3 DEF Orderly
<1>9. \A i, j \in DOMAIN r :
        i < j /\ r[i].kind # "timer" /\ r[j].kind # "timer" /\ r[i].id = r[j].id
          => r[i].kind \in Answers /\ r[j].kind = "finished" /\ r[i].call = r[j].call
  BY <1>2, <1>3, <1>4, <1>8 DEF Orderly
<1>10. \A i \in DOMAIN r, x \in U :
         r[i].kind # "timer" /\ r[i].id = x.id
           => x.stage = "told" /\ r[i].kind \in Answers /\ r[i].call = x.call
  <2>1. \A x \in U : x.id # t.id
    BY DEF Orderly
  <2> QED
    BY <1>3, <1>4, <2>1 DEF Orderly
<1>11. \A i \in DOMAIN r :
         r[i].kind \in Answers =>
           \/ \E x \in U : x.id = r[i].id
           \/ \E j \in DOMAIN r : r[j].kind = "finished" /\ r[j].id = r[i].id
  <2>1. ASSUME NEW i \in 1..m, q[i].kind \in Answers
        PROVE  \/ \E x \in U : x.id = q[i].id
               \/ \E j \in DOMAIN r : r[j].kind = "finished" /\ r[j].id = q[i].id
    <3>1. CASE \E x \in T : x.id = q[i].id
      BY <1>2, <1>3, <1>4, <3>1
    <3>2. CASE \E j \in DOMAIN q : q[j].kind = "finished" /\ q[j].id = q[i].id
      BY <1>3, <1>4, <3>2
    <3> QED
      BY <1>3, <2>1, <3>1, <3>2 DEF Orderly
  <2> QED
    BY <1>2, <1>3, <1>4, <2>1
<1>12. Orderly(n, U, r, C, V)
  BY <1>3, <1>5, <1>6, <1>7, <1>9, <1>10, <1>11 DEF Orderly
<1>13. Sent(U) = Sent(T)
  BY DEF Sent
<1>14. Replies(U, r) = Replies(T, q)
  <2>1. {x \in U : x.stage = "ran"} = {x \in T : x.stage = "ran"}
    OBVIOUS
  <2>2. Replies(U, q) = Replies(T, q)
    BY <2>1 DEF Replies
  <2> QED
    BY <1>1, <1>2, <2>2, Queued
<1>15. ASSUME NEW K PROVE Going(U, r, K) = Going(T, q, K)
  <2> DEFINE I(S) == {x.id : x \in {x \in S : x.call \in K}}
             P == {q[i].id : i \in {i \in DOMAIN q : q[i].kind = "finished" /\ q[i].call \in K}}
  <2>1. Going(T, q, K) = I(T) \cup P /\ Going(U, q, K) = I(U) \cup P
    BY DEF Going
  <2>2. I(T) = I(U) \cup IF t.call \in K THEN {t.id} ELSE {}
    <3>1. \A x : x \in T <=> x \in U \/ x = t
      OBVIOUS
    <3> QED
      BY <3>1
  <2> HIDE DEF I, P
  <2>3. Going(U, r, K) =
          IF e.call \in K THEN Going(U, q, K) \cup {e.id} ELSE Going(U, q, K)
    <3>1. \A S, L : Going(S, r, L) =
            IF e.kind = "finished" /\ e.call \in L THEN Going(S, q, L) \cup {e.id}
                                                  ELSE Going(S, q, L)
      BY <1>1, <1>2, Queued
    <3> QED
      BY <1>2, <3>1
  <2>4. CASE t.call \in K
    BY <2>1, <2>2, <2>3, <2>4
  <2>5. CASE t.call \notin K
    BY <2>1, <2>2, <2>3, <2>5
  <2> QED
    BY <2>4, <2>5
<1>16. Waiting(r) <=> Waiting(q)
  BY <1>1, <1>2, Queued
<1> QED
  BY <1>12, <1>13, <1>14, <1>15, <1>16 DEF Same

(* The event loop delivers what was posted first.                          *)
LEMMA Delivering ==
  ASSUME NEW C, NEW V, NEW n, NEW T, NEW q, Orderly(n, T, q, C, V), q # <<>>,
         NEW h, h = Head(q), NEW r, r = Tail(q)
  PROVE  h \in Posted(C, V) /\ Orderly(n, T, r, C, V) /\ Taken(T, q, h, r)
<1> DEFINE m == Len(q)
<1>1. /\ m \in Nat \ {0} /\ DOMAIN q = 1..m /\ DOMAIN r = 1..m-1
      /\ \A i \in 1..m-1 : r[i] = q[i+1]
      /\ h = q[1]
      /\ r \in Seq(Posted(C, V)) /\ h \in Posted(C, V)
  BY Removed DEF Orderly
<1> HIDE DEF m
<1>2. /\ 1 \in 1..m
      /\ \A i \in 1..m-1 : i+1 \in 1..m /\ i+1 # 1
      /\ \A i \in 1..m : i # 1 => i-1 \in 1..m-1 /\ r[i-1] = q[i]
  <2>1. \A i \in 1..m : i # 1 => i-1 \in 1..m-1 /\ (i-1)+1 = i
    BY <1>1
  <2>2. \A i \in 1..m : i # 1 => r[i-1] = q[i]
    BY <1>1, <2>1
  <2> QED
    BY <1>1, <2>1, <2>2
<1>3. Orderly(n, T, r, C, V)
  <2>1. \A i, j \in DOMAIN r : i < j => i+1 < j+1
    BY <1>1
  <2>2. /\ \A i \in DOMAIN r : r[i].kind # "timer" => r[i].id \in 1..n
        /\ \A i, j \in DOMAIN r :
             i < j /\ r[i].kind # "timer" /\ r[j].kind # "timer" /\ r[i].id = r[j].id
               => r[i].kind \in Answers /\ r[j].kind = "finished" /\ r[i].call = r[j].call
        /\ \A i \in DOMAIN r, t \in T :
             r[i].kind # "timer" /\ r[i].id = t.id
               => t.stage = "told" /\ r[i].kind \in Answers /\ r[i].call = t.call
    BY <1>1, <1>2, <2>1 DEF Orderly
  <2>3. ASSUME NEW i \in DOMAIN r, r[i].kind \in Answers, NEW j \in DOMAIN q,
               q[j].kind = "finished", q[j].id = r[i].id
        PROVE  j # 1
    <3>1. /\ q[i+1].kind \in Answers /\ q[i+1].id = q[j].id /\ i+1 \in DOMAIN q
          /\ 1 < i+1
      BY <1>1, <1>2, <2>3
    <3>2. q[j].kind # "timer" /\ q[i+1].kind # "timer" /\ q[j].kind \notin Answers
      BY <2>3, <3>1 DEF Answers
    <3>3. ~(j < i+1)
      BY <2>3, <3>1, <3>2 DEF Orderly
    <3> QED
      BY <3>1, <3>3
  <2>4. \A i \in DOMAIN r :
          r[i].kind \in Answers =>
            \/ \E t \in T : t.id = r[i].id
            \/ \E j \in DOMAIN r : r[j].kind = "finished" /\ r[j].id = r[i].id
    <3> SUFFICES ASSUME NEW i \in DOMAIN r, r[i].kind \in Answers,
                        ~ \E t \in T : t.id = r[i].id
                 PROVE  \E j \in DOMAIN r : r[j].kind = "finished" /\ r[j].id = r[i].id
      OBVIOUS
    <3>1. i+1 \in DOMAIN q /\ q[i+1] = r[i]
      BY <1>1, <1>2
    <3>2. PICK j \in DOMAIN q : q[j].kind = "finished" /\ q[j].id = r[i].id
      BY <3>1 DEF Orderly
    <3>3. j # 1
      BY <2>3, <3>2
    <3>4. j-1 \in DOMAIN r /\ r[j-1] = q[j]
      BY <1>1, <1>2, <3>3
    <3> QED
      BY <3>2, <3>4
  <2> QED
    BY <1>1, <2>2, <2>4 DEF Orderly
<1> DEFINE P(s) == {s[i] : i \in {i \in DOMAIN s : s[i].kind \in Answers}}
           F(s, K) == {s[i].id : i \in {i \in DOMAIN s : s[i].kind = "finished" /\ s[i].call \in K}}
<1>4. /\ Replies(T, r) = {Reply(t) : t \in {t \in T : t.stage = "ran"}} \cup P(r)
      /\ Replies(T, q) = {Reply(t) : t \in {t \in T : t.stage = "ran"}} \cup P(q)
  BY DEF Replies
<1>5. ASSUME NEW K
      PROVE  /\ Going(T, r, K) = {t.id : t \in {t \in T : t.call \in K}} \cup F(r, K)
             /\ Going(T, q, K) = {t.id : t \in {t \in T : t.call \in K}} \cup F(q, K)
  BY DEF Going
<1>6. P(q) = P(r) \cup IF h.kind \in Answers THEN {h} ELSE {}
  <2>1. ASSUME NEW x \in P(r) PROVE x \in P(q)
    <3>1. PICK i \in DOMAIN r : r[i].kind \in Answers /\ x = r[i]
      OBVIOUS
    <3>2. i+1 \in DOMAIN q /\ q[i+1] = x
      BY <1>1, <1>2, <3>1
    <3> QED
      BY <3>1, <3>2
  <2>2. h.kind \in Answers => h \in P(q)
    BY <1>1, <1>2
  <2>3. ASSUME NEW x \in P(q), ~(x = h /\ h.kind \in Answers) PROVE x \in P(r)
    <3>1. PICK i \in DOMAIN q : q[i].kind \in Answers /\ x = q[i]
      OBVIOUS
    <3>2. i-1 \in DOMAIN r /\ r[i-1] = x
      BY <1>1, <1>2, <2>3, <3>1
    <3> QED
      BY <3>1, <3>2
  <2> HIDE DEF P
  <2> QED
    BY <2>1, <2>2, <2>3
<1>7. ASSUME NEW K
      PROVE  F(q, K) = F(r, K) \cup IF h.kind = "finished" /\ h.call \in K THEN {h.id} ELSE {}
  <2>1. ASSUME NEW x \in F(r, K) PROVE x \in F(q, K)
    <3>1. PICK i \in DOMAIN r : r[i].kind = "finished" /\ r[i].call \in K /\ x = r[i].id
      OBVIOUS
    <3>2. i+1 \in DOMAIN q /\ q[i+1] = r[i]
      BY <1>1, <1>2
    <3> QED
      BY <3>1, <3>2
  <2>2. h.kind = "finished" /\ h.call \in K => h.id \in F(q, K)
    BY <1>1, <1>2
  <2>3. ASSUME NEW x \in F(q, K), ~(x = h.id /\ h.kind = "finished" /\ h.call \in K)
        PROVE  x \in F(r, K)
    <3>1. PICK i \in DOMAIN q : q[i].kind = "finished" /\ q[i].call \in K /\ x = q[i].id
      OBVIOUS
    <3>2. i-1 \in DOMAIN r /\ r[i-1] = q[i]
      BY <1>1, <1>2, <2>3, <3>1
    <3> QED
      BY <3>1, <3>2
  <2> HIDE DEF F
  <2> QED
    BY <2>1, <2>2, <2>3
<1>8. ASSUME h.kind # "finished" PROVE \A K : Going(T, r, K) = Going(T, q, K)
  <2>1. SUFFICES ASSUME NEW K PROVE Going(T, r, K) = Going(T, q, K)
    OBVIOUS
  <2>2. F(q, K) = F(r, K)
    <3>1. F(q, K) = F(r, K) \cup IF h.kind = "finished" /\ h.call \in K THEN {h.id} ELSE {}
      BY <1>7
    <3> HIDE DEF F
    <3> QED
      BY <1>8, <3>1
  <2>3. PICK I : Going(T, r, K) = I \cup F(r, K) /\ Going(T, q, K) = I \cup F(q, K)
    BY <1>5
  <2> HIDE DEF F
  <2> QED
    BY <2>2, <2>3
<1>9. ASSUME h.kind # "timer" PROVE Waiting(r) <=> Waiting(q)
  <2>1. ASSUME Waiting(r) PROVE Waiting(q)
    BY <1>1, <1>2, <2>1 DEF Waiting
  <2>2. ASSUME Waiting(q) PROVE Waiting(r)
    <3>1. PICK i \in DOMAIN q : q[i].kind = "timer"
      BY <2>2 DEF Waiting
    <3>2. i-1 \in DOMAIN r /\ r[i-1] = q[i]
      BY <1>1, <1>2, <1>9, <3>1
    <3> QED
      BY <3>1, <3>2 DEF Waiting
  <2> QED
    BY <2>1, <2>2
<1>10. CASE h.kind \in Answers
  <2>1. h.kind # "finished" /\ h.kind # "timer"
    BY <1>10 DEF Answers
  <2>2. h \in Replies(T, q)
    BY <1>4, <1>6, <1>10
  <2>3. h \notin Replies(T, r)
    <3>1. ASSUME NEW i \in DOMAIN r, r[i].kind \in Answers PROVE r[i] # h
      <4>1. i+1 \in DOMAIN q /\ 1 \in DOMAIN q /\ 1 < i+1 /\ r[i] = q[i+1]
        BY <1>1, <1>2
      <4>2. q[i+1].kind # "timer" /\ q[i+1].kind # "finished" /\ q[1].kind # "timer"
        BY <1>1, <1>10, <3>1, <4>1 DEF Answers
      <4> QED
        BY <1>1, <4>1, <4>2 DEF Orderly
    <3>2. ASSUME NEW t \in T, t.stage = "ran" PROVE Reply(t) # h
      <4>1. t.id # h.id
        BY <1>1, <1>2, <2>1, <3>2 DEF Orderly
      <4> QED
        BY <4>1 DEF Reply
    <3> QED
      BY <1>4, <3>1, <3>2
  <2>4. Replies(T, r) = Replies(T, q) \ {h}
    <3> HIDE DEF P
    <3> QED
      BY <1>4, <1>6, <1>10, <2>3
  <2>5. \A K : Going(T, r, K) = Going(T, q, K)
    BY <1>8, <2>1
  <2>6. Waiting(r) <=> Waiting(q)
    BY <1>9, <2>1
  <2> QED
    BY <1>1, <1>3, <2>1, <2>2, <2>4, <2>5, <2>6 DEF Taken
<1>11. CASE h.kind = "finished"
  <2>1. h.kind \notin Answers /\ h.kind # "timer"
    BY <1>11 DEF Answers
  <2>2. Replies(T, r) = Replies(T, q)
    BY <1>4, <1>6, <2>1
  <2>3. ASSUME NEW K PROVE Going(T, r, K) = Going(T, q, K) \ {h.id}
    <3>1. \A t \in T : t.id # h.id
      BY <1>1, <1>2, <2>1 DEF Orderly
    <3>2. ASSUME NEW i \in DOMAIN r, r[i].kind = "finished" PROVE r[i].id # h.id
      <4>1. i+1 \in DOMAIN q /\ 1 \in DOMAIN q /\ 1 < i+1 /\ r[i] = q[i+1]
        BY <1>1, <1>2
      <4> QED
        BY <1>1, <2>1, <3>2, <4>1 DEF Orderly
    <3>3. h.id \notin Going(T, r, K)
      BY <1>5, <3>1, <3>2
    <3>4. F(q, K) \subseteq F(r, K) \cup {h.id} /\ F(r, K) \subseteq F(q, K)
      <4>1. F(q, K) = F(r, K) \cup IF h.kind = "finished" /\ h.call \in K THEN {h.id} ELSE {}
        BY <1>7
      <4> HIDE DEF F
      <4> QED
        BY <4>1
    <3> HIDE DEF F
    <3> QED
      BY <1>5, <3>3, <3>4
  <2>4. \A K : h.call \in K => h.id \in Going(T, q, K)
    BY <1>5, <1>7, <1>11
  <2>5. Waiting(r) <=> Waiting(q)
    BY <1>9, <2>1
  <2> QED
    BY <1>1, <1>3, <1>11, <2>1, <2>2, <2>3, <2>4, <2>5 DEF Taken
<1>12. CASE h.kind = "timer"
  <2>1. h.kind \notin Answers /\ h.kind # "finished"
    BY <1>12 DEF Answers
  <2>2. Replies(T, r) = Replies(T, q)
    BY <1>4, <1>6, <2>1
  <2>3. \A K : Going(T, r, K) = Going(T, q, K)
    BY <1>8, <2>1
  <2> QED
    BY <1>1, <1>3, <1>12, <2>1, <2>2, <2>3 DEF Taken
<1>13. h.kind \in Answers \cup {"finished", "timer"}
  BY <1>1, PostedFields
<1> QED
  BY <1>10, <1>11, <1>12, <1>13

(* A zero timer is set.                                                    *)
LEMMA Timing ==
  ASSUME NEW C, NEW V, NEW n, NEW T, NEW q, Orderly(n, T, q, C, V),
         NEW e \in [kind : {"timer"}, id : {0}, call : TimerCalls, value : {NoValue}],
         NEW r, r = Append(q, e)
  PROVE  Orderly(n, T, r, C, V) /\ Timed(T, q, r)
<1> DEFINE m == Len(q)
<1>1. /\ e \in Posted(C, V) /\ e.kind = "timer" /\ e.kind \notin Answers
      /\ e.kind # "finished" /\ q \in Seq(Posted(C, V))
  BY DEF Posted, Answers, Orderly
<1>2. /\ m \in Nat /\ DOMAIN q = 1..m /\ DOMAIN r = 1..m+1
      /\ \A i \in 1..m : r[i] = q[i]
      /\ r[m+1] = e
      /\ r \in Seq(Posted(C, V))
  BY <1>1, Appended
<1> HIDE DEF m
<1>3. 1..m+1 = 1..m \cup {m+1} /\ m+1 \notin 1..m
  BY <1>2
<1>4. /\ \A i \in DOMAIN r : r[i].kind # "timer" => i \in 1..m /\ r[i] = q[i]
      /\ \A i \in DOMAIN q : i \in DOMAIN r /\ r[i] = q[i]
  BY <1>1, <1>2, <1>3
<1>5. \A i \in DOMAIN r :
        r[i].kind \in Answers =>
          \/ \E t \in T : t.id = r[i].id
          \/ \E j \in DOMAIN r : r[j].kind = "finished" /\ r[j].id = r[i].id
  <2>1. \A i \in DOMAIN r : r[i].kind \in Answers => r[i].kind # "timer"
    BY DEF Answers
  <2> QED
    BY <1>2, <1>4, <2>1 DEF Orderly
<1>6. Orderly(n, T, r, C, V)
  BY <1>2, <1>4, <1>5 DEF Orderly
<1>7. /\ Replies(T, r) = Replies(T, q)
      /\ \A K : Going(T, r, K) = Going(T, q, K)
      /\ Waiting(r)
  BY <1>1, Queued
<1> QED
  BY <1>6, <1>7 DEF Timed

(* Nothing under way and nothing to handle.                                *)
LEMMA Still ==
  /\ Replies({}, <<>>) = {} /\ Sent({}) = {} /\ ~Waiting(<<>>)
  /\ \A K : Going({}, <<>>, K) = {}
  BY DEF Replies, Sent, Waiting, Going

(* Each page brings the Cardinality of its own instance.                   *)
LEMMA CardinalityOfPages ==
  ASSUME NEW S
  PROVE  /\ Clients!Cardinality(S) = Cardinality(S)
         /\ Users!Cardinality(S) = Cardinality(S)
         /\ Shipments!Cardinality(S) = Cardinality(S)
         /\ Sms!Cardinality(S) = Cardinality(S)
  BY DEF Clients!Cardinality, Users!Cardinality, Shipments!Cardinality, Sms!Cardinality,
         Cardinality

(* The calls under way, counted.                                           *)
LEMMA Counted ==
  ASSUME NEW C, NEW V, NEW n, NEW T, NEW q, Orderly(n, T, q, C, V), NEW N
  PROVE  LET K == Named(C, N)
             some == {t \in T : t.call.name \in N}
             posted == {i \in DOMAIN q : q[i].kind = "finished" /\ q[i].call.name \in N}
             count == Cardinality(some) + Cardinality(posted)
         IN /\ count > 0 <=> Going(T, q, K) # {}
            /\ (\A x, y \in Going(T, q, K) : x = y) =>
                 count = IF Going(T, q, K) = {} THEN 0 ELSE 1
<1> DEFINE K == Named(C, N)
           some == {t \in T : t.call.name \in N}
           posted == {i \in DOMAIN q : q[i].kind = "finished" /\ q[i].call.name \in N}
<1>1. some = {t \in T : t.call \in K}
  BY DEF Named, Orderly, Task
<1>2. posted = {i \in DOMAIN q : q[i].kind = "finished" /\ q[i].call \in K}
  <2>1. ASSUME NEW i \in DOMAIN q, q[i].kind = "finished" PROVE q[i].call \in C
    <3>1. q[i] \in Posted(C, V) /\ q[i].kind # "timer"
      BY <2>1 DEF Orderly
    <3> QED
      BY <3>1, PostedFields
  <2> QED
    BY <2>1 DEF Named
<1>3. IsFiniteSet(some) /\ IsFiniteSet(posted)
  <2>1. IsFiniteSet(T) /\ some \subseteq T
    BY DEF Orderly
  <2>2. DOMAIN q = 1..Len(q) /\ Len(q) \in Nat
    BY DEF Orderly
  <2>3. IsFiniteSet(1..Len(q)) /\ posted \subseteq 1..Len(q)
    BY <2>2, FS_Interval
  <2> QED
    BY <2>1, <2>3, FS_Subset
<1>4. /\ \A t \in some : t.id \in Going(T, q, K)
      /\ \A i \in posted : q[i].id \in Going(T, q, K)
      /\ some = {} /\ posted = {} => Going(T, q, K) = {}
  BY <1>1, <1>2 DEF Going
<1>5. /\ \A t, u \in some : t.id = u.id => t = u
      /\ \A t \in some, i \in posted : t.id # q[i].id
      /\ \A i, j \in posted : q[i].id = q[j].id => i = j
  <2>1. \A t, u \in some : t.id = u.id => t = u
    BY DEF Orderly
  <2>2. \A t \in some, i \in posted : t.id # q[i].id
    BY DEF Orderly, Answers
  <2>3. ASSUME NEW i \in posted, NEW j \in posted, q[i].id = q[j].id PROVE i = j
    <3>1. /\ i \in Nat /\ j \in Nat
          /\ q[i].kind # "timer" /\ q[j].kind # "timer"
          /\ q[i].kind \notin Answers /\ q[j].kind \notin Answers
      BY DEF Orderly, Answers
    <3>2. ~(i < j) /\ ~(j < i)
      BY <2>3, <3>1 DEF Orderly
    <3> QED
      BY <3>1, <3>2
  <2> QED
    BY <2>1, <2>2, <2>3
<1> HIDE DEF K, some, posted
<1>6. Cardinality(some) \in Nat /\ Cardinality(posted) \in Nat
  BY <1>3, FS_CardinalityType
<1>7. /\ Cardinality(some) = 0 <=> some = {}
      /\ Cardinality(posted) = 0 <=> posted = {}
  BY <1>3, FS_EmptySet
<1>8. \A x, S : x \in S /\ (\A y \in S : y = x) => Cardinality(S) = 1
  <2>1. \A x, S : x \in S /\ (\A y \in S : y = x) => S = {x}
    OBVIOUS
  <2> QED
    BY <2>1, FS_Singleton
<1>9. ASSUME \A x, y \in Going(T, q, K) : x = y, Going(T, q, K) # {}
      PROVE  Cardinality(some) + Cardinality(posted) = 1
  <2>1. CASE some # {}
    <3>1. Cardinality(some) = 1
      BY <1>4, <1>5, <1>8, <1>9, <2>1
    <3>2. posted = {}
      BY <1>4, <1>5, <1>9, <2>1
    <3> QED
      BY <1>7, <3>1, <3>2
  <2>2. CASE posted # {}
    <3>1. Cardinality(posted) = 1
      BY <1>4, <1>5, <1>8, <1>9, <2>2
    <3>2. some = {}
      BY <1>4, <1>5, <1>9, <2>2
    <3> QED
      BY <1>7, <3>1, <3>2
  <2> QED
    BY <1>4, <1>9, <2>1, <2>2
<1>10. Cardinality(some) + Cardinality(posted) > 0 <=> Going(T, q, K) # {}
  BY <1>4, <1>6, <1>7
<1>11. Going(T, q, K) = {} => Cardinality(some) + Cardinality(posted) = 0
  BY <1>6, <1>10
<1> QED
  BY <1>9, <1>10, <1>11 DEF K, some, posted

(* ----------------------- steps of the worker --------------------------- *)

(* submit.                                                                 *)
LEMMA Submitted ==
  ASSUME NEW C, NEW V, NEW n, NEW T, NEW q, Orderly(n, T, q, C, V), NoValue \in V,
         NEW c \in C, NEW m, NEW U, m = n + 1,
         U = T \cup {[id |-> n + 1, call |-> c, stage |-> "sent",
                      kind |-> "result", value |-> NoValue]}
  PROVE  Orderly(m, U, q, C, V) /\ Asked(T, q, U, m, c)
<1>1. PICK t : t = [id |-> n + 1, call |-> c, stage |-> "sent",
                    kind |-> "result", value |-> NoValue]
  OBVIOUS
<1>2. n + 1 \in Nat
  BY DEF Orderly
<1>3. t \in Task(C, V) /\ t.id = m /\ t.stage = "sent" /\ t.call = c /\ U = T \cup {t}
  BY <1>1, <1>2 DEF Task, Answers
<1>4. ASSUME NEW W, W = T \cup {t}
      PROVE  /\ Orderly(m, W, q, C, V)
             /\ Sent(W) = Sent(T) \cup {t}
             /\ Replies(W, q) = Replies(T, q)
             /\ \A K : /\ t.call \in K => Going(W, q, K) = Going(T, q, K) \cup {t.id}
                       /\ t.call \notin K => Going(W, q, K) = Going(T, q, K)
  BY <1>3, <1>4, Submitting
<1>5. /\ Orderly(m, U, q, C, V)
      /\ Sent(U) = Sent(T) \cup {t}
      /\ Replies(U, q) = Replies(T, q)
      /\ \A K : /\ c \in K => Going(U, q, K) = Going(T, q, K) \cup {m}
                /\ c \notin K => Going(U, q, K) = Going(T, q, K)
  BY <1>3, <1>4
<1> QED
  BY <1>3, <1>5 DEF Asked

(* Ran, where u is what becomes of the call t.                             *)
LEMMA HasRun ==
  ASSUME NEW C, NEW V, NEW n, NEW T, NEW q, Orderly(n, T, q, C, V), NEW t \in Sent(T),
         NEW u \in Task(C, V), u.id = t.id, u.call = t.call, u.stage = "ran",
         NEW U, U = (T \ {t}) \cup {u}
  PROVE  /\ Orderly(n, U, q, C, V)
         /\ Sent(U) = Sent(T) \ {t}
         /\ \E a \in [kind : Answers, id : Nat, call : C, value : V] :
              /\ a.kind = u.kind /\ a.id = t.id /\ a.call = t.call /\ a.value = u.value
              /\ Replies(U, q) = Replies(T, q) \cup {a}
         /\ \A K : Going(U, q, K) = Going(T, q, K)
<1>1. /\ Orderly(n, U, q, C, V)
      /\ Sent(U) = Sent(T) \ {t}
      /\ Replies(U, q) = Replies(T, q) \cup {Reply(u)}
      /\ \A K : Going(U, q, K) = Going(T, q, K)
  BY Running
<1>2. PICK a : a = Reply(u)
  OBVIOUS
<1>3. /\ a \in [kind : Answers, id : Nat, call : C, value : V]
      /\ a.kind = u.kind /\ a.id = t.id /\ a.call = t.call /\ a.value = u.value
  BY <1>2 DEF Reply, Task
<1> QED
  BY <1>1, <1>2, <1>3

(* Told, where u is what becomes of the call t, and Ended: for the page    *)
(* nothing changes but the queue.                                          *)
LEMMA HasPosted ==
  ASSUME NEW C, NEW V, NEW n, NEW T, NEW q, Orderly(n, T, q, C, V), NEW t \in T, NEW U, NEW r,
         NEW u \in Task(C, V), u.id = t.id, u.call = t.call, u.stage = "told",
         \/ /\ t.stage = "ran" /\ U = (T \ {t}) \cup {u}
            /\ r = Append(q, [kind |-> t.kind, id |-> t.id, call |-> t.call, value |-> t.value])
         \/ /\ t.stage = "told" /\ U = T \ {t}
            /\ r = Append(q, [kind |-> "finished", id |-> t.id, call |-> t.call, value |-> t.value])
  PROVE  Orderly(n, U, r, C, V) /\ Same(T, q, U, r)
<1>1. t \in Task(C, V)
  BY DEF Orderly
<1>2. CASE /\ t.stage = "ran" /\ U = (T \ {t}) \cup {u}
           /\ r = Append(q, [kind |-> t.kind, id |-> t.id, call |-> t.call, value |-> t.value])
  <2>1. r = Append(q, Reply(t))
    BY <1>2 DEF Reply
  <2> QED
    BY <1>2, <2>1, Telling
<1>3. CASE /\ t.stage = "told" /\ U = T \ {t}
           /\ r = Append(q, [kind |-> "finished", id |-> t.id, call |-> t.call, value |-> t.value])
  <2>1. PICK e : e = [kind |-> "finished", id |-> t.id, call |-> t.call, value |-> t.value]
    OBVIOUS
  <2>2. e \in Posted(C, V) /\ e.kind = "finished" /\ e.id = t.id /\ e.call = t.call
    BY <1>1, <2>1 DEF Task, Posted
  <2>3. r = Append(q, e)
    BY <1>3, <2>1
  <2> QED
    BY <1>3, <2>2, <2>3, Ending
<1> QED
  BY <1>2, <1>3

(* ------------------------ the page of the clients ---------------------- *)

(* From before a step that only reads the queue to after it: calls and     *)
(* answers are the same, and perhaps a call is submitted.                  *)
LEMMA ClientsAsk ==
  ASSUME ClientsOnTheWay,
         Orderly(submitted, tasks, client_events, ClientsCalls, ClientsValues),
         Orderly(submitted, tasks, client_events', ClientsCalls, ClientsValues),
         Replies(tasks, client_events') = Replies(tasks, client_events),
         Going(tasks, client_events', ClientsCalls) = Going(tasks, client_events, ClientsCalls),
         changes' = changes, listed' = listed, ClientsClicks \in Nat,
         \/ Clients!refresh
         \/ /\ \E d \in 0..ClientsClicks : Clients!mutate(d)
            /\ missed' = missed /\ (Waiting(client_events') <=> Waiting(client_events))
  PROVE  /\ Orderly(submitted', tasks', client_events', ClientsCalls, ClientsValues)
         /\ ClientsOnTheWay'
<1> DEFINE K == ClientsCalls
           V == ClientsValues
<1>1. ASSUME ~busy
      PROVE  /\ Sent(tasks) = {} /\ Replies(tasks, client_events) = {}
             /\ Going(tasks, client_events, K) = {}
             /\ listed = changes \/ missed \/ Waiting(client_events)
  <2>1. Going(tasks, client_events, K) = {}
    BY <1>1 DEF ClientsOnTheWay, Flagged
  <2>2. /\ \A a \in Replies(tasks, client_events) : a.call \in K
        /\ \A t \in Sent(tasks) : t.call \in K
    BY OnTheWay DEF Task
  <2>3. Sent(tasks) = {} /\ Replies(tasks, client_events) = {}
    BY <2>1, <2>2, OnTheWay
  <2> QED
    BY <2>1, <2>3 DEF ClientsOnTheWay
<1>2. CASE UNCHANGED <<submitted, tasks, busy>>
  <2>1. Orderly(submitted', tasks', client_events', K, V)
    BY <1>2
  <2>2. \/ missed'
        \/ missed' = missed /\ (Waiting(client_events') <=> Waiting(client_events))
    <3>1. Clients!refresh => missed'
      BY <1>2 DEF Clients!refresh
    <3> QED
      BY <3>1
  <2>3. /\ Replies(tasks', client_events') = Replies(tasks, client_events)
        /\ Going(tasks', client_events', K) = Going(tasks, client_events, K)
        /\ Sent(tasks') = Sent(tasks)
    BY <1>2
  <2>4. ClientsOnTheWay'
    BY <1>2, <2>2, <2>3 DEF ClientsOnTheWay, Flagged
  <2> QED
    BY <2>1, <2>4
<1>3. ASSUME ~busy, busy', NEW c \in K, Clients!submit(c),
             missed' = missed,
             To([call |-> c], "list") \/ (Waiting(client_events') <=> Waiting(client_events))
      PROVE  Orderly(submitted', tasks', client_events', K, V) /\ ClientsOnTheWay'
  <2>1. /\ Orderly(submitted', tasks', client_events', K, V)
        /\ \E t \in Sent(tasks') : t.call = c
        /\ Replies(tasks', client_events') = Replies(tasks, client_events')
        /\ Going(tasks', client_events', K) = Going(tasks, client_events', K) \cup {submitted'}
    <3>1. /\ submitted' = submitted + 1
          /\ tasks' = tasks \cup {[id |-> submitted + 1, call |-> c, stage |-> "sent",
                                   kind |-> "result", value |-> NoValue]}
      BY <1>3 DEF Clients!submit
    <3>2. NoValue \in V /\ c \in K
      BY DEF ClientsValues
    <3> HIDE DEF K, V
    <3>3. Orderly(submitted, tasks, client_events', K, V)
      BY DEF K, V
    <3>4. /\ Orderly(submitted', tasks', client_events', K, V)
          /\ Asked(tasks, client_events', tasks', submitted', c)
      BY <3>1, <3>2, <3>3, Submitted
    <3> QED
      BY <3>2, <3>4 DEF Asked
  <2>2. /\ Replies(tasks', client_events') = {}
        /\ Going(tasks', client_events', K) = {submitted'}
        /\ \E t \in Sent(tasks') : t.call = c
    BY <1>1, <1>3, <2>1
  <2>3. Flagged(tasks', client_events', K, busy')
    BY <1>3, <2>2 DEF Flagged
  <2>4. \/ listed = changes \/ missed \/ Waiting(client_events')
        \/ \E t \in Sent(tasks') : To(t, "list")
    BY <1>1, <1>3, <2>2 DEF To
  <2> QED
    BY <1>3, <2>1, <2>2, <2>3, <2>4 DEF ClientsOnTheWay
<1>4. CASE Clients!refresh
  <2>1. Clients!call("list", 0) \in K /\ To([call |-> Clients!call("list", 0)], "list")
    BY DEF ClientsCalls, Clients!Call, Clients!call, To
  <2> QED
    BY <1>2, <1>3, <1>4, <2>1 DEF Clients!refresh, Clients!NoSubmit
<1>5. CASE \E d \in 0..ClientsClicks : Clients!mutate(d) /\ missed' = missed
             /\ (Waiting(client_events') <=> Waiting(client_events))
  <2>1. \A d \in 0..ClientsClicks : Clients!call("change", d) \in K
    BY DEF ClientsCalls, Clients!Call, Clients!call
  <2> QED
    BY <1>2, <1>3, <1>5, <2>1 DEF Clients!mutate, Clients!NoSubmit
<1> QED
  BY <1>4, <1>5

(* The steps of the pool.                                                  *)
LEMMA ClientsWork ==
  ASSUME ClientsInv, Clients!Work
  PROVE  /\ Orderly(submitted', tasks', client_events', ClientsCalls, ClientsValues)
         /\ alive' => ClientsOnTheWay'
<1> DEFINE K == ClientsCalls
           V == ClientsValues
<1>1. Orderly(submitted, tasks, client_events, K, V) /\ (alive => ClientsOnTheWay)
  BY DEF ClientsInv
<1>2. changes \in Nat
  BY DEF ClientsInv, Clients!TypeOK
<1>3. PICK t \in tasks : Clients!List(t) \/ Clients!Change(t) \/ Clients!End(t)
  BY DEF Clients!Work
<1>4. t \in Task(K, V)
  BY <1>1 DEF Orderly
<1>5. ASSUME NEW k \in Answers, NEW v \in V, Clients!Ran(t, k, v)
      PROVE  /\ Orderly(submitted', tasks', client_events', K, V)
             /\ t \in Sent(tasks) /\ Sent(tasks') = Sent(tasks) \ {t}
             /\ \E a : /\ a.kind = k /\ a.call = t.call /\ a.value = v
                       /\ Replies(tasks', client_events') = Replies(tasks, client_events) \cup {a}
             /\ Going(tasks', client_events', K) = Going(tasks, client_events, K)
             /\ client_events' = client_events
  <2>1. PICK u : u = [t EXCEPT !.stage = "ran", !.kind = k, !.value = v]
    OBVIOUS
  <2>2. /\ t \in Sent(tasks) /\ submitted' = submitted /\ client_events' = client_events
        /\ tasks' = (tasks \ {t}) \cup {u}
    BY <1>3, <1>5, <2>1 DEF Clients!Ran, Sent
  <2>3. /\ u \in Task(K, V) /\ u.id = t.id /\ u.call = t.call /\ u.stage = "ran"
        /\ u.kind = k /\ u.value = v
    BY <1>4, <1>5, <2>1 DEF Task
  <2> HIDE DEF K, V
  <2>4. /\ Orderly(submitted, tasks', client_events, K, V)
        /\ Sent(tasks') = Sent(tasks) \ {t}
        /\ \E a \in [kind : Answers, id : Nat, call : K, value : V] :
             /\ a.kind = u.kind /\ a.id = t.id /\ a.call = t.call /\ a.value = u.value
             /\ Replies(tasks', client_events) = Replies(tasks, client_events) \cup {a}
        /\ \A L : Going(tasks', client_events, L) = Going(tasks, client_events, L)
    BY <1>1, <2>2, <2>3, HasRun
  <2> QED
    BY <2>2, <2>3, <2>4
<1>6. CASE Clients!List(t)
  <2>1. PICK k \in Answers, v \in V : Clients!Ran(t, k, v) /\ (k = "result" => v = changes)
    BY <1>2, <1>6 DEF Clients!List, Answers, ClientsValues
  <2>2. t.call.name = "list" /\ UNCHANGED <<changes, listed, busy, alive, missed>>
    BY <1>6 DEF Clients!List, Clients!page
  <2>3. PICK a : /\ a.kind = k /\ a.call = t.call /\ a.value = v
                 /\ Replies(tasks', client_events') = Replies(tasks, client_events) \cup {a}
    BY <1>5, <2>1
  <2>4. /\ a \in Replies(tasks', client_events') /\ To(a, "list")
        /\ a.kind = "result" => a.value = changes
    BY <2>1, <2>2, <2>3 DEF To
  <2>5. ASSUME alive' PROVE ClientsOnTheWay'
    <3>1. Flagged(tasks', client_events', K, busy')
      BY <1>1, <1>5, <2>1, <2>2, <2>5 DEF ClientsOnTheWay, Flagged
    <3>2. \A b \in Replies(tasks', client_events') : Result(b, "list") => b.value = changes'
      BY <1>1, <2>2, <2>3, <2>4, <2>5 DEF ClientsOnTheWay, Result
    <3> QED
      BY <2>4, <3>1, <3>2 DEF ClientsOnTheWay
  <2> QED
    BY <1>5, <2>1, <2>5
<1>7. CASE Clients!Change(t)
  <2>1. PICK k \in Answers, v \in V :
          Clients!Ran(t, k, v) /\ (k = "result" \/ changes' = changes)
    BY <1>7 DEF Clients!Change, Answers, ClientsValues
  <2>2. t.call.name = "change" /\ UNCHANGED <<listed, busy, alive, missed>>
    BY <1>7 DEF Clients!Change
  <2>3. PICK a : /\ a.kind = k /\ a.call = t.call /\ a.value = v
                 /\ Replies(tasks', client_events') = Replies(tasks, client_events) \cup {a}
    BY <1>5, <2>1
  <2>4. a \in Replies(tasks', client_events') /\ a.call.name = "change" /\ a.kind = k
    BY <2>1, <2>2, <2>3
  <2>5. ASSUME alive' PROVE ClientsOnTheWay'
    <3>1. ClientsOnTheWay /\ t \in Sent(tasks) /\ t.call \in K
      BY <1>1, <1>4, <1>5, <2>1, <2>2, <2>5 DEF Task
    <3>2. Replies(tasks, client_events) = {}
      <4>1. ASSUME NEW b \in Replies(tasks, client_events) PROVE FALSE
        <5>1. /\ t.id \in Going(tasks, client_events, K)
              /\ b.id \in Going(tasks, client_events, K)
              /\ b.id # t.id
          BY <1>1, <3>1, OnTheWay
        <5> QED
          BY <3>1, <5>1 DEF ClientsOnTheWay, Flagged
      <4> QED
        BY <4>1
    <3>3. Flagged(tasks', client_events', K, busy')
      BY <1>5, <2>1, <2>2, <3>1 DEF ClientsOnTheWay, Flagged
    <3>4. \A b \in Replies(tasks', client_events') : ~Result(b, "list")
      BY <2>3, <2>4, <3>2 DEF Result
    <3>5. CASE k = "result"
      BY <2>4, <3>3, <3>4, <3>5 DEF ClientsOnTheWay, Result
    <3>6. CASE changes' = changes
      <4>1. \/ listed = changes \/ missed \/ Waiting(client_events)
            \/ \E u \in Sent(tasks) : To(u, "list")
        BY <3>1, <3>2 DEF ClientsOnTheWay
      <4>2. ~To(t, "list")
        BY <2>2 DEF To
      <4>3. (\E u \in Sent(tasks) : To(u, "list")) => \E u \in Sent(tasks') : To(u, "list")
        BY <1>5, <2>1, <4>2
      <4>4. client_events' = client_events
        BY <1>5, <2>1
      <4> QED
        BY <2>2, <3>3, <3>4, <3>6, <4>1, <4>3, <4>4 DEF ClientsOnTheWay
    <3> QED
      BY <2>1, <3>5, <3>6
  <2> QED
    BY <1>5, <2>1, <2>5
<1>8. CASE Clients!End(t)
  <2>1. PICK u : u = [t EXCEPT !.stage = "told"]
    OBVIOUS
  <2>2. /\ submitted' = submitted
        /\ \/ /\ t.stage = "ran" /\ tasks' = (tasks \ {t}) \cup {u}
              /\ client_events' = Append(client_events, [kind |-> t.kind, id |-> t.id,
                                                         call |-> t.call, value |-> t.value])
           \/ /\ t.stage = "told" /\ tasks' = tasks \ {t}
              /\ client_events' = Append(client_events, [kind |-> "finished", id |-> t.id,
                                                         call |-> t.call, value |-> t.value])
    BY <1>8, <2>1 DEF Clients!End, Clients!Told, Clients!Ended, Clients!Event
  <2>3. u \in Task(K, V) /\ u.id = t.id /\ u.call = t.call /\ u.stage = "told"
    BY <1>4, <2>1 DEF Task
  <2>4. UNCHANGED <<changes, listed, busy, alive, missed>>
    BY <1>8 DEF Clients!End, Clients!page
  <2> HIDE DEF K, V
  <2>5. /\ Orderly(submitted, tasks', client_events', K, V)
        /\ Same(tasks, client_events, tasks', client_events')
    BY <1>1, <1>3, <2>2, <2>3, HasPosted
  <2>6. ASSUME alive' PROVE ClientsOnTheWay'
    BY <1>1, <2>4, <2>5, <2>6 DEF ClientsOnTheWay, Flagged, Same
  <2> QED
    BY <2>2, <2>5, <2>6 DEF K, V
<1> QED
  BY <1>3, <1>6, <1>7, <1>8

(* Timers and events reach their handler.                                  *)
LEMMA ClientsDeliver ==
  ASSUME ClientsInv, Clients!Deliver, ClientsClicks \in Nat
  PROVE  /\ Orderly(submitted', tasks', client_events', ClientsCalls, ClientsValues)
         /\ alive' => ClientsOnTheWay'
         /\ listed' = listed \/ listed' = changes
<1> DEFINE K == ClientsCalls
           V == ClientsValues
<1>1. alive /\ client_events # <<>>
  BY DEF Clients!Deliver, Clients!Timer, Clients!Populate, Clients!Saved, Clients!Failed,
         Clients!Denied, Clients!Finished, Clients!Arrived, Clients!Delivered
<1>2. Orderly(submitted, tasks, client_events, K, V) /\ ClientsOnTheWay
  BY <1>1 DEF ClientsInv
<1>3. PICK h, r : h = Head(client_events) /\ r = Tail(client_events)
  OBVIOUS
<1>4. /\ h \in Posted(K, V)
      /\ Orderly(submitted, tasks, r, K, V)
      /\ Taken(tasks, client_events, h, r)
  <2> HIDE DEF K, V
  <2> QED
    BY <1>1, <1>2, <1>3, Delivering
<1>5. h.kind # "timer" => h.call \in K
  BY <1>4, PostedFields
<1>6. \A c \in K : c.name \in {"list", "change"}
  BY DEF ClientsCalls, Clients!Call
<1>7. CASE Clients!Timer
  <2>1. h.kind = "timer" /\ client_events' = r /\ Clients!refresh
        /\ changes' = changes /\ listed' = listed
    BY <1>3, <1>7 DEF Clients!Timer, Clients!Arrived, Clients!Delivered
  <2>2. /\ Orderly(submitted, tasks, client_events', K, V)
        /\ Replies(tasks, client_events') = Replies(tasks, client_events)
        /\ Going(tasks, client_events', K) = Going(tasks, client_events, K)
    BY <1>4, <2>1 DEF Taken
  <2> QED
    BY <1>2, <2>1, <2>2, ClientsAsk
<1>8. CASE Clients!Populate
  <2>1. /\ h.kind = "result" /\ h.call.name = "list"
        /\ client_events' = r /\ tasks' = tasks /\ submitted' = submitted
        /\ listed' = h.value /\ UNCHANGED <<changes, busy>>
    BY <1>3, <1>8 DEF Clients!Populate, Clients!Arrived, Clients!Delivered, Clients!Of,
                      Clients!NoSubmit
  <2>2. h \in Replies(tasks, client_events) /\ Result(h, "list")
    BY <1>4, <2>1 DEF Answers, Result, Taken
  <2>3. h.value = changes
    BY <1>2, <2>2 DEF ClientsOnTheWay
  <2>4. /\ Replies(tasks', client_events') = Replies(tasks, client_events) \ {h}
        /\ Going(tasks', client_events', K) = Going(tasks, client_events, K)
    BY <1>4, <2>1 DEF Answers, Taken
  <2>5. ClientsOnTheWay'
    BY <1>2, <2>1, <2>3, <2>4 DEF ClientsOnTheWay, Flagged
  <2> QED
    BY <1>4, <2>1, <2>3, <2>5
<1>9. CASE Clients!Saved
  <2>1. /\ h.kind = "result"
        /\ client_events' = Append(r, [kind |-> "timer", id |-> 0, call |-> Clients!call("list", 0),
                                       value |-> NoValue])
        /\ tasks' = tasks /\ submitted' = submitted
        /\ UNCHANGED <<changes, busy, listed>>
    BY <1>3, <1>9 DEF Clients!Saved, Clients!Arrived, Clients!Delivered, Clients!singleShot,
                      Clients!NoSubmit
  <2>2. PICK e \in [kind : {"timer"}, id : {0}, call : TimerCalls, value : {NoValue}] :
          client_events' = Append(r, e)
    BY <2>1 DEF TimerCalls, Clients!call
  <2>3. /\ Orderly(submitted, tasks, client_events', K, V)
        /\ Timed(tasks, r, client_events')
    <3> HIDE DEF K, V
    <3> QED
      BY <1>4, <2>2, Timing
  <2>4. /\ Replies(tasks', client_events') = Replies(tasks, client_events) \ {h}
        /\ Going(tasks', client_events', K) = Going(tasks, client_events, K)
    BY <1>4, <2>1, <2>3 DEF Answers, Taken, Timed
  <2>5. ClientsOnTheWay'
    BY <1>2, <2>1, <2>3, <2>4 DEF ClientsOnTheWay, Flagged, Timed
  <2> QED
    BY <2>1, <2>3, <2>5
<1>10. CASE Clients!Failed
  <2>1. /\ h.kind = "error"
        /\ client_events' = r /\ tasks' = tasks /\ submitted' = submitted
        /\ missed' = (missed \/ h.call.name = "list")
        /\ UNCHANGED <<changes, busy, listed>>
    BY <1>3, <1>10 DEF Clients!Failed, Clients!Arrived, Clients!Delivered, Clients!Of,
                       Clients!NoSubmit
  <2>2. /\ Replies(tasks', client_events') = Replies(tasks, client_events) \ {h}
        /\ Going(tasks', client_events', K) = Going(tasks, client_events, K)
        /\ Waiting(client_events') <=> Waiting(client_events)
    BY <1>4, <2>1 DEF Answers, Taken
  <2>3. /\ Flagged(tasks', client_events', K, busy')
        /\ \A a \in Replies(tasks', client_events') : Result(a, "list") => a.value = changes'
    BY <1>2, <2>1, <2>2 DEF ClientsOnTheWay, Flagged
  <2>4. ASSUME h.call.name = "list" PROVE ClientsOnTheWay'
    BY <2>1, <2>3, <2>4 DEF ClientsOnTheWay
  <2>5. ASSUME h.call.name = "change" PROVE ClientsOnTheWay'
    <3>1. ~To(h, "list") /\ ~Result(h, "change")
      BY <2>1, <2>5 DEF To, Result
    <3> QED
      BY <1>2, <2>1, <2>2, <2>3, <3>1 DEF ClientsOnTheWay
  <2>6. ClientsOnTheWay'
    BY <1>5, <1>6, <2>1, <2>4, <2>5
  <2> QED
    BY <1>4, <2>1, <2>6
<1>11. CASE Clients!Denied
  <2>1. /\ client_events' = r /\ tasks' = tasks /\ submitted' = submitted
        /\ alive' = FALSE /\ listed' = listed
    BY <1>3, <1>11 DEF Clients!Denied, Clients!NoSubmit
  <2> QED
    BY <1>4, <2>1
<1>12. CASE Clients!Finished
  <2>1. /\ h.kind = "finished"
        /\ client_events' = r /\ tasks' = tasks /\ submitted' = submitted
        /\ busy' = FALSE
        /\ UNCHANGED <<changes, listed, missed>>
    BY <1>3, <1>12 DEF Clients!Finished, Clients!Arrived, Clients!Delivered, Clients!NoSubmit
  <2>2. /\ Replies(tasks', client_events') = Replies(tasks, client_events)
        /\ Going(tasks', client_events', K) = Going(tasks, client_events, K) \ {h.id}
        /\ h.id \in Going(tasks, client_events, K)
        /\ Waiting(client_events') <=> Waiting(client_events)
    BY <1>4, <1>5, <2>1 DEF Taken
  <2>3. Going(tasks', client_events', K) = {}
    BY <1>2, <2>2 DEF ClientsOnTheWay, Flagged
  <2>4. ClientsOnTheWay'
    BY <1>2, <2>1, <2>2, <2>3 DEF ClientsOnTheWay, Flagged
  <2> QED
    BY <1>4, <2>1, <2>4
<1> QED
  BY <1>7, <1>8, <1>9, <1>10, <1>11, <1>12 DEF Clients!Deliver

(* The user acts.                                                          *)
LEMMA ClientsAct ==
  ASSUME ClientsInv, Clients!Act, ClientsClicks \in Nat
  PROVE  /\ Orderly(submitted', tasks', client_events', ClientsCalls, ClientsValues)
         /\ alive' => ClientsOnTheWay'
<1>1. /\ Orderly(submitted, tasks, client_events, ClientsCalls, ClientsValues)
      /\ alive => ClientsOnTheWay
      /\ editor.id \in 0..ClientsClicks
  BY DEF ClientsInv, Clients!TypeOK
<1>2. ASSUME alive, UNCHANGED <<client_events, changes, listed>>,
             \/ Clients!refresh
             \/ \E d \in 0..ClientsClicks : Clients!mutate(d) /\ UNCHANGED missed
      PROVE  /\ Orderly(submitted', tasks', client_events', ClientsCalls, ClientsValues)
             /\ ClientsOnTheWay'
  <2>1. /\ Orderly(submitted, tasks, client_events', ClientsCalls, ClientsValues)
        /\ Replies(tasks, client_events') = Replies(tasks, client_events)
        /\ Going(tasks, client_events', ClientsCalls) = Going(tasks, client_events, ClientsCalls)
        /\ Waiting(client_events') <=> Waiting(client_events)
    BY <1>1, <1>2
  <2> QED
    BY <1>1, <1>2, <2>1, ClientsAsk
<1>3. CASE Clients!Search
  BY <1>2, <1>3 DEF Clients!Search, Clients!Click
<1>4. CASE Clients!Activate
  BY <1>2, <1>4 DEF Clients!Activate, Clients!Click
<1>5. CASE Clients!Confirm
  BY <1>2, <1>5 DEF Clients!Confirm
<1>6. CASE Clients!Save
  BY <1>1, <1>2, <1>6 DEF Clients!Save, Clients!Click
<1>7. CASE Clients!Cancel \/ \E kind \in Clients!Kinds : Clients!Open(kind)
  <2>1. UNCHANGED <<submitted, tasks, client_events, changes, listed, busy, alive, missed>>
    BY <1>7 DEF Clients!Cancel, Clients!Open, Clients!worker
  <2>2. Orderly(submitted', tasks', client_events', ClientsCalls, ClientsValues)
    BY <1>1, <2>1
  <2>3. alive' => ClientsOnTheWay'
    BY <1>1, <2>1 DEF ClientsOnTheWay, Flagged
  <2> QED
    BY <2>2, <2>3
<1> QED
  BY <1>3, <1>4, <1>5, <1>6, <1>7 DEF Clients!Act

(* Every step of this page preserves its invariant.                        *)
LEMMA ClientsStep ==
  ASSUME ClientsInv, Clients!Next, ClientsClicks \in Nat
  PROVE  ClientsInv' /\ listed' >= listed
<1>1. Clients!TypeOK
  BY DEF ClientsInv
<1>2. /\ Orderly(submitted', tasks', client_events', ClientsCalls, ClientsValues)
      /\ alive' => ClientsOnTheWay'
  BY ClientsAct, ClientsWork, ClientsDeliver DEF Clients!Next
<1>3. \A t \in tasks' : t.id \in 1..submitted' /\ t.call \in Clients!Call
  BY <1>2 DEF Orderly, Task, ClientsCalls
<1>4. /\ changes' \in Nat /\ listed' \in -1..changes' /\ listed' >= listed
      /\ busy' \in BOOLEAN /\ alive' \in BOOLEAN /\ missed' \in BOOLEAN
      /\ editor' \in [kind : Clients!Kinds, id : 0..editors', saving : BOOLEAN]
      /\ editors' \in 0..clicks' /\ clicks' \in 0..ClientsClicks
  <2>1. CASE Clients!Act
    <3>1. changes' = changes /\ listed' = listed /\ alive' = alive
      BY <2>1 DEF Clients!Act, Clients!Search, Clients!Activate, Clients!Confirm, Clients!Save,
                  Clients!Cancel, Clients!Open, Clients!worker
    <3>2. busy' \in BOOLEAN /\ missed' \in BOOLEAN
      BY <1>1, <2>1 DEF Clients!TypeOK, Clients!Act, Clients!Search, Clients!Activate,
           Clients!Confirm, Clients!Save, Clients!Cancel, Clients!Open, Clients!refresh,
           Clients!mutate
    <3>3. /\ editor' \in [kind : Clients!Kinds, id : 0..editors', saving : BOOLEAN]
          /\ editors' \in 0..clicks' /\ clicks' \in 0..ClientsClicks
      <4>1. clicks' = clicks \/ (clicks < ClientsClicks /\ clicks' = clicks + 1)
        BY <2>1 DEF Clients!Act, Clients!Search, Clients!Activate, Clients!Confirm,
             Clients!Save, Clients!Cancel, Clients!Open, Clients!Click
      <4>2. \/ editors' = editors
            \/ editors' = editors + 1 /\ clicks' = clicks + 1
        BY <2>1 DEF Clients!Act, Clients!Search, Clients!Activate, Clients!Confirm,
             Clients!Save, Clients!Cancel, Clients!Open, Clients!Click
      <4>3. \/ editor' = editor \/ editor' = Clients!NoDialog
            \/ editor' = [editor EXCEPT !.saving = TRUE]
            \/ \E kind \in Clients!Kinds :
                 /\ editors' = editors + 1
                 /\ editor' = [kind |-> kind, id |-> editors + 1, saving |-> FALSE]
        BY <2>1 DEF Clients!Act, Clients!Search, Clients!Activate, Clients!Confirm,
             Clients!Save, Clients!Cancel, Clients!Open, Clients!Click
      <4>4. editors \in Nat /\ clicks \in Nat /\ editors <= clicks /\ clicks <= ClientsClicks
            /\ editor \in [kind : Clients!Kinds, id : 0..editors, saving : BOOLEAN]
        BY <1>1 DEF Clients!TypeOK
      <4>5. editors' \in 0..clicks' /\ clicks' \in 0..ClientsClicks
        BY <4>1, <4>2, <4>4
      <4>6. editor' \in [kind : Clients!Kinds, id : 0..editors', saving : BOOLEAN]
        <5>1. 0..editors \subseteq 0..editors' /\ 0 \in 0..editors'
          BY <4>2, <4>4
        <5>2. CASE editor' = editor \/ editor' = [editor EXCEPT !.saving = TRUE]
          BY <4>4, <5>1, <5>2
        <5>3. CASE editor' = Clients!NoDialog
          BY <5>1, <5>3 DEF Clients!NoDialog, Clients!Kinds
        <5>4. CASE \E kind \in Clients!Kinds :
                     /\ editors' = editors + 1
                     /\ editor' = [kind |-> kind, id |-> editors + 1, saving |-> FALSE]
          <6>1. editors + 1 \in 0..(editors + 1)
            BY <4>4
          <6> QED
            BY <5>4, <6>1
        <5> QED
          BY <4>3, <5>2, <5>3, <5>4
      <4> QED
        BY <4>5, <4>6
    <3> QED
      BY <1>1, <3>1, <3>2, <3>3 DEF Clients!TypeOK
  <2>2. CASE Clients!Work
    <3>1. PICK t \in tasks : Clients!List(t) \/ Clients!Change(t) \/ Clients!End(t)
      BY <2>2 DEF Clients!Work
    <3>2. /\ UNCHANGED <<listed, busy, alive, missed, editor, editors, clicks>>
          /\ changes' = changes \/ changes' = changes + 1
      BY <3>1 DEF Clients!List, Clients!Change, Clients!End, Clients!page
    <3> QED
      BY <1>1, <3>2 DEF Clients!TypeOK
  <2>3. CASE Clients!Deliver
    <3>1. listed' = listed \/ listed' = changes
      BY <2>3, ClientsDeliver
    <3>2. UNCHANGED <<changes, editors, clicks>>
      BY <2>3 DEF Clients!Deliver, Clients!Timer, Clients!Populate, Clients!Saved,
           Clients!Failed, Clients!Denied, Clients!Finished
    <3>3. busy' \in BOOLEAN /\ missed' \in BOOLEAN /\ alive' \in BOOLEAN
      BY <1>1, <2>3 DEF Clients!TypeOK, Clients!Deliver, Clients!Timer, Clients!Populate,
           Clients!Saved, Clients!Failed, Clients!Denied, Clients!Finished, Clients!refresh
    <3>4. \/ editor' = editor \/ editor' = Clients!NoDialog
          \/ editor' = [editor EXCEPT !.saving = FALSE]
      BY <2>3 DEF Clients!Deliver, Clients!Timer, Clients!Populate, Clients!Saved,
           Clients!Failed, Clients!Denied, Clients!Finished
    <3>5. editor' \in [kind : Clients!Kinds, id : 0..editors', saving : BOOLEAN]
      <4>1. editor \in [kind : Clients!Kinds, id : 0..editors, saving : BOOLEAN] /\ editors \in Nat
        BY <1>1 DEF Clients!TypeOK
      <4>2. Clients!NoDialog \in [kind : Clients!Kinds, id : 0..editors, saving : BOOLEAN]
        BY <4>1 DEF Clients!NoDialog, Clients!Kinds
      <4> QED
        BY <3>2, <3>4, <4>1, <4>2
    <3> QED
      BY <1>1, <3>1, <3>2, <3>3, <3>5 DEF Clients!TypeOK
  <2> QED
    BY <2>1, <2>2, <2>3 DEF Clients!Next
<1> QED
  BY <1>2, <1>3, <1>4 DEF ClientsInv, Clients!TypeOK

(* ------------------------- the page of the users ----------------------- *)

(* A call is submitted, from a queue that may have been read from before.  *)
LEMMA UsersAsk ==
  ASSUME Orderly(submitted, tasks, user_events', UsersCalls, UsersValues),
         NEW c \in UsersCalls, Users!submit(c)
  PROVE  /\ Orderly(submitted', tasks', user_events', UsersCalls, UsersValues)
         /\ Replies(tasks', user_events') = Replies(tasks, user_events')
         /\ Sent(tasks) \subseteq Sent(tasks')
         /\ \E t \in Sent(tasks') : t.call = c
         /\ c.name = "list" => Going(tasks', user_events', UsersLists) =
                                 Going(tasks, user_events', UsersLists) \cup {submitted'}
         /\ c.name # "list" => Going(tasks', user_events', UsersLists) =
                                 Going(tasks, user_events', UsersLists)
<1>1. /\ submitted' = submitted + 1
      /\ tasks' = tasks \cup {[id |-> submitted + 1, call |-> c, stage |-> "sent",
                               kind |-> "result", value |-> NoValue]}
  BY DEF Users!submit
<1>2. NoValue \in UsersValues
  BY DEF UsersValues
<1>3. /\ Orderly(submitted', tasks', user_events', UsersCalls, UsersValues)
      /\ Asked(tasks, user_events', tasks', submitted', c)
  BY <1>1, <1>2, Submitted
<1>4. c \in UsersLists <=> c.name = "list"
  BY DEF UsersLists, Named
<1> QED
  BY <1>3, <1>4 DEF Asked

(* A list that does not overlap another one will show every change.        *)
LEMMA UsersRefresh ==
  ASSUME Orderly(submitted, tasks, user_events, UsersCalls, UsersValues),
         Orderly(submitted, tasks, user_events', UsersCalls, UsersValues),
         Going(tasks, user_events', UsersLists) = Going(tasks, user_events, UsersLists),
         Users!refresh
  PROVE  /\ Orderly(submitted', tasks', user_events', UsersCalls, UsersValues)
         /\ Replies(tasks', user_events') = Replies(tasks, user_events')
         /\ ~overlapped' =>
              /\ \A x, y \in Going(tasks', user_events', UsersLists) : x = y
              /\ UserListOnTheWay'
<1>1. PICK c : c = [name |-> "list"]
  OBVIOUS
<1>2. c \in UsersCalls /\ c.name = "list" /\ Users!submit(c)
  BY <1>1 DEF UsersCalls, Users!Names, Users!refresh, Users!call
<1>3. /\ Orderly(submitted', tasks', user_events', UsersCalls, UsersValues)
      /\ Replies(tasks', user_events') = Replies(tasks, user_events')
      /\ \E t \in Sent(tasks') : t.call = c
      /\ Going(tasks', user_events', UsersLists) =
           Going(tasks, user_events', UsersLists) \cup {submitted'}
  BY <1>2, UsersAsk
<1>4. ASSUME ~overlapped' PROVE Going(tasks, user_events', UsersLists) = {}
  <2> DEFINE N == {"list"}
             some == {t \in tasks : t.call.name \in N}
             posted == {i \in DOMAIN user_events : user_events[i].kind = "finished"
                                                   /\ user_events[i].call.name \in N}
  <2>1. ~(Cardinality(some) + Cardinality(posted) > 0)
    <3>1. ~(Users!Cardinality(some) + Users!Cardinality(posted) > 0)
      BY <1>4 DEF Users!refresh, Users!UnderWay
    <3> HIDE DEF some, posted, N
    <3> QED
      BY <3>1, CardinalityOfPages
  <2>2. Cardinality(some) + Cardinality(posted) > 0
          <=> Going(tasks, user_events, Named(UsersCalls, N)) # {}
    BY Counted
  <2>3. UsersLists = Named(UsersCalls, N)
    BY DEF UsersLists
  <2> HIDE DEF some, posted, N
  <2> QED
    BY <2>1, <2>2, <2>3
<1>5. ASSUME ~overlapped'
      PROVE  /\ \A x, y \in Going(tasks', user_events', UsersLists) : x = y
             /\ UserListOnTheWay'
  <2>1. Going(tasks, user_events', UsersLists) = {}
    BY <1>4, <1>5
  <2>2. ASSUME NEW a \in Replies(tasks, user_events') PROVE ~To(a, "list")
    <3>1. /\ a \in [kind : Answers, id : Nat, call : UsersCalls, value : UsersValues]
          /\ a.call \in UsersLists => a.id \in Going(tasks, user_events', UsersLists)
      BY <2>2, OnTheWay
    <3>2. a.call \in UsersCalls
      BY <3>1
    <3> QED
      BY <2>1, <3>1, <3>2 DEF To, UsersLists, Named
  <2>3. \E t \in Sent(tasks') : To(t, "list")
    BY <1>2, <1>3 DEF To
  <2>4. \A a \in Replies(tasks', user_events') : ~Result(a, "list")
    BY <1>3, <2>2 DEF To, Result
  <2>5. UserListOnTheWay'
    BY <2>3, <2>4 DEF UserListOnTheWay
  <2> QED
    BY <1>3, <2>1, <2>5
<1> QED
  BY <1>3, <1>5

(* The user acts.                                                          *)
LEMMA UsersAct ==
  ASSUME UsersInv, Users!Act
  PROVE  /\ Orderly(submitted', tasks', user_events', UsersCalls, UsersValues)
         /\ alive' => UsersOnTheWay'
<1>1. /\ alive /\ UsersOnTheWay
      /\ Orderly(submitted, tasks, user_events, UsersCalls, UsersValues)
  BY DEF UsersInv, Users!Act, Users!Refresh, Users!Select, Users!OpenCreate, Users!Create,
         Users!Confirm, Users!Activate, Users!Cancel, Users!Ask, Users!Done, Users!Click,
         Users!Free
<1>2. ASSUME NEW c \in UsersCalls, Users!submit(c), c.name # "list",
             UNCHANGED <<user_events, changes, user_list, alive, made, seen, overlapped, missed>>
      PROVE  /\ Orderly(submitted', tasks', user_events', UsersCalls, UsersValues)
             /\ UsersOnTheWay'
  <2>1. Orderly(submitted, tasks, user_events', UsersCalls, UsersValues)
    BY <1>1, <1>2
  <2>2. /\ Orderly(submitted', tasks', user_events', UsersCalls, UsersValues)
        /\ Replies(tasks', user_events') = Replies(tasks, user_events')
        /\ Sent(tasks) \subseteq Sent(tasks')
        /\ Going(tasks', user_events', UsersLists) = Going(tasks, user_events', UsersLists)
    BY <1>2, <2>1, UsersAsk
  <2>3. /\ PasswordsOnTheWay'
        /\ \A a \in Replies(tasks', user_events') : Result(a, "list") => a.value \in 0..changes'
    BY <1>1, <1>2, <2>2 DEF UsersOnTheWay, PasswordsOnTheWay
  <2>4. ASSUME ~overlapped'
        PROVE  /\ \A x, y \in Going(tasks', user_events', UsersLists) : x = y
               /\ UserListOnTheWay'
    BY <1>1, <1>2, <2>2, <2>4 DEF UsersOnTheWay, UserListOnTheWay
  <2> QED
    BY <2>2, <2>3, <2>4 DEF UsersOnTheWay
<1>3. CASE Users!Refresh
  <2>1. /\ Users!refresh
        /\ UNCHANGED <<user_events, changes, user_list, alive, made, seen, missed>>
    BY <1>3 DEF Users!Refresh
  <2>2. Orderly(submitted, tasks, user_events', UsersCalls, UsersValues)
        /\ Going(tasks, user_events', UsersLists) = Going(tasks, user_events, UsersLists)
    BY <1>1, <2>1
  <2>3. /\ Orderly(submitted', tasks', user_events', UsersCalls, UsersValues)
        /\ Replies(tasks', user_events') = Replies(tasks, user_events')
        /\ ~overlapped' =>
              /\ \A x, y \in Going(tasks', user_events', UsersLists) : x = y
              /\ UserListOnTheWay'
    BY <1>1, <2>1, <2>2, UsersRefresh
  <2>4. PasswordsOnTheWay'
    BY <1>1, <2>1, <2>3 DEF UsersOnTheWay, PasswordsOnTheWay
  <2>5. \A a \in Replies(tasks', user_events') : Result(a, "list") => a.value \in 0..changes'
    BY <1>1, <2>1, <2>3 DEF UsersOnTheWay
  <2> QED
    BY <2>3, <2>4, <2>5 DEF UsersOnTheWay
<1>4. CASE Users!Create \/ Users!Confirm \/ Users!Activate
  <2>1. PICK name \in {"create", "reset", "mutate"} :
          /\ Users!submit([name |-> name])
          /\ UNCHANGED <<user_events, changes, user_list, alive, made, seen, overlapped, missed>>
    BY <1>4 DEF Users!Create, Users!Confirm, Users!Activate, Users!mutate, Users!call,
                Users!history
  <2>2. [name |-> name] \in UsersCalls /\ [name |-> name].name # "list"
    BY DEF UsersCalls, Users!Names
  <2> QED
    BY <1>2, <2>1, <2>2
<1>5. CASE \/ Users!Select \/ Users!OpenCreate \/ Users!Cancel
           \/ \E kind \in {"reset", "mutate"} : Users!Ask(kind)
           \/ \E id \in passwords : Users!Done(id)
  <2>1. UNCHANGED <<submitted, tasks, user_events, changes, user_list, alive, made, seen,
                    overlapped, missed>>
    BY <1>5 DEF Users!Select, Users!OpenCreate, Users!Cancel, Users!Ask, Users!Done,
                Users!worker, Users!history
  <2> QED
    BY <1>1, <2>1 DEF UsersOnTheWay, PasswordsOnTheWay, UserListOnTheWay, Sent, Replies, Going,
                      Waiting
<1> QED
  BY <1>3, <1>4, <1>5 DEF Users!Act

(* The steps of the pool.                                                  *)
LEMMA UsersWork ==
  ASSUME UsersInv, Users!Work
  PROVE  /\ Orderly(submitted', tasks', user_events', UsersCalls, UsersValues)
         /\ UsersOnTheWay'
         /\ \/ changes' = changes /\ made' = made
            \/ changes' = changes + 1 /\ \E id \in 1..submitted : made' \in {made, made \cup {id}}
<1> DEFINE K == UsersCalls
           V == UsersValues
<1>1. Orderly(submitted, tasks, user_events, K, V) /\ UsersOnTheWay
  BY DEF UsersInv, Users!Work
<1>2. changes \in Nat
  BY DEF UsersInv, Users!TypeOK
<1>3. PICK t \in tasks : Users!List(t) \/ Users!Change(t) \/ Users!End(t)
  BY DEF Users!Work
<1>4. t \in Task(K, V) /\ t.id \in 1..submitted
  BY <1>1 DEF Orderly
<1>5. UNCHANGED <<user_list, alive, seen, overlapped, missed>>
  BY DEF Users!Work, Users!screen
<1>6. ASSUME NEW k \in Answers, NEW v \in V, Users!Ran(t, k, v)
      PROVE  /\ Orderly(submitted', tasks', user_events', K, V)
             /\ t \in Sent(tasks) /\ Sent(tasks') = Sent(tasks) \ {t}
             /\ \E a : /\ a.kind = k /\ a.id = t.id /\ a.call = t.call /\ a.value = v
                       /\ Replies(tasks', user_events') = Replies(tasks, user_events) \cup {a}
             /\ Going(tasks', user_events', UsersLists) = Going(tasks, user_events, UsersLists)
             /\ user_events' = user_events
  <2>1. PICK u : u = [t EXCEPT !.stage = "ran", !.kind = k, !.value = v]
    OBVIOUS
  <2>2. /\ t \in Sent(tasks) /\ submitted' = submitted /\ user_events' = user_events
        /\ tasks' = (tasks \ {t}) \cup {u}
    BY <1>3, <1>6, <2>1 DEF Users!Ran, Sent
  <2>3. /\ u \in Task(K, V) /\ u.id = t.id /\ u.call = t.call /\ u.stage = "ran"
        /\ u.kind = k /\ u.value = v
    BY <1>4, <1>6, <2>1 DEF Task
  <2> HIDE DEF K, V
  <2>4. /\ Orderly(submitted, tasks', user_events, K, V)
        /\ Sent(tasks') = Sent(tasks) \ {t}
        /\ \E a \in [kind : Answers, id : Nat, call : K, value : V] :
             /\ a.kind = u.kind /\ a.id = t.id /\ a.call = t.call /\ a.value = u.value
             /\ Replies(tasks', user_events) = Replies(tasks, user_events) \cup {a}
        /\ \A L : Going(tasks', user_events, L) = Going(tasks, user_events, L)
    BY <1>1, <2>2, <2>3, HasRun
  <2> QED
    BY <2>2, <2>3, <2>4
<1>7. CASE Users!List(t)
  <2>1. PICK k \in Answers : Users!Ran(t, k, changes)
    BY <1>7 DEF Users!List, Answers
  <2>2. changes \in V /\ t.call.name = "list" /\ UNCHANGED <<changes, made>>
    BY <1>2, <1>7 DEF Users!List, UsersValues
  <2>3. PICK a : /\ a.kind = k /\ a.call = t.call /\ a.value = changes
                 /\ Replies(tasks', user_events') = Replies(tasks, user_events) \cup {a}
    BY <1>6, <2>1, <2>2
  <2>4. a \in Replies(tasks', user_events') /\ To(a, "list") /\ ~Password(a)
    BY <2>2, <2>3 DEF To, Password
  <2>5. PasswordsOnTheWay'
    BY <1>1, <1>5, <2>2, <2>3, <2>4 DEF UsersOnTheWay, PasswordsOnTheWay
  <2>6. \A b \in Replies(tasks', user_events') : Result(b, "list") => b.value \in 0..changes'
    <3>1. changes \in 0..changes
      BY <1>2
    <3> QED
      BY <1>1, <2>2, <2>3, <3>1 DEF UsersOnTheWay
  <2>7. ASSUME ~overlapped' PROVE UserListOnTheWay'
    <3>1. UserListOnTheWay
      BY <1>1, <1>5, <2>7 DEF UsersOnTheWay
    <3>2. user_events' = user_events
      BY <1>6, <2>1, <2>2
    <3> QED
      BY <1>5, <2>2, <2>3, <2>4, <3>1, <3>2 DEF UserListOnTheWay
  <2> QED
    BY <1>1, <1>5, <1>6, <2>1, <2>2, <2>5, <2>6, <2>7 DEF UsersOnTheWay
<1>8. CASE Users!Change(t)
  <2>1. PICK k \in Answers :
          /\ Users!Ran(t, k, NoValue)
          /\ \/ /\ k = "result" /\ changes' = changes + 1
                /\ made' = IF t.call.name = "mutate" THEN made ELSE made \cup {t.id}
             \/ k # "result" /\ UNCHANGED <<changes, made>>
    BY <1>8 DEF Users!Change, Answers
  <2>2. /\ NoValue \in V /\ t.call.name # "list"
        /\ t.call.name \in {"create", "reset", "mutate"}
    BY <1>4, <1>8 DEF Users!Change, UsersValues, Task, UsersCalls, Users!Names
  <2>3. PICK a : /\ a.kind = k /\ a.id = t.id /\ a.call = t.call
                 /\ Replies(tasks', user_events') = Replies(tasks, user_events) \cup {a}
    BY <1>6, <2>1, <2>2
  <2>4. a \in Replies(tasks', user_events') /\ ~To(a, "list")
    BY <2>2, <2>3 DEF To
  <2>5. made' \in {made, made \cup {t.id}}
    BY <2>1
  <2>6. PasswordsOnTheWay'
    <3>1. ASSUME NEW id \in made' \ seen'
          PROVE  \E b \in Replies(tasks', user_events') : b.id = id /\ Password(b)
      <4>1. CASE id \in made
        BY <1>1, <1>5, <2>3, <3>1, <4>1 DEF UsersOnTheWay, PasswordsOnTheWay
      <4>2. CASE id \notin made
        <5>1. id = t.id /\ k = "result" /\ t.call.name \in {"create", "reset"}
          BY <2>1, <2>2, <3>1, <4>2
        <5> QED
          BY <2>3, <2>4, <5>1 DEF Password
      <4> QED
        BY <4>1, <4>2
    <3>2. ASSUME NEW b \in Replies(tasks', user_events'), Password(b) PROVE b.id \in made'
      <4>1. CASE b \in Replies(tasks, user_events)
        BY <1>1, <2>5, <3>2, <4>1 DEF UsersOnTheWay, PasswordsOnTheWay
      <4>2. CASE b = a
        BY <2>1, <2>3, <3>2, <4>2 DEF Password
      <4> QED
        BY <2>3, <3>2, <4>1, <4>2
    <3> QED
      BY <3>1, <3>2 DEF PasswordsOnTheWay
  <2>7. \A b \in Replies(tasks', user_events') : Result(b, "list") => b.value \in 0..changes'
    <3>1. 0..changes \subseteq 0..changes'
      BY <1>2, <2>1
    <3>2. ~Result(a, "list")
      BY <2>4 DEF To, Result
    <3> QED
      BY <1>1, <2>3, <3>1, <3>2 DEF UsersOnTheWay
  <2>8. ASSUME ~overlapped' PROVE UserListOnTheWay'
    <3>1. UserListOnTheWay /\ user_events' = user_events
      BY <1>1, <1>5, <1>6, <2>1, <2>2, <2>8 DEF UsersOnTheWay
    <3>2. CASE k = "result"
      BY <2>3, <2>4, <3>2 DEF UserListOnTheWay
    <3>3. CASE k # "result"
      <4>1. changes' = changes /\ ~Result(a, "list") /\ ~To(t, "list")
        BY <2>1, <2>2, <2>3, <3>3 DEF Result, To
      <4>2. Sent(tasks') = Sent(tasks) \ {t}
        BY <1>6, <2>1, <2>2
      <4> QED
        BY <1>5, <2>3, <3>1, <4>1, <4>2 DEF UserListOnTheWay
    <3> QED
      BY <3>2, <3>3
  <2> QED
    BY <1>1, <1>4, <1>5, <1>6, <2>1, <2>2, <2>5, <2>6, <2>7, <2>8 DEF UsersOnTheWay
<1>9. CASE Users!End(t)
  <2>1. PICK u : u = [t EXCEPT !.stage = "told"]
    OBVIOUS
  <2>2. /\ submitted' = submitted
        /\ \/ /\ t.stage = "ran" /\ tasks' = (tasks \ {t}) \cup {u}
              /\ user_events' = Append(user_events, [kind |-> t.kind, id |-> t.id,
                                                     call |-> t.call, value |-> t.value])
           \/ /\ t.stage = "told" /\ tasks' = tasks \ {t}
              /\ user_events' = Append(user_events, [kind |-> "finished", id |-> t.id,
                                                     call |-> t.call, value |-> t.value])
    BY <1>9, <2>1 DEF Users!End, Users!Told, Users!Ended, Users!Event
  <2>3. u \in Task(K, V) /\ u.id = t.id /\ u.call = t.call /\ u.stage = "told"
    BY <1>4, <2>1 DEF Task
  <2>4. UNCHANGED <<changes, made>>
    BY <1>9 DEF Users!End
  <2> HIDE DEF K, V
  <2>5. /\ Orderly(submitted, tasks', user_events', K, V)
        /\ Same(tasks, user_events, tasks', user_events')
    BY <1>1, <1>3, <2>2, <2>3, HasPosted
  <2>6. UsersOnTheWay'
    BY <1>1, <1>5, <2>4, <2>5
      DEF UsersOnTheWay, PasswordsOnTheWay, UserListOnTheWay, Same
  <2> QED
    BY <2>2, <2>4, <2>5, <2>6 DEF K, V
<1> QED
  BY <1>3, <1>7, <1>8, <1>9

(* Timers and events reach their handler.                                  *)
LEMMA UsersDeliver ==
  ASSUME UsersInv, Users!Deliver
  PROVE  /\ Orderly(submitted', tasks', user_events', UsersCalls, UsersValues)
         /\ alive' => UsersOnTheWay'
         /\ user_list' = user_list \/ user_list' \in 0..changes
         /\ seen' = seen \/ \E id \in made : seen' = seen \cup {id}
<1> DEFINE K == UsersCalls
           V == UsersValues
<1>1. alive /\ user_events # <<>> /\ user_events' = Tail(user_events)
  BY DEF Users!Deliver, Users!Timer, Users!Populate, Users!UserCreated, Users!PasswordReset,
         Users!Mutated, Users!Failed, Users!Denied, Users!Finished, Users!Arrived,
         Users!Delivered
<1>2. Orderly(submitted, tasks, user_events, K, V) /\ UsersOnTheWay
  BY <1>1 DEF UsersInv
<1>3. PICK h, r : h = Head(user_events) /\ r = Tail(user_events)
  OBVIOUS
<1>4. /\ h \in Posted(K, V)
      /\ Orderly(submitted, tasks, user_events', K, V)
      /\ Taken(tasks, user_events, h, user_events')
  <2>1. user_events' = r
    BY <1>1, <1>3
  <2> HIDE DEF K, V
  <2>2. h \in Posted(K, V) /\ Orderly(submitted, tasks, r, K, V)
        /\ Taken(tasks, user_events, h, r)
    BY <1>1, <1>2, <1>3, Delivering
  <2> QED
    BY <2>1, <2>2
<1>5. ASSUME Users!refresh, UNCHANGED <<changes, user_list, alive, made, missed>>,
             \/ h.kind = "timer" /\ seen' = seen
             \/ h.kind = "result" /\ (\/ seen' = seen /\ ~Password(h)
                                     \/ seen' = seen \cup {h.id})
      PROVE  /\ Orderly(submitted', tasks', user_events', K, V)
             /\ UsersOnTheWay'
  <2>1. /\ Going(tasks, user_events', UsersLists) = Going(tasks, user_events, UsersLists)
        /\ h.kind # "timer" => Replies(tasks, user_events') = Replies(tasks, user_events) \ {h}
        /\ h.kind = "timer" => Replies(tasks, user_events') = Replies(tasks, user_events)
    BY <1>4, <1>5 DEF Taken, Answers
  <2>2. /\ Orderly(submitted', tasks', user_events', K, V)
        /\ Replies(tasks', user_events') = Replies(tasks, user_events')
        /\ ~overlapped' =>
              /\ \A x, y \in Going(tasks', user_events', UsersLists) : x = y
              /\ UserListOnTheWay'
    BY <1>2, <1>4, <1>5, <2>1, UsersRefresh
  <2>3. PasswordsOnTheWay'
    BY <1>2, <1>5, <2>1, <2>2 DEF UsersOnTheWay, PasswordsOnTheWay
  <2>4. \A a \in Replies(tasks', user_events') : Result(a, "list") => a.value \in 0..changes'
    BY <1>2, <1>5, <2>1, <2>2 DEF UsersOnTheWay
  <2> QED
    BY <2>2, <2>3, <2>4 DEF UsersOnTheWay
<1>6. CASE Users!Timer
  <2>1. /\ h.kind = "timer" /\ Users!refresh
        /\ UNCHANGED <<changes, user_list, alive, made, seen, missed>>
    BY <1>3, <1>6 DEF Users!Timer, Users!Arrived, Users!Delivered
  <2> QED
    BY <1>5, <2>1
<1>7. CASE Users!UserCreated \/ Users!PasswordReset
  <2>1. /\ h.kind = "result" /\ h.call.name \in {"create", "reset"} /\ Users!refresh
        /\ UNCHANGED <<changes, user_list, alive, made, missed>>
        /\ seen' = seen \cup {h.id}
    BY <1>3, <1>7 DEF Users!UserCreated, Users!PasswordReset, Users!Arrived, Users!Delivered,
                      Users!Of, Users!show_password
  <2>2. h \in Replies(tasks, user_events) /\ Password(h)
    BY <1>4, <2>1 DEF Taken, Answers, Password
  <2>3. h.id \in made
    BY <1>2, <2>2 DEF UsersOnTheWay, PasswordsOnTheWay
  <2> QED
    BY <1>5, <2>1, <2>3
<1>8. CASE Users!Mutated
  <2>1. /\ h.kind = "result" /\ h.call.name = "mutate" /\ Users!refresh
        /\ UNCHANGED <<changes, user_list, alive, made, seen, missed>>
    BY <1>3, <1>8 DEF Users!Mutated, Users!Arrived, Users!Delivered, Users!Of
  <2>2. ~Password(h)
    BY <2>1 DEF Password
  <2> QED
    BY <1>5, <2>1, <2>2
<1>9. CASE Users!Populate
  <2>1. /\ h.kind = "result" /\ h.call.name = "list"
        /\ tasks' = tasks /\ submitted' = submitted
        /\ user_list' = h.value /\ missed' = FALSE
        /\ UNCHANGED <<changes, alive, made, seen, overlapped>>
    BY <1>3, <1>9 DEF Users!Populate, Users!Arrived, Users!Delivered, Users!Of, Users!NoSubmit
  <2>2. /\ h \in Replies(tasks, user_events) /\ Result(h, "list") /\ ~Password(h)
        /\ Replies(tasks', user_events') = Replies(tasks, user_events) \ {h}
        /\ Going(tasks', user_events', UsersLists) = Going(tasks, user_events, UsersLists)
        /\ Waiting(user_events') <=> Waiting(user_events)
    BY <1>4, <2>1 DEF Taken, Answers, Result, Password
  <2>3. h.value \in 0..changes
    BY <1>2, <2>2 DEF UsersOnTheWay
  <2>4. PasswordsOnTheWay'
    BY <1>2, <2>1, <2>2 DEF UsersOnTheWay, PasswordsOnTheWay
  <2>5. \A a \in Replies(tasks', user_events') : Result(a, "list") => a.value \in 0..changes'
    BY <1>2, <2>1, <2>2 DEF UsersOnTheWay
  <2>6. ASSUME ~overlapped'
        PROVE  /\ \A x, y \in Going(tasks', user_events', UsersLists) : x = y
               /\ UserListOnTheWay'
    <3>1. UserListOnTheWay /\ \A x, y \in Going(tasks, user_events, UsersLists) : x = y
      BY <1>2, <2>1, <2>6 DEF UsersOnTheWay
    <3>2. To(h, "list")
      BY <2>1 DEF To
    <3>3. UserListOnTheWay'
      BY <2>1, <2>2, <3>1, <3>2 DEF UserListOnTheWay
    <3> QED
      BY <2>2, <3>1, <3>3
  <2> QED
    BY <1>4, <2>1, <2>3, <2>4, <2>5, <2>6 DEF UsersOnTheWay
<1>10. CASE Users!Failed
  <2>1. /\ h.kind = "error"
        /\ tasks' = tasks /\ submitted' = submitted
        /\ missed' = (missed \/ h.call.name = "list")
        /\ UNCHANGED <<changes, user_list, alive, made, seen, overlapped>>
    BY <1>3, <1>10 DEF Users!Failed, Users!Arrived, Users!Delivered, Users!Of, Users!NoSubmit
  <2>2. /\ Replies(tasks', user_events') = Replies(tasks, user_events) \ {h}
        /\ Going(tasks', user_events', UsersLists) = Going(tasks, user_events, UsersLists)
        /\ Waiting(user_events') <=> Waiting(user_events)
        /\ ~Password(h)
    BY <1>4, <2>1 DEF Taken, Answers, Password
  <2>3. PasswordsOnTheWay'
    BY <1>2, <2>1, <2>2 DEF UsersOnTheWay, PasswordsOnTheWay
  <2>4. \A a \in Replies(tasks', user_events') : Result(a, "list") => a.value \in 0..changes'
    BY <1>2, <2>1, <2>2 DEF UsersOnTheWay
  <2>5. ASSUME ~overlapped'
        PROVE  /\ \A x, y \in Going(tasks', user_events', UsersLists) : x = y
               /\ UserListOnTheWay'
    <3>1. UserListOnTheWay /\ \A x, y \in Going(tasks, user_events, UsersLists) : x = y
      BY <1>2, <2>1, <2>5 DEF UsersOnTheWay
    <3>2. (missed => missed') /\ (To(h, "list") => missed')
      BY <2>1 DEF To
    <3>3. UserListOnTheWay'
      BY <2>1, <2>2, <3>1, <3>2 DEF UserListOnTheWay
    <3> QED
      BY <2>2, <3>1, <3>3
  <2> QED
    BY <1>4, <2>1, <2>3, <2>4, <2>5 DEF UsersOnTheWay
<1>11. CASE Users!Denied
  <2>1. /\ tasks' = tasks /\ submitted' = submitted /\ alive' = FALSE
        /\ UNCHANGED <<user_list, seen>>
    BY <1>11 DEF Users!Denied, Users!NoSubmit, Users!history
  <2> QED
    BY <1>4, <2>1
<1>12. CASE Users!Finished
  <2>1. /\ h.kind = "finished"
        /\ tasks' = tasks /\ submitted' = submitted
        /\ UNCHANGED <<changes, user_list, alive, made, seen, overlapped, missed>>
    BY <1>3, <1>12 DEF Users!Finished, Users!Arrived, Users!Delivered, Users!NoSubmit,
                       Users!history
  <2>2. /\ Replies(tasks', user_events') = Replies(tasks, user_events)
        /\ Going(tasks', user_events', UsersLists) \subseteq Going(tasks, user_events, UsersLists)
        /\ Waiting(user_events') <=> Waiting(user_events)
    BY <1>4, <2>1 DEF Taken
  <2>3. UsersOnTheWay'
    BY <1>2, <2>1, <2>2 DEF UsersOnTheWay, PasswordsOnTheWay, UserListOnTheWay
  <2> QED
    BY <1>4, <2>1, <2>3
<1> QED
  BY <1>6, <1>7, <1>8, <1>9, <1>10, <1>11, <1>12 DEF Users!Deliver

(* Every step of this page preserves its invariant.                        *)
LEMMA UsersStep ==
  ASSUME UsersInv, Users!Next, UsersClicks \in Nat
  PROVE  UsersInv'
<1>1. Users!TypeOK /\ submitted \in Nat
  BY DEF UsersInv, Orderly
<1>2. /\ Orderly(submitted', tasks', user_events', UsersCalls, UsersValues)
      /\ alive' => UsersOnTheWay'
  BY UsersAct, UsersWork, UsersDeliver DEF Users!Next
<1>3. submitted' \in Nat /\ \A t \in tasks' : t.id \in 1..submitted' /\ t.call.name \in Users!Names
  BY <1>2 DEF Orderly, Task, UsersCalls
<1>4. submitted' = submitted \/ submitted' = submitted + 1
  <2>1. CASE Users!Act
    BY <2>1 DEF Users!Act, Users!Refresh, Users!Select, Users!OpenCreate, Users!Create,
         Users!Confirm, Users!Activate, Users!Cancel, Users!Ask, Users!Done, Users!worker,
         Users!refresh, Users!mutate, Users!submit
  <2>2. CASE Users!Work
    BY <2>2 DEF Users!Work, Users!List, Users!Change, Users!End, Users!Ran, Users!Told,
         Users!Ended
  <2>3. CASE Users!Deliver
    BY <2>3 DEF Users!Deliver, Users!Timer, Users!Populate, Users!UserCreated,
         Users!PasswordReset, Users!Mutated, Users!Failed, Users!Denied, Users!Finished,
         Users!refresh, Users!submit, Users!NoSubmit
  <2> QED
    BY <2>1, <2>2, <2>3 DEF Users!Next
<1>5. 0..submitted \subseteq 0..submitted' /\ 1..submitted \subseteq 1..submitted'
  BY <1>1, <1>3, <1>4
<1>6. changes' \in Nat /\ user_list' \in -1..changes'
  <2>1. changes \in Nat /\ user_list \in -1..changes
    BY <1>1 DEF Users!TypeOK
  <2>2. CASE Users!Act
    <3>1. changes' = changes /\ user_list' = user_list
      BY <2>2 DEF Users!Act, Users!Refresh, Users!Select, Users!OpenCreate, Users!Create,
           Users!Confirm, Users!Activate, Users!Cancel, Users!Ask, Users!Done
    <3> QED
      BY <2>1, <3>1
  <2>3. CASE Users!Work
    <3>1. changes' \in {changes, changes + 1}
      BY <2>3, UsersWork
    <3>2. user_list' = user_list
      BY <2>3 DEF Users!Work, Users!screen
    <3> QED
      BY <2>1, <3>1, <3>2
  <2>4. CASE Users!Deliver
    <3>1. user_list' = user_list \/ user_list' \in 0..changes
      BY <2>4, UsersDeliver
    <3>2. changes' = changes
      BY <2>4 DEF Users!Deliver, Users!Timer, Users!Populate, Users!UserCreated,
           Users!PasswordReset, Users!Mutated, Users!Failed, Users!Denied, Users!Finished
    <3> QED
      BY <2>1, <3>1, <3>2
  <2> QED
    BY <2>2, <2>3, <2>4 DEF Users!Next
<1>7. {enabled', actions', alive', overlapped', missed'} \subseteq BOOLEAN
  <2>1. /\ enabled \in BOOLEAN /\ actions \in BOOLEAN /\ alive \in BOOLEAN
        /\ overlapped \in BOOLEAN /\ missed \in BOOLEAN
    BY <1>1 DEF Users!TypeOK
  <2>2. /\ (user_list' >= 0) \in BOOLEAN /\ (Users!UnderWay({"list"}) > 0) \in BOOLEAN
        /\ (missed \/ Users!Of("list")) \in BOOLEAN
    <3>1. \A x : (x >= 0) \in BOOLEAN /\ (x > 0) \in BOOLEAN
      BY SMT
    <3>2. (missed \/ Users!Of("list")) \in BOOLEAN
      BY Zenon
    <3> QED
      BY <3>1, <3>2, Zenon
  <2>3. enabled' \in {enabled, TRUE, FALSE} /\ alive' \in {alive, FALSE}
    BY DEF Users!Next, Users!Act, Users!Refresh, Users!Select, Users!OpenCreate,
       Users!Create, Users!Confirm, Users!Activate, Users!Cancel, Users!Ask, Users!Done,
       Users!refresh, Users!mutate, Users!set_page_busy, Users!Work, Users!screen,
       Users!Deliver, Users!Timer, Users!Populate, Users!UserCreated, Users!PasswordReset,
       Users!Mutated, Users!Failed, Users!Denied, Users!Finished
  <2>4. actions' \in {actions, FALSE, user_list' >= 0}
    BY DEF Users!Next, Users!Act, Users!Refresh, Users!Select, Users!OpenCreate,
       Users!Create, Users!Confirm, Users!Activate, Users!Cancel, Users!Ask, Users!Done,
       Users!refresh, Users!mutate, Users!set_page_busy, Users!Work, Users!screen,
       Users!Deliver, Users!Timer, Users!Populate, Users!UserCreated, Users!PasswordReset,
       Users!Mutated, Users!Failed, Users!Denied, Users!Finished, Users!update_action_state
  <2>5. /\ overlapped' \in {overlapped, Users!UnderWay({"list"}) > 0}
        /\ missed' \in {missed, FALSE, missed \/ Users!Of("list")}
    BY DEF Users!Next, Users!Act, Users!Refresh, Users!Select, Users!OpenCreate,
       Users!Create, Users!Confirm, Users!Activate, Users!Cancel, Users!Ask, Users!Done,
       Users!refresh, Users!history, Users!Work,
       Users!Deliver, Users!Timer, Users!Populate, Users!UserCreated, Users!PasswordReset,
       Users!Mutated, Users!Failed, Users!Denied, Users!Finished
  <2>6. enabled' \in BOOLEAN /\ actions' \in BOOLEAN /\ alive' \in BOOLEAN
    BY <2>1, <2>2, <2>3, <2>4, Zenon
  <2>7. overlapped' \in BOOLEAN /\ missed' \in BOOLEAN
    BY <2>1, <2>2, <2>5, Zenon
  <2> QED
    BY <2>6, <2>7
<1>8. clicks' \in 0..UsersClicks
  <2>1. clicks' = clicks \/ (clicks < UsersClicks /\ clicks' = clicks + 1)
    BY DEF Users!Next, Users!Act, Users!Refresh, Users!Select, Users!OpenCreate,
         Users!Create, Users!Confirm, Users!Activate, Users!Cancel, Users!Ask, Users!Done,
         Users!Click, Users!Work, Users!Deliver, Users!Timer, Users!Populate,
         Users!UserCreated, Users!PasswordReset, Users!Mutated, Users!Failed, Users!Denied,
         Users!Finished
  <2>2. clicks \in 0..UsersClicks
    BY <1>1 DEF Users!TypeOK
  <2> QED
    BY <2>1, <2>2
<1>9. /\ user_dialog' \in [kind : Users!Kinds, call : 0..submitted']
      /\ user_dialog'.call # 0 => user_dialog'.kind = "create"
  <2>1. /\ user_dialog \in [kind : Users!Kinds, call : 0..submitted]
        /\ user_dialog.call # 0 => user_dialog.kind = "create"
    BY <1>1 DEF Users!TypeOK
  <2>2. \/ user_dialog' = user_dialog
        \/ \E kind \in Users!Kinds : user_dialog' = [kind |-> kind, call |-> 0]
        \/ user_dialog' = [user_dialog EXCEPT !.call = 0]
        \/ /\ user_dialog.kind = "create" /\ submitted' = submitted + 1
           /\ user_dialog' = [user_dialog EXCEPT !.call = submitted + 1]
    <3>1. CASE Users!Act
      BY <3>1 DEF Users!Act, Users!Refresh, Users!Select, Users!OpenCreate, Users!Create,
           Users!Confirm, Users!Activate, Users!Cancel, Users!Ask, Users!Done, Users!submit,
           Users!Kinds, Users!NoDialog
    <3>2. CASE Users!Work
      BY <3>2 DEF Users!Work, Users!screen
    <3>3. CASE Users!Deliver
      BY <3>3 DEF Users!Deliver, Users!Timer, Users!Populate, Users!UserCreated,
           Users!PasswordReset, Users!Mutated, Users!Failed, Users!Denied, Users!Finished,
           Users!Kinds, Users!NoDialog
    <3> QED
      BY <3>1, <3>2, <3>3 DEF Users!Next
  <2>3. CASE user_dialog' = user_dialog
    BY <1>5, <2>1, <2>3
  <2>4. CASE \E kind \in Users!Kinds : user_dialog' = [kind |-> kind, call |-> 0]
    BY <1>3, <2>4
  <2>5. CASE user_dialog' = [user_dialog EXCEPT !.call = 0]
    BY <1>3, <2>1, <2>5
  <2>6. CASE /\ user_dialog.kind = "create" /\ submitted' = submitted + 1
             /\ user_dialog' = [user_dialog EXCEPT !.call = submitted + 1]
    BY <1>3, <2>1, <2>6
  <2> QED
    BY <2>2, <2>3, <2>4, <2>5, <2>6
<1>10. passwords' \subseteq seen' /\ seen' \subseteq made' /\ made' \subseteq 1..submitted'
  <2>1. passwords \subseteq seen /\ seen \subseteq made /\ made \subseteq 1..submitted
    BY <1>1 DEF Users!TypeOK
  <2>2. CASE Users!Act
    <3>1. passwords' \subseteq passwords /\ seen' = seen /\ made' = made
      BY <2>2 DEF Users!Act, Users!Refresh, Users!Select, Users!OpenCreate, Users!Create,
           Users!Confirm, Users!Activate, Users!Cancel, Users!Ask, Users!Done, Users!history
    <3> QED
      BY <1>5, <2>1, <3>1
  <2>3. CASE Users!Work
    <3>1. passwords' = passwords /\ seen' = seen
      BY <2>3 DEF Users!Work, Users!screen
    <3>2. made' = made \/ \E id \in 1..submitted : made' \in {made, made \cup {id}}
      BY <2>3, UsersWork
    <3> QED
      BY <1>5, <2>1, <3>1, <3>2
  <2>4. CASE Users!Deliver
    <3>1. /\ made' = made
          /\ \/ passwords' = passwords /\ seen' = seen
             \/ \E id : passwords' = passwords \cup {id} /\ seen' = seen \cup {id}
      BY <2>4 DEF Users!Deliver, Users!Timer, Users!Populate, Users!UserCreated,
           Users!PasswordReset, Users!Mutated, Users!Failed, Users!Denied, Users!Finished,
           Users!history, Users!show_password
    <3>2. seen' = seen \/ \E id \in made : seen' = seen \cup {id}
      BY <2>4, UsersDeliver
    <3> QED
      BY <1>5, <2>1, <3>1, <3>2
  <2> QED
    BY <2>2, <2>3, <2>4 DEF Users!Next
<1> QED
  BY <1>2, <1>3, <1>6, <1>7, <1>8, <1>9, <1>10 DEF UsersInv, Users!TypeOK

(* ----------------------- the page of the shipments --------------------- *)

(* The calls of this page, told apart.                                     *)
LEMMA ShipmentsNames ==
  /\ \A c \in Loads : c.name = "load" /\ c \notin OtherCalls
                      /\ c.generation \in Nat /\ c.filter \in ShipmentsFilters
  /\ \A c \in OtherCalls : c.name # "load" /\ c \notin Loads
  /\ \A c \in ShipmentsCalls : c.name = "load" => c \in Loads
  /\ \A c \in ShipmentsCalls : c.name # "load" => c \in OtherCalls
  /\ Newest \subseteq Loads /\ Newer \subseteq Loads
<1>1. \A c \in Loads : c.name = "load" /\ c.generation \in Nat /\ c.filter \in ShipmentsFilters
  BY DEF Loads
<1>2. \A c \in OtherCalls : c.name # "load"
  BY DEF OtherCalls, Shipments!Others
<1> QED
  BY <1>1, <1>2 DEF ShipmentsCalls, Newest, Newer

(* The newest load, once refresh has asked for it.                         *)
LEMMA ShipmentsRefresh ==
  ASSUME Orderly(submitted, tasks, events', ShipmentsCalls, ShipmentsValues),
         Going(tasks, events', Newer) = {},
         Shipments!refresh, generation \in Nat, filter \in ShipmentsFilters
  PROVE  /\ Orderly(submitted', tasks', events', ShipmentsCalls, ShipmentsValues)
         /\ Replies(tasks', events') = Replies(tasks, events')
         /\ Going(tasks', events', OtherCalls) = Going(tasks, events', OtherCalls)
         /\ Going(tasks', events', Newer') = {}
         /\ \A x, y \in Going(tasks', events', Newest') : x = y
         /\ load_busy'
         /\ \A a \in Replies(tasks', events') : a.call \notin Newest'
         /\ Loading'
<1>1. PICK c : c = [name |-> "load", generation |-> generation + 1, filter |-> filter]
  OBVIOUS
<1>2. /\ generation' = generation + 1 /\ load_busy' = TRUE
      /\ submitted' = submitted + 1
      /\ tasks' = tasks \cup {[id |-> submitted + 1, call |-> c, stage |-> "sent",
                               kind |-> "result", value |-> NoValue]}
  BY <1>1 DEF Shipments!refresh, Shipments!submit, Shipments!load_call
<1>3. c \in Loads /\ c \in ShipmentsCalls /\ c \notin OtherCalls /\ NoValue \in ShipmentsValues
  <2>1. c \in Loads
    BY <1>1 DEF Loads
  <2> QED
    BY <2>1, ShipmentsNames DEF ShipmentsCalls, ShipmentsValues
<1>4. c \in Newest' /\ c \notin Newer'
  BY <1>1, <1>2, <1>3 DEF Newest, Newer, Loads
<1>5. Newest' \subseteq Newer /\ Newer' \subseteq Newer
  BY <1>2 DEF Newest, Newer, Loads
<1>6. /\ Orderly(submitted', tasks', events', ShipmentsCalls, ShipmentsValues)
      /\ Asked(tasks, events', tasks', submitted', c)
  BY <1>2, <1>3, Submitted
<1>7. \A K : K \subseteq Newer => Going(tasks, events', K) = {}
  <2>1. \A K : K \subseteq Newer => Going(tasks, events', K) \subseteq Going(tasks, events', Newer)
    BY DEF Going
  <2> QED
    BY <2>1
<1>8. /\ Going(tasks', events', Newer') = {}
      /\ Going(tasks', events', Newest') = {submitted'}
      /\ Going(tasks', events', OtherCalls) = Going(tasks, events', OtherCalls)
  BY <1>3, <1>4, <1>5, <1>6, <1>7 DEF Asked
<1>9. \A a \in Replies(tasks', events') : a.call \notin Newest'
  <2>1. \A K : \A a \in Replies(tasks, events') : a.call \in K => a.id \in Going(tasks, events', K)
    BY OnTheWay
  <2> QED
    BY <1>5, <1>6, <1>7, <2>1 DEF Asked
<1>10. Loading'
  BY <1>4, <1>6 DEF Loading, Asked
<1> QED
  BY <1>2, <1>6, <1>8, <1>9, <1>10 DEF Asked

(* What a load asked for by refresh leaves as it was: the answers to loads *)
(* and the other calls.                                                    *)
LEMMA ShipmentsRefreshed ==
  ASSUME Orderly(submitted, tasks, events', ShipmentsCalls, ShipmentsValues),
         ShipmentsOnTheWay, Shipments!refresh, generation \in Nat, filter \in ShipmentsFilters,
         Going(tasks, events', Newer) = Going(tasks, events, Newer),
         Going(tasks, events', OtherCalls) = Going(tasks, events, OtherCalls),
         Replies(tasks, events') \subseteq Replies(tasks, events),
         mutation_busy' = mutation_busy, changes' = changes
  PROVE  /\ Orderly(submitted', tasks', events', ShipmentsCalls, ShipmentsValues)
         /\ ShipmentsOnTheWay'
<1>1. Going(tasks, events', Newer) = {}
  BY DEF ShipmentsOnTheWay, LoadsOnTheWay
<1>2. /\ Orderly(submitted', tasks', events', ShipmentsCalls, ShipmentsValues)
      /\ Replies(tasks', events') = Replies(tasks, events')
      /\ Going(tasks', events', OtherCalls) = Going(tasks, events', OtherCalls)
      /\ Going(tasks', events', Newer') = {}
      /\ \A x, y \in Going(tasks', events', Newest') : x = y
      /\ load_busy'
      /\ \A a \in Replies(tasks', events') : a.call \notin Newest'
      /\ Loading'
  BY <1>1, ShipmentsRefresh
<1>3. Flagged(tasks', events', OtherCalls, mutation_busy')
  BY <1>2 DEF ShipmentsOnTheWay, Flagged
<1>4. LoadsOnTheWay'
  BY <1>2 DEF ShipmentsOnTheWay, LoadsOnTheWay
<1>5. TableTrue' /\ ChangesOnTheWay'
  BY <1>2 DEF TableTrue, ChangesOnTheWay
<1>6. OtherCalls' = OtherCalls
  BY DEF OtherCalls, Shipments!Others
<1> QED
  BY <1>2, <1>3, <1>4, <1>5, <1>6 DEF ShipmentsOnTheWay

(* Another call is submitted, or none since one is under way.              *)
LEMMA ShipmentsOther ==
  ASSUME Orderly(submitted, tasks, events, ShipmentsCalls, ShipmentsValues),
         ShipmentsOnTheWay,
         UNCHANGED <<events, changes, page, total, generation, load_busy, shown, pending, failed>>,
         \/ UNCHANGED <<submitted, tasks, mutation_busy>>
         \/ /\ ~mutation_busy /\ mutation_busy'
            /\ \E name \in Shipments!Others : Shipments!submit([name |-> name])
  PROVE  /\ Orderly(submitted', tasks', events', ShipmentsCalls, ShipmentsValues)
         /\ ShipmentsOnTheWay'
<1>1. Newest' = Newest /\ Newer' = Newer
  BY DEF Newest, Newer
<1>2. CASE UNCHANGED <<submitted, tasks, mutation_busy>>
  BY <1>1, <1>2 DEF ShipmentsOnTheWay, Flagged, LoadsOnTheWay, Loading, TableTrue,
                    ChangesOnTheWay
<1>3. CASE /\ ~mutation_busy /\ mutation_busy'
           /\ \E name \in Shipments!Others : Shipments!submit([name |-> name])
  <2>1. PICK c \in OtherCalls : Shipments!submit(c)
    BY <1>3 DEF OtherCalls
  <2>2. /\ submitted' = submitted + 1
        /\ tasks' = tasks \cup {[id |-> submitted + 1, call |-> c, stage |-> "sent",
                                 kind |-> "result", value |-> NoValue]}
    BY <2>1 DEF Shipments!submit
  <2>3. c \in ShipmentsCalls /\ c \notin Newest /\ c \notin Newer /\ NoValue \in ShipmentsValues
    BY <2>1, ShipmentsNames DEF ShipmentsCalls, ShipmentsValues
  <2>4. /\ Orderly(submitted', tasks', events', ShipmentsCalls, ShipmentsValues)
        /\ Asked(tasks, events, tasks', submitted', c)
    <3>1. /\ Orderly(submitted', tasks', events, ShipmentsCalls, ShipmentsValues)
          /\ Asked(tasks, events, tasks', submitted', c)
      BY <2>2, <2>3, Submitted
    <3> QED
      BY <3>1
  <2>5. Going(tasks, events, OtherCalls) = {}
    BY <1>3 DEF ShipmentsOnTheWay, Flagged
  <2>6. Flagged(tasks', events', OtherCalls, mutation_busy')
    BY <1>3, <2>1, <2>4, <2>5 DEF Flagged, Asked
  <2>7. /\ Going(tasks', events', Newest') = Going(tasks, events, Newest)
        /\ Going(tasks', events', Newer') = Going(tasks, events, Newer)
        /\ Replies(tasks', events') = Replies(tasks, events)
        /\ Sent(tasks) \subseteq Sent(tasks')
    BY <1>1, <2>3, <2>4 DEF Asked
  <2>8. LoadsOnTheWay' /\ (Loading => Loading')
    BY <1>1, <2>7 DEF ShipmentsOnTheWay, LoadsOnTheWay, Loading
  <2>9. TableTrue' /\ ChangesOnTheWay'
    BY <1>1, <2>7, <2>8 DEF ShipmentsOnTheWay, TableTrue, ChangesOnTheWay
  <2>10. OtherCalls' = OtherCalls
    BY DEF OtherCalls, Shipments!Others
  <2> QED
    BY <2>4, <2>6, <2>8, <2>9, <2>10 DEF ShipmentsOnTheWay
<1> QED
  BY <1>2, <1>3

(* The user acts.                                                          *)
LEMMA ShipmentsAct ==
  ASSUME ShipmentsInv, Shipments!Act
  PROVE  /\ Orderly(submitted', tasks', events', ShipmentsCalls, ShipmentsValues)
         /\ alive' => ShipmentsOnTheWay'
<1>1. alive
  BY DEF Shipments!Act, Shipments!Choose, Shipments!ApplyFilters, Shipments!Refresh,
         Shipments!Turn, Shipments!Lookup, Shipments!Open, Shipments!SubmitForm,
         Shipments!Confirm, Shipments!Restore, Shipments!Close, Shipments!AtPage,
         Shipments!Click
<1>2. /\ Orderly(submitted, tasks, events, ShipmentsCalls, ShipmentsValues)
      /\ ShipmentsOnTheWay /\ generation \in Nat /\ filter \in ShipmentsFilters
  BY <1>1 DEF ShipmentsInv, Shipments!TypeOK, Orderly
<1>3. CASE \/ Shipments!ApplyFilters \/ Shipments!Refresh
           \/ \E to \in 1..MaxPages : Shipments!Turn(to)
  <2>1. Shipments!refresh /\ UNCHANGED <<events, mutation_busy, changes>>
    BY <1>3 DEF Shipments!ApplyFilters, Shipments!Refresh, Shipments!Turn, Shipments!database
  <2>2. /\ Orderly(submitted, tasks, events', ShipmentsCalls, ShipmentsValues)
        /\ Going(tasks, events', Newer) = Going(tasks, events, Newer)
        /\ Going(tasks, events', OtherCalls) = Going(tasks, events, OtherCalls)
        /\ Replies(tasks, events') \subseteq Replies(tasks, events)
    BY <1>2, <2>1
  <2> QED
    BY <1>2, <2>1, <2>2, ShipmentsRefreshed
<1>4. ASSUME UNCHANGED <<events, changes>>, UNCHANGED Shipments!list,
             \/ UNCHANGED <<submitted, tasks, mutation_busy>>
             \/ /\ ~mutation_busy /\ mutation_busy'
                /\ \E name \in Shipments!Others : Shipments!submit([name |-> name])
      PROVE  /\ Orderly(submitted', tasks', events', ShipmentsCalls, ShipmentsValues)
             /\ ShipmentsOnTheWay'
  <2>1. UNCHANGED <<page, total, generation, load_busy, shown, pending, failed>>
    BY <1>4 DEF Shipments!list
  <2> QED
    BY <1>2, <1>4, <2>1, ShipmentsOther
<1>5. CASE \/ Shipments!SubmitForm \/ Shipments!Confirm \/ Shipments!Restore
           \/ \E name \in {"lookup", "details"} : Shipments!Lookup(name)
  <2>1. UNCHANGED <<events, changes>> /\ UNCHANGED Shipments!list
    BY <1>5 DEF Shipments!SubmitForm, Shipments!Confirm, Shipments!Restore, Shipments!Lookup,
                Shipments!database
  <2>2. \/ UNCHANGED <<submitted, tasks, mutation_busy>>
        \/ /\ ~mutation_busy /\ mutation_busy'
           /\ \E name \in Shipments!Others : Shipments!submit([name |-> name])
    BY <1>5 DEF Shipments!SubmitForm, Shipments!Confirm, Shipments!Restore, Shipments!Lookup,
                Shipments!mutate, Shipments!NoSubmit, Shipments!call, Shipments!Others,
                Shipments!Enabled
  <2> QED
    BY <1>4, <2>1, <2>2
<1>6. CASE \/ Shipments!Close
           \/ \E f \in ShipmentsFilters : Shipments!Choose(f)
           \/ \E kind \in {"form", "confirm"} : Shipments!Open(kind)
  <2>1. /\ UNCHANGED <<events, changes, submitted, tasks, mutation_busy>>
        /\ UNCHANGED Shipments!list
    BY <1>6 DEF Shipments!Close, Shipments!Choose, Shipments!Open, Shipments!database,
                Shipments!worker
  <2> QED
    BY <1>4, <2>1
<1> QED
  BY <1>3, <1>5, <1>6 DEF Shipments!Act

(* The steps of the pool.                                                  *)
LEMMA ShipmentsWork ==
  ASSUME ShipmentsInv, Shipments!Work
  PROVE  /\ Orderly(submitted', tasks', events', ShipmentsCalls, ShipmentsValues)
         /\ ShipmentsOnTheWay'
<1> DEFINE C == ShipmentsCalls
           V == ShipmentsValues
<1>1. /\ Orderly(submitted, tasks, events, C, V) /\ ShipmentsOnTheWay
      /\ Shipments!TypeOK
  BY DEF ShipmentsInv, Shipments!Work
<1>2. PICK t \in tasks : \/ Shipments!Load(t) \/ Shipments!Look(t)
                         \/ Shipments!Mutate(t) \/ Shipments!End(t)
  BY DEF Shipments!Work
<1>3. t \in Task(C, V) /\ t.call \in C
  BY <1>1 DEF Orderly, Task
<1>4. UNCHANGED <<page, total, generation, load_busy, shown, pending, failed, mutation_busy>>
  BY DEF Shipments!Work, Shipments!list
<1>5. Newest' = Newest /\ Newer' = Newer /\ OtherCalls' = OtherCalls
  BY <1>4 DEF Newest, Newer, OtherCalls, Shipments!Others
<1>6. ASSUME NEW k \in Answers, NEW v \in V, Shipments!Ran(t, k, v)
      PROVE  /\ Orderly(submitted', tasks', events', C, V)
             /\ t \in Sent(tasks) /\ Sent(tasks') = Sent(tasks) \ {t}
             /\ \E a : /\ a.kind = k /\ a.id = t.id /\ a.call = t.call /\ a.value = v
                       /\ Replies(tasks', events') = Replies(tasks, events) \cup {a}
             /\ \A L : Going(tasks', events', L) = Going(tasks, events, L)
             /\ events' = events
  <2>1. PICK u : u = [t EXCEPT !.stage = "ran", !.kind = k, !.value = v]
    OBVIOUS
  <2>2. /\ t \in Sent(tasks) /\ submitted' = submitted /\ events' = events
        /\ tasks' = (tasks \ {t}) \cup {u}
    BY <1>2, <1>6, <2>1 DEF Shipments!Ran, Sent
  <2>3. /\ u \in Task(C, V) /\ u.id = t.id /\ u.call = t.call /\ u.stage = "ran"
        /\ u.kind = k /\ u.value = v
    BY <1>3, <1>6, <2>1 DEF Task
  <2> HIDE DEF C, V
  <2>4. /\ Orderly(submitted, tasks', events, C, V)
        /\ Sent(tasks') = Sent(tasks) \ {t}
        /\ \E a \in [kind : Answers, id : Nat, call : C, value : V] :
             /\ a.kind = u.kind /\ a.id = t.id /\ a.call = t.call /\ a.value = u.value
             /\ Replies(tasks', events) = Replies(tasks, events) \cup {a}
        /\ \A L : Going(tasks', events, L) = Going(tasks, events, L)
    BY <1>1, <2>2, <2>3, HasRun
  <2> QED
    BY <2>2, <2>3, <2>4
<1>7. NoValue \in V
  BY DEF ShipmentsValues
<1>8. CASE Shipments!Load(t)
  <2>1. PICK k \in Answers, v \in V :
          /\ Shipments!Ran(t, k, v) /\ (k = "result" => v \in Pages /\ v.changes = changes)
    <3>1. t.call \in Loads
      BY <1>3, <1>8, ShipmentsNames DEF Shipments!Load
    <3>2. [page |-> page, total |-> pages[t.call.filter], changes |-> changes] \in Pages
      BY <1>1, <3>1 DEF Shipments!TypeOK, Pages, Loads
    <3> QED
      BY <1>7, <1>8, <3>2 DEF Shipments!Load, Shipments!Refused, Answers, ShipmentsValues
  <2>2. t.call.name = "load" /\ changes' = changes
    BY <1>8 DEF Shipments!Load, Shipments!database
  <2>3. PICK a : /\ a.kind = k /\ a.id = t.id /\ a.call = t.call /\ a.value = v
                 /\ Replies(tasks', events') = Replies(tasks, events) \cup {a}
    BY <1>6, <2>1
  <2>4. /\ Sent(tasks') = Sent(tasks) \ {t} /\ events' = events
        /\ \A L : Going(tasks', events', L) = Going(tasks, events, L)
    BY <1>6, <2>1
  <2>5. Flagged(tasks', events', OtherCalls', mutation_busy')
    BY <1>1, <1>4, <1>5, <2>4 DEF ShipmentsOnTheWay, Flagged
  <2>6. LoadsOnTheWay'
    <3>1. shown.changes <= changes
      BY <1>1 DEF Shipments!TypeOK
    <3>2. changes <= changes
      BY <1>1 DEF Shipments!TypeOK
    <3>3. Result(a, "load") => /\ a.value \in Pages /\ a.value.changes <= changes
                               /\ shown.changes <= a.value.changes
      BY <2>1, <2>3, <3>1, <3>2 DEF Result
    <3> QED
      BY <1>1, <1>4, <1>5, <2>2, <2>3, <2>4, <3>3 DEF ShipmentsOnTheWay, LoadsOnTheWay
  <2>7. Loading => Loading'
    BY <1>5, <2>3, <2>4 DEF Loading
  <2>8. TableTrue'
    BY <1>1, <1>4, <2>7 DEF ShipmentsOnTheWay, TableTrue
  <2>9. ChangesOnTheWay'
    <3>1. Result(a, "load") => a.value.changes = changes
      BY <2>1, <2>3 DEF Result
    <3> QED
      BY <1>1, <1>4, <1>5, <2>2, <2>3, <2>4, <2>7, <3>1 DEF ShipmentsOnTheWay, ChangesOnTheWay
  <2> QED
    BY <1>6, <2>1, <2>5, <2>6, <2>8, <2>9 DEF ShipmentsOnTheWay
<1>9. CASE Shipments!Look(t) \/ Shipments!Mutate(t)
  <2>1. PICK k \in Answers :
          /\ Shipments!Ran(t, k, NoValue)
          /\ \/ changes' = changes
             \/ changes' = changes + 1 /\ k = "result" /\ t.call.name = "mutate"
    BY <1>9 DEF Shipments!Look, Shipments!Mutate, Shipments!Refused, Answers,
                Shipments!database
  <2>2. t.call.name # "load"
    BY <1>9 DEF Shipments!Look, Shipments!Mutate
  <2>3. PICK a : /\ a.kind = k /\ a.id = t.id /\ a.call = t.call
                 /\ Replies(tasks', events') = Replies(tasks, events) \cup {a}
    BY <1>6, <1>7, <2>1
  <2>4. /\ Sent(tasks') = Sent(tasks) \ {t} /\ events' = events
        /\ \A L : Going(tasks', events', L) = Going(tasks, events, L)
    BY <1>6, <1>7, <2>1
  <2>5. t.call \notin Newest /\ ~Result(a, "load")
    BY <2>2, <2>3, ShipmentsNames DEF Result
  <2>6. Flagged(tasks', events', OtherCalls', mutation_busy')
    BY <1>1, <1>4, <1>5, <2>4 DEF ShipmentsOnTheWay, Flagged
  <2>7. LoadsOnTheWay'
    <3>1. \A n \in Nat : n <= changes => n <= changes'
      BY <1>1, <2>1 DEF Shipments!TypeOK
    <3>2. \A p \in Pages : p.changes \in Nat
      BY DEF Pages
    <3> QED
      BY <1>1, <1>4, <1>5, <2>3, <2>4, <2>5, <3>1, <3>2 DEF ShipmentsOnTheWay, LoadsOnTheWay
  <2>8. Loading => Loading'
    BY <1>5, <2>3, <2>4, <2>5 DEF Loading
  <2>9. TableTrue'
    BY <1>1, <1>4, <2>8 DEF ShipmentsOnTheWay, TableTrue
  <2>10. ChangesOnTheWay'
    <3>1. CASE changes' = changes
      BY <1>1, <1>4, <1>5, <2>3, <2>4, <2>5, <2>8, <3>1 DEF ShipmentsOnTheWay, ChangesOnTheWay
    <3>2. CASE k = "result" /\ t.call.name = "mutate"
      BY <2>3, <3>2 DEF ChangesOnTheWay, Result
    <3> QED
      BY <2>1, <3>1, <3>2
  <2> QED
    BY <1>6, <1>7, <2>1, <2>6, <2>7, <2>9, <2>10 DEF ShipmentsOnTheWay
<1>10. CASE Shipments!End(t)
  <2>1. PICK u : u = [t EXCEPT !.stage = "told"]
    OBVIOUS
  <2>2. /\ submitted' = submitted
        /\ \/ /\ t.stage = "ran" /\ tasks' = (tasks \ {t}) \cup {u}
              /\ events' = Append(events, [kind |-> t.kind, id |-> t.id,
                                           call |-> t.call, value |-> t.value])
           \/ /\ t.stage = "told" /\ tasks' = tasks \ {t}
              /\ events' = Append(events, [kind |-> "finished", id |-> t.id,
                                           call |-> t.call, value |-> t.value])
    BY <1>10, <2>1 DEF Shipments!End, Shipments!Told, Shipments!Ended, Shipments!Event
  <2>3. u \in Task(C, V) /\ u.id = t.id /\ u.call = t.call /\ u.stage = "told"
    BY <1>3, <2>1 DEF Task
  <2>4. changes' = changes
    BY <1>10 DEF Shipments!End, Shipments!database
  <2> HIDE DEF C, V
  <2>5. /\ Orderly(submitted, tasks', events', C, V)
        /\ Same(tasks, events, tasks', events')
    BY <1>1, <1>2, <2>2, <2>3, HasPosted
  <2>6. Loading' <=> Loading
    BY <1>5, <2>5 DEF Loading, Same
  <2>7. Flagged(tasks', events', OtherCalls', mutation_busy') /\ LoadsOnTheWay'
    BY <1>1, <1>4, <1>5, <2>4, <2>5 DEF ShipmentsOnTheWay, LoadsOnTheWay, Flagged, Same
  <2>8. TableTrue' /\ ChangesOnTheWay'
    BY <1>1, <1>4, <1>5, <2>4, <2>5, <2>6
      DEF ShipmentsOnTheWay, TableTrue, ChangesOnTheWay, Same
  <2> QED
    BY <2>2, <2>5, <2>7, <2>8 DEF ShipmentsOnTheWay, C, V
<1> QED
  BY <1>2, <1>8, <1>9, <1>10

(* Timers and events reach their handler.                                  *)
LEMMA ShipmentsDeliver ==
  ASSUME ShipmentsInv, Shipments!Deliver, MaxPages \in Nat \ {0}
  PROVE  /\ Orderly(submitted', tasks', events', ShipmentsCalls, ShipmentsValues)
         /\ alive' => ShipmentsOnTheWay'
         /\ page' \in 1..MaxPages /\ total' \in 0..MaxPages /\ pending' \in 0..submitted
         /\ \/ shown' = shown
            \/ \E p \in 1..MaxPages, c \in 0..changes :
                 /\ shown' = [generation |-> generation, page |-> p, changes |-> c]
                 /\ shown.changes <= c
<1> DEFINE C == ShipmentsCalls
           V == ShipmentsValues
<1>1. alive /\ events # <<>> /\ events' = Tail(events)
  BY DEF Shipments!Deliver, Shipments!Timer, Shipments!Populate, Shipments!LoadError,
         Shipments!LoadFinished, Shipments!LookedUp, Shipments!Mutated, Shipments!Failed,
         Shipments!Denied, Shipments!MutationFinished, Shipments!Arrived, Shipments!Delivered
<1>2. /\ Orderly(submitted, tasks, events, C, V) /\ ShipmentsOnTheWay
      /\ Shipments!TypeOK
  BY <1>1 DEF ShipmentsInv
<1>3. /\ page \in 1..MaxPages /\ total \in 0..MaxPages /\ pending \in 0..submitted
      /\ generation \in Nat /\ filter \in ShipmentsFilters /\ submitted \in Nat
      /\ changes \in Nat
  BY <1>2 DEF Shipments!TypeOK, Orderly
<1>4. PICK h, r : h = Head(events) /\ r = Tail(events)
  OBVIOUS
<1>5. /\ h \in Posted(C, V)
      /\ Orderly(submitted, tasks, events', C, V)
      /\ Taken(tasks, events, h, events')
  <2>1. events' = r
    BY <1>1, <1>4
  <2> HIDE DEF C, V
  <2>2. h \in Posted(C, V) /\ Orderly(submitted, tasks, r, C, V)
        /\ Taken(tasks, events, h, r)
    BY <1>1, <1>2, <1>4, Delivering
  <2> QED
    BY <2>1, <2>2
<1>6. h.kind # "timer" => h.call \in C /\ h.id \in 1..submitted
  <2>1. h.kind # "timer" => h.call \in C
    BY <1>5, PostedFields
  <2>2. h.kind # "timer" => h.id \in 1..submitted
    <3>1. 1 \in DOMAIN events /\ h = events[1]
      BY <1>1, <1>2, <1>4, Removed DEF Orderly
    <3> QED
      BY <1>2, <3>1 DEF Orderly
  <2> QED
    BY <2>1, <2>2
<1>7. ASSUME Shipments!refresh, UNCHANGED <<mutation_busy, changes>>,
             h.kind \in {"timer", "result"}
      PROVE  /\ Orderly(submitted', tasks', events', C, V)
             /\ ShipmentsOnTheWay'
  <2>1. /\ Going(tasks, events', Newer) = Going(tasks, events, Newer)
        /\ Going(tasks, events', OtherCalls) = Going(tasks, events, OtherCalls)
        /\ Replies(tasks, events') \subseteq Replies(tasks, events)
    BY <1>5, <1>7 DEF Taken, Answers
  <2> QED
    BY <1>2, <1>3, <1>5, <1>7, <2>1, ShipmentsRefreshed
<1>8. CASE Shipments!Timer
  <2>1. /\ h.kind = "timer" /\ Shipments!refresh
        /\ UNCHANGED <<mutation_busy, changes, page, total, pending, shown>>
    BY <1>4, <1>8 DEF Shipments!Timer, Shipments!Arrived, Shipments!Delivered,
                      Shipments!database
  <2> QED
    BY <1>3, <1>7, <2>1
<1>9. CASE Shipments!Mutated
  <2>1. /\ h.kind = "result" /\ Shipments!refresh /\ pending' = h.id
        /\ UNCHANGED <<mutation_busy, changes, page, total, shown>>
    BY <1>4, <1>9 DEF Shipments!Mutated, Shipments!Arrived, Shipments!Delivered,
                      Shipments!database
  <2>2. pending' \in 0..submitted
    BY <1>3, <1>6, <2>1
  <2> QED
    BY <1>3, <1>7, <2>1, <2>2
<1>10. ASSUME h.kind \in {"result", "error"}, tasks' = tasks, submitted' = submitted,
              UNCHANGED <<generation, load_busy, mutation_busy, changes>>
       PROVE  /\ Orderly(submitted', tasks', events', C, V)
              /\ h \in Replies(tasks, events)
              /\ Replies(tasks', events') = Replies(tasks, events) \ {h}
              /\ Waiting(events') <=> Waiting(events)
              /\ Sent(tasks') = Sent(tasks)
              /\ \A K : Going(tasks', events', K) = Going(tasks, events, K)
              /\ Newest' = Newest /\ Newer' = Newer /\ OtherCalls' = OtherCalls
              /\ Flagged(tasks', events', OtherCalls', mutation_busy')
              /\ h.call \notin Newest => (Loading <=> Loading')
              /\ UNCHANGED shown => LoadsOnTheWay'
  <2>1. /\ h \in Replies(tasks, events)
        /\ Replies(tasks', events') = Replies(tasks, events) \ {h}
        /\ \A K : Going(tasks', events', K) = Going(tasks, events, K)
        /\ Waiting(events') <=> Waiting(events)
    BY <1>5, <1>10 DEF Taken, Answers
  <2>2. Newest' = Newest /\ Newer' = Newer /\ OtherCalls' = OtherCalls
    BY <1>10 DEF Newest, Newer, OtherCalls, Shipments!Others
  <2>3. Flagged(tasks', events', OtherCalls', mutation_busy')
    BY <1>2, <1>10, <2>1, <2>2 DEF ShipmentsOnTheWay, Flagged
  <2>4. h.call \notin Newest => (Loading <=> Loading')
    BY <1>10, <2>1, <2>2 DEF Loading
  <2>5. UNCHANGED shown => LoadsOnTheWay'
    BY <1>2, <1>10, <2>1, <2>2 DEF ShipmentsOnTheWay, LoadsOnTheWay
  <2> QED
    BY <1>5, <1>10, <2>1, <2>2, <2>3, <2>4, <2>5
<1>11. ASSUME h.kind \in {"result", "error"}, h.call \notin Newest, ~Result(h, "mutate"),
              tasks' = tasks, submitted' = submitted, UNCHANGED changes,
              UNCHANGED <<generation, load_busy, mutation_busy, page, total, shown, pending,
                          failed>>
       PROVE  /\ Orderly(submitted', tasks', events', C, V)
              /\ ShipmentsOnTheWay'
  <2>1. TableTrue' /\ ChangesOnTheWay'
    BY <1>2, <1>10, <1>11 DEF ShipmentsOnTheWay, TableTrue, ChangesOnTheWay
  <2> QED
    BY <1>10, <1>11, <2>1 DEF ShipmentsOnTheWay
<1>12. CASE Shipments!Populate
  <2>1. /\ h.kind = "result" /\ h.call.name = "load"
        /\ UNCHANGED <<mutation_busy, changes>>
        /\ IF h.call.generation = generation THEN Shipments!show(h.value)
           ELSE /\ tasks' = tasks /\ submitted' = submitted
                /\ UNCHANGED <<page, total, generation, load_busy, shown, pending, failed>>
    BY <1>4, <1>12 DEF Shipments!Populate, Shipments!Arrived, Shipments!Delivered,
         Shipments!Of, Shipments!Current, Shipments!database, Shipments!NoSubmit,
         Shipments!list
  <2>2. /\ h \in Replies(tasks, events) /\ Result(h, "load") /\ ~Result(h, "mutate")
        /\ h.call \in Loads
    BY <1>5, <1>6, <2>1, ShipmentsNames DEF Taken, Answers, Result
  <2>3. CASE h.call.generation # generation
    <3>1. h.call \notin Newest
      BY <2>3 DEF Newest
    <3> QED
      BY <1>3, <1>11, <2>1, <2>2, <2>3, <3>1
  <2>4. CASE h.call.generation = generation
    <3>1. h.call \in Newest
      BY <2>2, <2>4 DEF Newest
    <3>2. /\ h.value \in Pages /\ h.value.changes <= changes
          /\ shown.changes <= h.value.changes
      BY <1>2, <2>2, <3>1 DEF ShipmentsOnTheWay, LoadsOnTheWay
    <3>3. PICK v \in Pages : v = h.value
      BY <3>2
    <3>4. v.page \in 1..MaxPages /\ v.total \in 0..MaxPages /\ v.changes \in 0..changes
      BY <1>3, <3>2, <3>3 DEF Pages
    <3>5. CASE v.page > Shipments!page_count(v.total)
      <4>1. /\ Shipments!refresh /\ total' = v.total
            /\ page' = Shipments!page_count(v.total)
            /\ UNCHANGED <<shown, pending>>
        BY <2>1, <2>4, <3>3, <3>5 DEF Shipments!show
      <4>2. page' \in 1..MaxPages
        BY <3>4, <4>1 DEF Shipments!page_count
      <4> QED
        BY <1>3, <1>7, <2>1, <3>4, <4>1, <4>2
    <3>6. CASE ~(v.page > Shipments!page_count(v.total))
      <4>1. /\ total' = v.total /\ page' = v.page
            /\ shown' = [generation |-> generation, page |-> v.page, changes |-> v.changes]
            /\ pending' = 0 /\ failed' = FALSE
            /\ tasks' = tasks /\ submitted' = submitted
            /\ UNCHANGED <<generation, load_busy>>
        BY <2>1, <2>4, <3>3, <3>6 DEF Shipments!show, Shipments!NoSubmit
      <4>2. shown'.generation = generation' /\ shown'.page = page' /\ shown'.changes = v.changes
        BY <4>1
      <4>3. page' <= Shipments!page_count(total')
        <5>1. Shipments!page_count(v.total) \in Nat /\ v.page \in Nat
          BY <3>4 DEF Shipments!page_count
        <5> QED
          BY <3>6, <4>1, <5>1
      <4>4. TableTrue'
        BY <4>2, <4>3 DEF TableTrue, Shipments!page_count
      <4>5. ASSUME NEW a \in Replies(tasks', events'), a.call \in Newest' PROVE FALSE
        <5>1. /\ a \in Replies(tasks, events) /\ a # h /\ a.call \in Newest
          BY <1>10, <2>1, <4>1, <4>5
        <5>2. /\ a.id \in Going(tasks, events, Newest)
              /\ h.id \in Going(tasks, events, Newest)
              /\ a.id # h.id
          BY <1>2, <2>2, <3>1, <5>1, OnTheWay
        <5> QED
          BY <1>2, <5>2 DEF ShipmentsOnTheWay, LoadsOnTheWay
      <4>6. LoadsOnTheWay'
        BY <1>2, <1>10, <2>1, <4>1, <4>5 DEF ShipmentsOnTheWay, LoadsOnTheWay
      <4>7. ChangesOnTheWay'
        <5>1. CASE Waiting(events)
          BY <1>10, <2>1, <4>1, <5>1 DEF ChangesOnTheWay
        <5>2. CASE \E a \in Replies(tasks, events) : Result(a, "mutate")
          BY <1>10, <2>1, <2>2, <4>1, <5>2 DEF ChangesOnTheWay
        <5>3. CASE \A a \in Replies(tasks, events) :
                     Result(a, "load") /\ a.call \in Newest => a.value.changes = changes
          <6>1. shown'.changes = changes'
            BY <2>1, <2>2, <3>1, <3>3, <4>2, <5>3
          <6> QED
            BY <4>1, <4>5, <6>1 DEF ChangesOnTheWay
        <5> QED
          BY <1>2, <5>1, <5>2, <5>3 DEF ShipmentsOnTheWay, ChangesOnTheWay
      <4>8. ShipmentsOnTheWay' /\ Orderly(submitted', tasks', events', C, V)
        BY <1>10, <2>1, <4>1, <4>4, <4>6, <4>7 DEF ShipmentsOnTheWay
      <4>9. page' \in 1..MaxPages /\ total' \in 0..MaxPages /\ pending' \in 0..submitted
        BY <1>3, <3>4, <4>1
      <4>10. \E p \in 1..MaxPages, c \in 0..changes :
               /\ shown' = [generation |-> generation, page |-> p, changes |-> c]
               /\ shown.changes <= c
        BY <3>2, <3>3, <3>4, <4>1
      <4> QED
        BY <4>8, <4>9, <4>10
    <3> QED
      BY <3>5, <3>6
  <2> QED
    BY <2>3, <2>4
<1>13. CASE Shipments!LoadError
  <2>1. /\ h.kind = "error" /\ h.call.name = "load"
        /\ tasks' = tasks /\ submitted' = submitted
        /\ failed => failed'
        /\ h.call.generation = generation => failed'
        /\ h.call.generation # generation => (failed' <=> failed)
        /\ UNCHANGED <<mutation_busy, changes, page, total, generation, load_busy, shown, pending>>
    BY <1>4, <1>13 DEF Shipments!LoadError, Shipments!Arrived, Shipments!Delivered,
         Shipments!Of, Shipments!Current, Shipments!database, Shipments!NoSubmit
  <2>2. ~Result(h, "mutate") /\ (failed' \/ h.call \notin Newest)
    BY <2>1 DEF Result, Newest
  <2>3. /\ Orderly(submitted', tasks', events', C, V)
        /\ Replies(tasks', events') = Replies(tasks, events) \ {h}
        /\ Waiting(events') <=> Waiting(events)
        /\ Newest' = Newest
        /\ Flagged(tasks', events', OtherCalls', mutation_busy') /\ LoadsOnTheWay'
        /\ h.call \notin Newest => (Loading <=> Loading')
    BY <1>10, <2>1
  <2>4. TableTrue' /\ ChangesOnTheWay'
    BY <1>2, <2>1, <2>2, <2>3 DEF ShipmentsOnTheWay, TableTrue, ChangesOnTheWay
  <2> QED
    BY <1>3, <2>1, <2>3, <2>4 DEF ShipmentsOnTheWay
<1>14. CASE Shipments!LookedUp
  <2>1. /\ h.kind = "result" /\ h.call.name \in {"lookup", "details"}
        /\ tasks' = tasks /\ submitted' = submitted
        /\ UNCHANGED <<mutation_busy, changes, page, total, generation, load_busy, shown,
                       pending, failed>>
    BY <1>4, <1>14 DEF Shipments!LookedUp, Shipments!Arrived, Shipments!Delivered,
         Shipments!database, Shipments!NoSubmit, Shipments!list
  <2>2. ~Result(h, "mutate") /\ h.call \notin Newest
    BY <2>1, ShipmentsNames DEF Result
  <2> QED
    BY <1>3, <1>11, <2>1, <2>2
<1>15. CASE Shipments!Failed
  <2>1. /\ h.kind = "error" /\ h.call.name # "load"
        /\ tasks' = tasks /\ submitted' = submitted
        /\ UNCHANGED <<mutation_busy, changes, page, total, generation, load_busy, shown,
                       pending, failed>>
    BY <1>4, <1>15 DEF Shipments!Failed, Shipments!Arrived, Shipments!Delivered,
         Shipments!database, Shipments!NoSubmit, Shipments!list, Shipments!Of
  <2>2. ~Result(h, "mutate") /\ h.call \notin Newest
    BY <2>1, ShipmentsNames DEF Result
  <2> QED
    BY <1>3, <1>11, <2>1, <2>2
<1>16. CASE Shipments!Denied
  <2>1. /\ tasks' = tasks /\ submitted' = submitted /\ alive' = FALSE
        /\ UNCHANGED <<page, total, shown, pending>>
    BY <1>16 DEF Shipments!Denied, Shipments!NoSubmit, Shipments!list
  <2> QED
    BY <1>3, <1>5, <2>1
<1>17. CASE Shipments!LoadFinished \/ Shipments!MutationFinished
  <2>1. /\ h.kind = "finished" /\ tasks' = tasks /\ submitted' = submitted
        /\ UNCHANGED <<changes, page, total, generation, shown, pending, failed>>
        /\ \/ /\ h.call.name = "load" /\ mutation_busy' = mutation_busy
              /\ load_busy' \/ h.call.generation = generation \/ ~load_busy
           \/ h.call.name # "load" /\ mutation_busy' = FALSE /\ load_busy' = load_busy
    BY <1>4, <1>17 DEF Shipments!LoadFinished, Shipments!MutationFinished, Shipments!Arrived,
         Shipments!Delivered, Shipments!Of, Shipments!Current, Shipments!database,
         Shipments!NoSubmit, Shipments!list
  <2>2. /\ Replies(tasks', events') = Replies(tasks, events)
        /\ \A K : Going(tasks', events', K) = Going(tasks, events, K) \ {h.id}
        /\ \A K : h.call \in K => h.id \in Going(tasks, events, K)
        /\ Waiting(events') <=> Waiting(events)
    BY <1>5, <2>1 DEF Taken
  <2>3. Newest' = Newest /\ Newer' = Newer /\ OtherCalls' = OtherCalls
    BY <2>1 DEF Newest, Newer, OtherCalls, Shipments!Others
  <2>4. Loading <=> Loading'
    BY <2>1, <2>2, <2>3 DEF Loading
  <2>5. TableTrue' /\ ChangesOnTheWay'
    BY <1>2, <2>1, <2>2, <2>3, <2>4 DEF ShipmentsOnTheWay, TableTrue, ChangesOnTheWay
  <2>6. CASE h.call.name = "load"
    <3>1. h.call \in Loads /\ h.call \notin OtherCalls
      BY <1>6, <2>1, <2>6, ShipmentsNames
    <3>2. \A t \in Task(C, V) : t.call \in C
      BY DEF Task
    <3>3. h.id \notin Going(tasks, events, OtherCalls)
      <4>1. 1 \in DOMAIN events /\ h = events[1]
        BY <1>1, <1>2, <1>4, Removed DEF Orderly
      <4>2. \A t \in tasks : t.id # h.id
        BY <1>2, <2>1, <4>1 DEF Orderly, Answers
      <4>3. ASSUME NEW i \in DOMAIN events, events[i].kind = "finished", events[i].id = h.id
            PROVE  events[i] = h
        <5>1. i = 1 \/ 1 < i
          BY <1>2 DEF Orderly
        <5> QED
          BY <1>2, <2>1, <4>1, <4>3, <5>1 DEF Orderly, Answers
      <4> QED
        BY <3>1, <4>2, <4>3 DEF Going
    <3>4. Flagged(tasks', events', OtherCalls', mutation_busy')
      BY <1>2, <2>1, <2>2, <2>3, <2>6, <3>3 DEF ShipmentsOnTheWay, Flagged
    <3>5. Going(tasks', events', Newest') # {} => load_busy'
      <4>1. CASE h.call.generation = generation
        <5>1. h.id \in Going(tasks, events, Newest)
          BY <2>2, <3>1, <4>1 DEF Newest
        <5>2. \A x \in Going(tasks, events, Newest) : x = h.id
          BY <1>2, <5>1 DEF ShipmentsOnTheWay, LoadsOnTheWay
        <5> QED
          BY <2>2, <2>3, <5>2
      <4>2. CASE h.call.generation # generation
        <5>1. load_busy' \/ ~load_busy
          BY <2>1, <2>6, <4>2
        <5> QED
          BY <1>2, <2>2, <2>3, <5>1 DEF ShipmentsOnTheWay, LoadsOnTheWay
      <4> QED
        BY <4>1, <4>2
    <3>6. LoadsOnTheWay'
      BY <1>2, <2>1, <2>2, <2>3, <3>5 DEF ShipmentsOnTheWay, LoadsOnTheWay
    <3> QED
      BY <1>3, <1>5, <2>1, <2>5, <3>4, <3>6 DEF ShipmentsOnTheWay
  <2>7. CASE h.call.name # "load"
    <3>1. h.call \in OtherCalls
      BY <1>6, <2>1, <2>7, ShipmentsNames
    <3>2. Going(tasks', events', OtherCalls) = {}
      <4>1. h.id \in Going(tasks, events, OtherCalls)
        BY <2>2, <3>1
      <4>2. \A x \in Going(tasks, events, OtherCalls) : x = h.id
        BY <1>2, <4>1 DEF ShipmentsOnTheWay, Flagged
      <4> QED
        BY <2>2, <4>2
    <3>3. Flagged(tasks', events', OtherCalls', mutation_busy')
      BY <2>1, <2>3, <2>7, <3>2 DEF Flagged
    <3>4. LoadsOnTheWay'
      BY <1>2, <2>1, <2>2, <2>3, <2>7 DEF ShipmentsOnTheWay, LoadsOnTheWay
    <3> QED
      BY <1>3, <1>5, <2>1, <2>5, <3>3, <3>4 DEF ShipmentsOnTheWay
  <2> QED
    BY <2>6, <2>7
<1> QED
  BY <1>8, <1>9, <1>12, <1>13, <1>14, <1>15, <1>16, <1>17 DEF Shipments!Deliver

(* Every step of this page preserves its invariant, and the table gets     *)
(* younger.                                                                *)
LEMMA ShipmentsStep ==
  ASSUME ShipmentsInv, Shipments!Next, ShipmentsClicks \in Nat, MaxPages \in Nat \ {0}
  PROVE  /\ ShipmentsInv'
         /\ shown'.generation >= shown.generation /\ shown'.changes >= shown.changes
<1> USE DEF Shipments!database, Shipments!list
<1>1. Shipments!TypeOK /\ submitted \in Nat
  BY DEF ShipmentsInv, Orderly
<1>2. /\ Orderly(submitted', tasks', events', ShipmentsCalls, ShipmentsValues)
      /\ alive' => ShipmentsOnTheWay'
  BY ShipmentsAct, ShipmentsWork, ShipmentsDeliver DEF Shipments!Next
<1>3. submitted' \in Nat /\ \A t \in tasks' : t.id \in 1..submitted'
  BY <1>2 DEF Orderly
<1>4. \/ UNCHANGED <<submitted, generation>>
      \/ submitted' = submitted + 1 /\ generation' \in {generation, generation + 1}
  <2>1. CASE Shipments!Act
    BY <2>1 DEF Shipments!Act, Shipments!Choose, Shipments!ApplyFilters, Shipments!Refresh,
       Shipments!Turn, Shipments!Lookup, Shipments!Open, Shipments!SubmitForm,
       Shipments!Confirm, Shipments!Restore, Shipments!Close, Shipments!worker,
       Shipments!refresh, Shipments!mutate, Shipments!submit, Shipments!NoSubmit
  <2>2. CASE Shipments!Work
    BY <2>2 DEF Shipments!Work, Shipments!Load, Shipments!Look, Shipments!Mutate,
       Shipments!End, Shipments!Refused, Shipments!Ran, Shipments!Told, Shipments!Ended
  <2>3. CASE Shipments!Deliver
    BY <2>3 DEF Shipments!Deliver, Shipments!Timer, Shipments!Populate, Shipments!LoadError,
       Shipments!LoadFinished, Shipments!LookedUp, Shipments!Mutated, Shipments!Failed,
       Shipments!Denied, Shipments!MutationFinished, Shipments!show, Shipments!refresh,
       Shipments!submit, Shipments!NoSubmit
  <2> QED
    BY <2>1, <2>2, <2>3 DEF Shipments!Next
<1>5. /\ 0..submitted \subseteq 0..submitted' /\ generation' \in 0..submitted'
      /\ 0..generation \subseteq 0..generation' /\ generation \in Nat
  BY <1>1, <1>3, <1>4 DEF Shipments!TypeOK
<1>6. /\ changes' \in Nat /\ pages' \in [ShipmentsFilters -> 0..MaxPages]
      /\ filter' \in ShipmentsFilters /\ 0..changes \subseteq 0..changes'
  <2>1. /\ changes \in Nat /\ pages \in [ShipmentsFilters -> 0..MaxPages]
        /\ filter \in ShipmentsFilters
    BY <1>1 DEF Shipments!TypeOK
  <2>2. CASE Shipments!Act
    <3>1. UNCHANGED <<changes, pages>> /\ filter' \in {filter} \cup ShipmentsFilters
      BY <2>2 DEF Shipments!Act, Shipments!Choose, Shipments!ApplyFilters, Shipments!Refresh,
       Shipments!Turn, Shipments!Lookup, Shipments!Open, Shipments!SubmitForm,
       Shipments!Confirm, Shipments!Restore, Shipments!Close
    <3> QED
      BY <2>1, <3>1
  <2>3. CASE Shipments!Work
    <3>1. filter' = filter
      BY <2>3 DEF Shipments!Work
    <3>2. \/ UNCHANGED <<changes, pages>>
          \/ /\ changes' = changes + 1
             /\ \E f \in ShipmentsFilters, n \in 0..MaxPages : pages' = [pages EXCEPT ![f] = n]
      BY <2>3 DEF Shipments!Work, Shipments!Load, Shipments!Look, Shipments!Mutate,
         Shipments!End
    <3> QED
      BY <2>1, <3>1, <3>2
  <2>4. CASE Shipments!Deliver
    <3>1. UNCHANGED <<changes, pages, filter>>
      BY <2>4 DEF Shipments!Deliver, Shipments!Timer, Shipments!Populate, Shipments!LoadError,
         Shipments!LoadFinished, Shipments!LookedUp, Shipments!Mutated, Shipments!Failed,
         Shipments!Denied, Shipments!MutationFinished
    <3> QED
      BY <2>1, <3>1
  <2> QED
    BY <2>2, <2>3, <2>4 DEF Shipments!Next
<1>7. /\ page' \in 1..MaxPages /\ total' \in 0..MaxPages /\ pending' \in 0..submitted'
      /\ \/ shown' = shown
         \/ \E p \in 1..MaxPages, c \in 0..changes :
              /\ shown' = [generation |-> generation, page |-> p, changes |-> c]
              /\ shown.changes <= c
  <2>1. page \in 1..MaxPages /\ total \in 0..MaxPages /\ pending \in 0..submitted
    BY <1>1 DEF Shipments!TypeOK
  <2>2. CASE Shipments!Act
    <3>1. UNCHANGED <<total, pending, shown>> /\ page' \in {page} \cup 1..MaxPages \cup {1}
      BY <2>2 DEF Shipments!Act, Shipments!Choose, Shipments!ApplyFilters, Shipments!Refresh,
         Shipments!Turn, Shipments!Lookup, Shipments!Open, Shipments!SubmitForm,
         Shipments!Confirm, Shipments!Restore, Shipments!Close
    <3> QED
      BY <1>5, <2>1, <3>1
  <2>3. CASE Shipments!Work
    BY <1>5, <2>1, <2>3 DEF Shipments!Work
  <2>4. CASE Shipments!Deliver
    BY <1>5, <2>4, ShipmentsDeliver
  <2> QED
    BY <2>2, <2>3, <2>4 DEF Shipments!Next
<1>8. shown' \in [generation : 0..generation', page : 1..MaxPages, changes : 0..changes']
      /\ shown'.generation >= shown.generation /\ shown'.changes >= shown.changes
  <2>1. shown \in [generation : 0..generation, page : 1..MaxPages, changes : 0..changes]
    BY <1>1 DEF Shipments!TypeOK
  <2>2. CASE shown' = shown
    BY <1>5, <1>6, <2>1, <2>2
  <2>3. CASE \E p \in 1..MaxPages, c \in 0..changes :
               /\ shown' = [generation |-> generation, page |-> p, changes |-> c]
               /\ shown.changes <= c
    <3>1. PICK p \in 1..MaxPages, c \in 0..changes :
               /\ shown' = [generation |-> generation, page |-> p, changes |-> c]
               /\ shown.changes <= c
      BY <2>3
    <3>2. generation \in 0..generation' /\ c \in 0..changes'
      BY <1>5, <1>6, <3>1
    <3>3. shown' \in [generation : 0..generation', page : 1..MaxPages, changes : 0..changes']
      BY <3>1, <3>2
    <3>4. shown'.generation = generation /\ shown'.changes = c
      BY <3>1
    <3> QED
      BY <1>5, <2>1, <3>1, <3>3, <3>4
  <2> QED
    BY <1>7, <2>2, <2>3
<1>9. {load_busy', mutation_busy', alive', failed'} \subseteq BOOLEAN
  <2>1. /\ load_busy \in BOOLEAN /\ mutation_busy \in BOOLEAN /\ alive \in BOOLEAN
        /\ failed \in BOOLEAN
    BY <1>1 DEF Shipments!TypeOK
  <2>2. /\ (load_busy /\ ~Shipments!Current) \in BOOLEAN
        /\ (failed \/ Shipments!Current) \in BOOLEAN
    BY Zenon
  <2>3. /\ mutation_busy' \in {mutation_busy, TRUE, FALSE} /\ alive' \in {alive, FALSE}
        /\ load_busy' \in {load_busy, TRUE, load_busy /\ ~Shipments!Current}
        /\ failed' \in {failed, FALSE, failed \/ Shipments!Current}
    <3>1. CASE Shipments!Act
      BY <3>1 DEF Shipments!Act, Shipments!Choose, Shipments!ApplyFilters, Shipments!Refresh,
         Shipments!Turn, Shipments!Lookup, Shipments!Open, Shipments!SubmitForm,
         Shipments!Confirm, Shipments!Restore, Shipments!Close, Shipments!refresh,
         Shipments!mutate
    <3>2. CASE Shipments!Work
      BY <3>2 DEF Shipments!Work
    <3>3. CASE Shipments!Deliver
      BY <3>3 DEF Shipments!Deliver, Shipments!Timer, Shipments!Populate, Shipments!LoadError,
         Shipments!LoadFinished, Shipments!LookedUp, Shipments!Mutated, Shipments!Failed,
         Shipments!Denied, Shipments!MutationFinished, Shipments!show, Shipments!refresh
    <3> QED
      BY <3>1, <3>2, <3>3 DEF Shipments!Next
  <2>4. load_busy' \in BOOLEAN /\ mutation_busy' \in BOOLEAN
    BY <2>1, <2>2, <2>3, Zenon
  <2>5. alive' \in BOOLEAN /\ failed' \in BOOLEAN
    BY <2>1, <2>2, <2>3, Zenon
  <2> QED
    BY <2>4, <2>5
<1>10. dialog' \in [kind : Shipments!Kinds, call : -1..submitted']
  <2>1. dialog \in [kind : Shipments!Kinds, call : -1..submitted]
    BY <1>1 DEF Shipments!TypeOK
  <2>2. -1..submitted \subseteq -1..submitted' /\ 0 \in -1..submitted' /\ -1 \in -1..submitted'
    BY <1>1, <1>3, <1>4
  <2>3. \/ dialog' = dialog
        \/ \E kind \in Shipments!Kinds : dialog' = [kind |-> kind, call |-> 0]
        \/ dialog' = [dialog EXCEPT !.call = 0]
        \/ dialog' = [dialog EXCEPT !.call = -1]
        \/ submitted' = submitted + 1 /\ dialog' = [dialog EXCEPT !.call = submitted + 1]
    <3>1. CASE Shipments!Act
      BY <3>1 DEF Shipments!Act, Shipments!Choose, Shipments!ApplyFilters, Shipments!Refresh,
         Shipments!Turn, Shipments!Lookup, Shipments!Open, Shipments!SubmitForm,
         Shipments!Confirm, Shipments!Restore, Shipments!Close, Shipments!NoDialog,
         Shipments!Kinds, Shipments!mutate, Shipments!submit
    <3>2. CASE Shipments!Work
      BY <3>2 DEF Shipments!Work
    <3>3. CASE Shipments!Deliver
      BY <3>3 DEF Shipments!Deliver, Shipments!Timer, Shipments!Populate, Shipments!LoadError,
         Shipments!LoadFinished, Shipments!LookedUp, Shipments!Mutated, Shipments!Failed,
         Shipments!Denied, Shipments!MutationFinished, Shipments!NoDialog, Shipments!Form,
         Shipments!Kinds
    <3> QED
      BY <3>1, <3>2, <3>3 DEF Shipments!Next
  <2>4. CASE dialog' = dialog
    BY <2>1, <2>2, <2>4
  <2>5. CASE \E kind \in Shipments!Kinds : dialog' = [kind |-> kind, call |-> 0]
    BY <2>2, <2>5
  <2>6. CASE dialog' = [dialog EXCEPT !.call = 0] \/ dialog' = [dialog EXCEPT !.call = -1]
    BY <2>1, <2>2, <2>6
  <2>7. CASE submitted' = submitted + 1 /\ dialog' = [dialog EXCEPT !.call = submitted + 1]
    <3>1. submitted + 1 \in -1..submitted'
      BY <1>1, <2>7
    <3> QED
      BY <2>1, <2>7, <3>1
  <2> QED
    BY <2>3, <2>4, <2>5, <2>6, <2>7
<1>11. clicks' \in 0..ShipmentsClicks
  <2>1. clicks' = clicks \/ (clicks < ShipmentsClicks /\ clicks' = clicks + 1)
    BY DEF Shipments!Next, Shipments!Act, Shipments!Choose, Shipments!ApplyFilters,
       Shipments!Refresh, Shipments!Turn, Shipments!Lookup, Shipments!Open,
       Shipments!SubmitForm, Shipments!Confirm, Shipments!Restore, Shipments!Close,
       Shipments!Click, Shipments!Work, Shipments!Deliver, Shipments!Timer,
       Shipments!Populate, Shipments!LoadError, Shipments!LoadFinished, Shipments!LookedUp,
       Shipments!Mutated, Shipments!Failed, Shipments!Denied, Shipments!MutationFinished
  <2>2. clicks \in 0..ShipmentsClicks
    BY <1>1 DEF Shipments!TypeOK
  <2> QED
    BY <2>1, <2>2
<1>12. Shipments!TypeOK'
  BY <1>3, <1>5, <1>6, <1>7, <1>8, <1>9, <1>10, <1>11 DEF Shipments!TypeOK
<1> QED
  BY <1>2, <1>8, <1>12 DEF ShipmentsInv

(* ------------------- the page of the SMS shipments --------------------- *)

(* An idle page has nothing on its way.                                    *)
LEMMA SmsIdle ==
  ASSUME Orderly(submitted, tasks, sms_events, SmsCalls, SmsValues), SmsOnTheWay, ~busy
  PROVE  /\ Sent(tasks) = {} /\ Replies(tasks, sms_events) = {}
         /\ Going(tasks, sms_events, SmsCalls) = {} /\ ~Listing
<1>1. Going(tasks, sms_events, SmsCalls) = {}
  BY DEF SmsOnTheWay, Flagged
<1>2. /\ Sent(tasks) \subseteq Task(SmsCalls, SmsValues)
      /\ \A a \in Replies(tasks, sms_events) :
           a \in [kind : Answers, id : Nat, call : SmsCalls, value : SmsValues]
  BY OnTheWay
<1>3. /\ \A a \in Replies(tasks, sms_events) : a.call \in SmsCalls
      /\ \A t \in Sent(tasks) : t.call \in SmsCalls
  BY <1>2 DEF Task
<1>4. Sent(tasks) = {} /\ Replies(tasks, sms_events) = {}
  BY <1>1, <1>3, OnTheWay
<1> QED
  BY <1>1, <1>4 DEF Listing

(* Its only call is submitted.                                             *)
LEMMA SmsAsk ==
  ASSUME Orderly(submitted, tasks, sms_events', SmsCalls, SmsValues),
         Sent(tasks) = {}, Replies(tasks, sms_events') = {},
         Going(tasks, sms_events', SmsCalls) = {},
         NEW c \in SmsCalls, Sms!submit(c), busy' = TRUE
  PROVE  /\ Orderly(submitted', tasks', sms_events', SmsCalls, SmsValues)
         /\ Flagged(tasks', sms_events', SmsCalls, busy')
         /\ Replies(tasks', sms_events') = {}
         /\ \E t : t.call = c /\ Sent(tasks') = {t}
<1>1. /\ submitted' = submitted + 1
      /\ tasks' = tasks \cup {[id |-> submitted + 1, call |-> c, stage |-> "sent",
                               kind |-> "result", value |-> NoValue]}
  BY DEF Sms!submit
<1>2. NoValue \in SmsValues
  BY DEF SmsValues
<1>3. /\ Orderly(submitted', tasks', sms_events', SmsCalls, SmsValues)
      /\ Asked(tasks, sms_events', tasks', submitted', c)
  BY <1>1, <1>2, Submitted
<1>4. Going(tasks', sms_events', SmsCalls) = {submitted'}
  BY <1>3 DEF Asked
<1> QED
  BY <1>3, <1>4 DEF Asked, Flagged

(* A list is asked for, and page and filter are kept in mind.              *)
LEMMA SmsListAsked ==
  ASSUME Orderly(submitted, tasks, sms_events', SmsCalls, SmsValues),
         Sent(tasks) = {}, Replies(tasks, sms_events') = {},
         Going(tasks, sms_events', SmsCalls) = {}, busy' = TRUE,
         NEW applied \in BOOLEAN, Sms!submit(Sms!list_call(applied)),
         asked' = Sms!view(page', sms_filter), sms_filter' = sms_filter,
         applied => page' = 1,
         Sms!Settled' => total' <= sms_pages'[sms_filter']
                         /\ page' <= Sms!page_count(sms_pages'[sms_filter'])
  PROVE  /\ Orderly(submitted', tasks', sms_events', SmsCalls, SmsValues)
         /\ SmsOnTheWay'
<1>1. PICK c \in SmsCalls : c = [name |-> "list", applied |-> applied]
  BY DEF SmsCalls
<1>2. Sms!submit(c)
  BY <1>1 DEF Sms!list_call
<1>3. /\ Orderly(submitted', tasks', sms_events', SmsCalls, SmsValues)
      /\ Flagged(tasks', sms_events', SmsCalls, busy')
      /\ Replies(tasks', sms_events') = {}
      /\ \E t : t.call = c /\ Sent(tasks') = {t}
  BY <1>2, SmsAsk
<1>4. PICK t : t.call = c /\ Sent(tasks') = {t}
  BY <1>3
<1>5. Listing'
  BY <1>1, <1>4 DEF Listing, To
<1>6. asked'.page = page' /\ asked'.filter = sms_filter'
  BY DEF Sms!view
<1>7. \A x \in Sent(tasks') \cup Replies(tasks', sms_events') :
        To(x, "list") /\ x.call.applied => page' = 1
  BY <1>1, <1>3, <1>4
<1>8. SmsOnTheWay'
  BY <1>3, <1>5, <1>6, <1>7 DEF SmsOnTheWay
<1> QED
  BY <1>3, <1>8

(* Pages of lists.                                                         *)
LEMMA SmsPages ==
  /\ \A n \in Nat : Sms!page_count(n) \in Nat \ {0}
  /\ \A m, n \in Nat : m <= n => Sms!page_count(m) <= Sms!page_count(n)
  /\ \A n \in Nat : n <= MaxPages /\ MaxPages \in Nat \ {0} => Sms!page_count(n) <= MaxPages
  BY DEF Sms!page_count

(* The user acts, and elsewhere events are recorded and recipients edited. *)
LEMMA SmsAct ==
  ASSUME SmsInv, Sms!Act, MaxPages \in Nat \ {0}
  PROVE  /\ Orderly(submitted', tasks', sms_events', SmsCalls, SmsValues)
         /\ alive' => SmsOnTheWay'
         /\ page' \in 1..MaxPages
<1>1. alive
  BY DEF Sms!Act, Sms!ApplyFilters, Sms!Refresh, Sms!OpenHistory, Sms!CloseHistory,
         Sms!Choose, Sms!Record, Sms!EditRecipient, Sms!Turn, Sms!Click, Sms!AtPage
<1>2. /\ Orderly(submitted, tasks, sms_events, SmsCalls, SmsValues) /\ SmsOnTheWay
      /\ Sms!TypeOK
  BY <1>1 DEF SmsInv
<1>3. /\ page \in 1..MaxPages /\ total \in 0..MaxPages /\ sms_filter \in SmsFilters
      /\ \A f \in SmsFilters : sms_pages[f] \in 0..MaxPages
      /\ asked \in Sms!View /\ sms_shown \in Sms!View
      /\ sms_pages \in [SmsFilters -> 0..MaxPages]
  BY <1>2 DEF Sms!TypeOK
<1>4. Sms!Settled => /\ total <= sms_pages[sms_filter]
                     /\ page <= Sms!page_count(sms_pages[sms_filter])
  BY <1>2 DEF SmsOnTheWay
<1>5. CASE Sms!ApplyFilters \/ Sms!Refresh \/ \E to \in {page - 1, page + 1} : Sms!Turn(to)
  <2>1. ~busy
    BY <1>5 DEF Sms!ApplyFilters, Sms!Refresh, Sms!Turn, Sms!Click
  <2>2. UNCHANGED <<sms_events, sms_pages, sms_filter, total, edited>>
    BY <1>5 DEF Sms!ApplyFilters, Sms!Refresh, Sms!Turn
  <2>3. PICK applied \in BOOLEAN :
          /\ Sms!submit(Sms!list_call(applied)) /\ busy' = TRUE
          /\ asked' = Sms!view(page', sms_filter)
          /\ applied => page' = 1
    BY <1>5, <2>1 DEF Sms!ApplyFilters, Sms!Refresh, Sms!Turn, Sms!refresh
  <2>4. \/ page' = 1 \/ page' = page
        \/ page' = page - 1 /\ page' > 0
        \/ page' = page + 1 /\ page' <= Sms!page_count(total)
    <3>1. CASE Sms!ApplyFilters \/ Sms!Refresh
      BY <3>1 DEF Sms!ApplyFilters, Sms!Refresh
    <3>2. CASE \E to \in {page - 1, page + 1} : Sms!Turn(to)
      <4>1. PICK to \in {page - 1, page + 1} :
              /\ page' = to /\ to > 0
              /\ to > page => to <= Sms!page_count(total)
        BY <3>2 DEF Sms!Turn
      <4> QED
        BY <1>3, <4>1
    <3> QED
      BY <1>5, <3>1, <3>2
  <2>5. page' \in 1..MaxPages
    BY <1>3, <2>4, SmsPages
  <2>6. Sms!Settled' => total' <= sms_pages'[sms_filter']
                        /\ page' <= Sms!page_count(sms_pages'[sms_filter'])
    <3>1. PICK n \in Nat : n = sms_pages[sms_filter]
      BY <1>3
    <3>2. PICK k \in Nat, m \in Nat : k = Sms!page_count(n) /\ m = Sms!page_count(total)
      BY <1>3, <3>1, SmsPages
    <3>3. k > 0 /\ (total <= n => m <= k)
      BY <1>3, <3>1, <3>2, SmsPages
    <3>4. Sms!Settled => page' <= k
      BY <1>3, <1>4, <2>4, <3>1, <3>2, <3>3
    <3>5. Sms!Settled' => Sms!Settled
      BY <2>2 DEF Sms!Settled
    <3> QED
      BY <1>4, <2>2, <3>1, <3>2, <3>4, <3>5 DEF Sms!page_count
  <2>7. /\ Orderly(submitted, tasks, sms_events', SmsCalls, SmsValues)
        /\ Sent(tasks) = {} /\ Replies(tasks, sms_events') = {}
        /\ Going(tasks, sms_events', SmsCalls) = {} /\ sms_filter' = sms_filter
    BY <1>2, <2>1, <2>2, SmsIdle
  <2> QED
    BY <2>3, <2>5, <2>6, <2>7, SmsListAsked
<1>6. CASE Sms!OpenHistory
  <2>1. ~busy /\ busy' = TRUE /\ Sms!submit([name |-> "history", applied |-> FALSE])
        /\ UNCHANGED <<sms_events, sms_pages, sms_filter, page, total, sms_shown, asked, edited,
                       failed>>
    BY <1>6 DEF Sms!OpenHistory, Sms!Click, Sms!call, Sms!list
  <2>2. PICK c \in SmsCalls : c = [name |-> "history", applied |-> FALSE]
    BY DEF SmsCalls
  <2>3. /\ Orderly(submitted, tasks, sms_events', SmsCalls, SmsValues)
        /\ Sent(tasks) = {} /\ Replies(tasks, sms_events') = {}
        /\ Going(tasks, sms_events', SmsCalls) = {} /\ ~Listing
    BY <1>2, <2>1, SmsIdle
  <2>4. /\ Orderly(submitted', tasks', sms_events', SmsCalls, SmsValues)
        /\ Flagged(tasks', sms_events', SmsCalls, busy')
        /\ Replies(tasks', sms_events') = {}
        /\ \E t : t.call = c /\ Sent(tasks') = {t}
    BY <2>1, <2>2, <2>3, SmsAsk
  <2>5. \A t \in Sent(tasks') : ~To(t, "list")
    BY <2>2, <2>4 DEF To
  <2>6. ~Listing'
    BY <2>4, <2>5 DEF Listing
  <2>7. SmsOnTheWay'
    BY <1>2, <2>1, <2>3, <2>4, <2>5, <2>6 DEF SmsOnTheWay, Sms!Settled, Sms!page_count
  <2> QED
    BY <1>3, <2>1, <2>4, <2>7
<1>7. CASE Sms!CloseHistory
  <2>1. UNCHANGED <<submitted, tasks, sms_events, busy, sms_pages, sms_filter, page, total,
                    sms_shown, asked, edited, failed>>
    BY <1>7 DEF Sms!CloseHistory, Sms!worker, Sms!list
  <2>2. SmsOnTheWay' /\ Orderly(submitted', tasks', sms_events', SmsCalls, SmsValues)
    BY <1>2, <2>1 DEF SmsOnTheWay, Flagged, Listing, Sms!Settled, Sms!page_count
  <2> QED
    BY <1>3, <2>1, <2>2
<1>8. CASE \E f \in SmsFilters : Sms!Choose(f)
  <2>1. ~busy /\ edited' = TRUE
        /\ UNCHANGED <<submitted, tasks, sms_events, busy, page, total, sms_shown, asked, failed>>
    BY <1>8 DEF Sms!Choose, Sms!worker
  <2>2. /\ Sent(tasks) = {} /\ Replies(tasks, sms_events) = {} /\ ~Listing
    BY <1>2, <2>1, SmsIdle
  <2>3. ~Listing' /\ Sent(tasks') = {} /\ Replies(tasks', sms_events') = {}
    BY <2>1, <2>2 DEF Listing
  <2>4. SmsOnTheWay'
    BY <1>2, <2>1, <2>2, <2>3 DEF SmsOnTheWay, Flagged, Sms!Settled
  <2> QED
    BY <1>2, <1>3, <2>1, <2>4
<1>9. CASE (\E f \in SmsFilters : Sms!Record(f)) \/ \E f \in SmsSearches : Sms!EditRecipient(f)
  <2>1. UNCHANGED <<submitted, tasks, sms_events, busy, sms_filter, page, total, sms_shown,
                    asked, edited, failed>>
    BY <1>9 DEF Sms!Record, Sms!EditRecipient, Sms!worker, Sms!list
  <2>2. PICK m \in Nat, n \in {sms_pages'[sms_filter']} :
          m = sms_pages[sms_filter] /\ (sms_filter \notin SmsSearches => n \in Nat /\ m <= n)
    <3>1. CASE \E f \in SmsFilters : Sms!Record(f)
      BY <1>3, <2>1, <3>1 DEF Sms!Record
    <3>2. CASE \E f \in SmsSearches : Sms!EditRecipient(f)
      BY <1>3, <2>1, <3>2 DEF Sms!EditRecipient
    <3> QED
      BY <1>9, <3>1, <3>2
  <2>3. Listing' <=> Listing
    BY <2>1 DEF Listing
  <2>4. CASE sms_filter \in SmsSearches
    <3>1. SmsOnTheWay'
      BY <1>2, <2>1, <2>3, <2>4 DEF SmsOnTheWay, Flagged, Sms!Settled
    <3> QED
      BY <1>2, <1>3, <2>1, <3>1
  <2>5. CASE sms_filter \notin SmsSearches
    <3>1. n \in Nat /\ m <= n
      BY <2>2, <2>5
    <3>2. PICK j \in Nat, k \in Nat : j = Sms!page_count(m) /\ k = Sms!page_count(n) /\ j <= k
      BY <3>1, SmsPages
    <3>3. \A a \in Replies(tasks', sms_events') : Result(a, "list") =>
            /\ a.value \in [view : {asked'}, total : 0..MaxPages] /\ a.value.total <= n
            /\ Sms!Settled => page <= Sms!page_count(a.value.total)
      <4>1. SUFFICES ASSUME NEW a \in Replies(tasks, sms_events), Result(a, "list")
                     PROVE  /\ a.value \in [view : {asked'}, total : 0..MaxPages]
                            /\ a.value.total <= n
                            /\ Sms!Settled => page <= Sms!page_count(a.value.total)
        BY <2>1
      <4>2. /\ a.value \in [view : {asked}, total : 0..MaxPages] /\ a.value.total <= m
            /\ Sms!Settled => page <= Sms!page_count(a.value.total)
        BY <1>2, <2>2, <2>5, <4>1 DEF SmsOnTheWay
      <4>3. a.value.total \in Nat
        BY <4>2
      <4> QED
        BY <2>1, <3>1, <4>2, <4>3
    <3>4. Sms!Settled' <=> Sms!Settled
      BY <2>1 DEF Sms!Settled
    <3>5. Sms!Settled => total' <= n /\ page' <= k
      BY <1>3, <1>4, <2>1, <2>2, <3>1, <3>2
    <3>6. SmsOnTheWay'
      BY <1>2, <2>1, <2>2, <2>3, <2>5, <3>2, <3>3, <3>4, <3>5
        DEF SmsOnTheWay, Flagged, Sms!page_count
    <3> QED
      BY <1>2, <1>3, <2>1, <3>6
  <2> QED
    BY <2>4, <2>5
<1> QED
  BY <1>5, <1>6, <1>7, <1>8, <1>9 DEF Sms!Act

(* The steps of the pool.                                                  *)
LEMMA SmsWork ==
  ASSUME SmsInv, Sms!Work
  PROVE  /\ Orderly(submitted', tasks', sms_events', SmsCalls, SmsValues)
         /\ SmsOnTheWay'
<1> DEFINE C == SmsCalls
           V == SmsValues
<1>1. /\ Orderly(submitted, tasks, sms_events, C, V) /\ SmsOnTheWay
      /\ Sms!TypeOK
  BY DEF SmsInv, Sms!Work
<1>2. PICK t \in tasks : Sms!Run(t)
  BY DEF Sms!Work
<1>3. t \in Task(C, V) /\ t.call \in C
  BY <1>1 DEF Orderly, Task
<1>4. UNCHANGED <<sms_pages, sms_filter, page, total, sms_shown, asked, edited, failed, busy>>
  BY DEF Sms!Work, Sms!list
<1>5. PICK n \in 0..MaxPages, w \in Sms!View :
        /\ n = sms_pages[sms_filter] /\ w = Sms!view(page, sms_filter)
        /\ w.page = page /\ w.filter = sms_filter
  <2>1. sms_pages[sms_filter] \in 0..MaxPages /\ page \in Nat /\ sms_filter \in SmsFilters
    BY <1>1 DEF Sms!TypeOK
  <2>2. PICK w \in Sms!View : w = [page |-> page, filter |-> sms_filter]
    BY <2>1 DEF Sms!View
  <2> QED
    BY <2>1, <2>2 DEF Sms!view
<1>6. PICK read \in V : /\ read = [view |-> w, total |-> n]
                        /\ read \in [view : {w}, total : 0..MaxPages]
  <2>1. [view |-> w, total |-> n] \in V
    BY DEF SmsValues
  <2> QED
    BY <2>1
<1>7. NoValue \in V
  BY DEF SmsValues
<1>8. CASE \E k \in Answers, v \in V : Sms!Ran(t, k, v) /\ (k = "result" => v = read)
  <2>1. PICK k \in Answers, v \in V : Sms!Ran(t, k, v) /\ (k = "result" => v = read)
    BY <1>8
  <2>2. PICK u : u = [t EXCEPT !.stage = "ran", !.kind = k, !.value = v]
    OBVIOUS
  <2>3. /\ t \in Sent(tasks) /\ submitted' = submitted /\ sms_events' = sms_events
        /\ tasks' = (tasks \ {t}) \cup {u}
    BY <1>2, <2>1, <2>2 DEF Sms!Ran, Sent
  <2>4. /\ u \in Task(C, V) /\ u.id = t.id /\ u.call = t.call /\ u.stage = "ran"
        /\ u.kind = k /\ u.value = v
    BY <1>3, <2>1, <2>2 DEF Task
  <2>5. /\ Orderly(submitted, tasks', sms_events, C, V)
        /\ Sent(tasks') = Sent(tasks) \ {t}
        /\ \E a \in [kind : Answers, id : Nat, call : C, value : V] :
             /\ a.kind = u.kind /\ a.id = t.id /\ a.call = t.call /\ a.value = u.value
             /\ Replies(tasks', sms_events) = Replies(tasks, sms_events) \cup {a}
        /\ \A L : Going(tasks', sms_events, L) = Going(tasks, sms_events, L)
    <3> HIDE DEF C, V
    <3> QED
      BY <1>1, <2>3, <2>4, HasRun
  <2>6. PICK a : /\ a.kind = k /\ a.call = t.call /\ a.value = v
                 /\ Replies(tasks', sms_events') = Replies(tasks, sms_events) \cup {a}
    BY <2>3, <2>4, <2>5
  <2>7. Listing <=> Listing'
    BY <2>3, <2>5, <2>6 DEF Listing, To
  <2>8. Result(a, "list") => a.value = read /\ To(t, "list") /\ Listing
    BY <2>1, <2>3, <2>6 DEF Result, To, Listing
  <2>9. Result(a, "list") => asked = w
    <3>1. asked \in [page : Nat, filter : SmsFilters]
      BY <1>1 DEF Sms!TypeOK, Sms!View
    <3>2. Result(a, "list") => asked.page = w.page /\ asked.filter = w.filter
      BY <1>1, <1>5, <2>8 DEF SmsOnTheWay
    <3>3. w \in [page : Nat, filter : SmsFilters]
      BY DEF Sms!View
    <3> QED
      BY <3>1, <3>2, <3>3
  <2>10. Result(a, "list") => /\ a.value \in [view : {asked}, total : 0..MaxPages]
                              /\ a.value.total = n
    BY <1>6, <2>8, <2>9
  <2>11. \A x \in Sent(tasks') \cup Replies(tasks', sms_events') :
           To(x, "list") /\ x.call.applied => page = 1
    BY <1>1, <2>3, <2>5, <2>6 DEF SmsOnTheWay, To
  <2>12. \A b \in Replies(tasks', sms_events') : Result(b, "list") =>
           /\ b.value \in [view : {asked}, total : 0..MaxPages]
           /\ sms_filter \notin SmsSearches => b.value.total <= n
           /\ Sms!Settled => page <= Sms!page_count(b.value.total)
    BY <1>1, <1>5, <2>6, <2>10 DEF SmsOnTheWay
  <2>13. SmsOnTheWay'
    BY <1>1, <1>4, <1>5, <2>3, <2>5, <2>7, <2>11, <2>12
      DEF SmsOnTheWay, Flagged, Sms!Settled, Sms!page_count
  <2> QED
    BY <2>3, <2>5, <2>13
<1>9. CASE Sms!Told(t) \/ Sms!Ended(t)
  <2>1. PICK u : u = [t EXCEPT !.stage = "told"]
    OBVIOUS
  <2>2. /\ submitted' = submitted
        /\ \/ /\ t.stage = "ran" /\ tasks' = (tasks \ {t}) \cup {u}
              /\ sms_events' = Append(sms_events, [kind |-> t.kind, id |-> t.id,
                                                   call |-> t.call, value |-> t.value])
           \/ /\ t.stage = "told" /\ tasks' = tasks \ {t}
              /\ sms_events' = Append(sms_events, [kind |-> "finished", id |-> t.id,
                                                   call |-> t.call, value |-> t.value])
    BY <1>9, <2>1 DEF Sms!Told, Sms!Ended, Sms!Event
  <2>3. u \in Task(C, V) /\ u.id = t.id /\ u.call = t.call /\ u.stage = "told"
    BY <1>3, <2>1 DEF Task
  <2> HIDE DEF C, V
  <2>4. /\ Orderly(submitted, tasks', sms_events', C, V)
        /\ Same(tasks, sms_events, tasks', sms_events')
    BY <1>1, <1>2, <2>2, <2>3, HasPosted
  <2>5. Listing' <=> Listing
    BY <2>4 DEF Listing, Same
  <2>6. SmsOnTheWay'
    BY <1>1, <1>4, <2>4, <2>5 DEF SmsOnTheWay, Flagged, Same, Sms!Settled, Sms!page_count
  <2> QED
    BY <2>2, <2>4, <2>6 DEF C, V
<1> QED
  <2>1. {"result", "error", "denied"} \subseteq Answers
    BY DEF Answers
  <2> QED
    BY <1>2, <1>5, <1>6, <1>7, <1>8, <1>9, <2>1 DEF Sms!Run

(* Timers and events reach their handler.                                  *)
LEMMA SmsDeliver ==
  ASSUME SmsInv, Sms!Deliver, MaxPages \in Nat \ {0}
  PROVE  /\ Orderly(submitted', tasks', sms_events', SmsCalls, SmsValues)
         /\ alive' => SmsOnTheWay'
         /\ total' \in 0..MaxPages /\ sms_shown' \in Sms!View
<1> DEFINE C == SmsCalls
           V == SmsValues
<1>1. alive /\ sms_events # <<>> /\ sms_events' = Tail(sms_events)
      /\ UNCHANGED <<sms_pages, sms_filter, page>>
  BY DEF Sms!Deliver, Sms!Timer, Sms!Populate, Sms!ShowHistory, Sms!Failed, Sms!Denied,
         Sms!Finished, Sms!Arrived, Sms!Delivered, Sms!list
<1>2. /\ Orderly(submitted, tasks, sms_events, C, V) /\ SmsOnTheWay
      /\ Sms!TypeOK
  BY <1>1 DEF SmsInv
<1>3. /\ page \in 1..MaxPages /\ total \in 0..MaxPages
      /\ sms_shown \in Sms!View /\ asked \in Sms!View
  BY <1>2 DEF Sms!TypeOK
<1>4. PICK n \in 0..MaxPages : n = sms_pages[sms_filter] /\ n = sms_pages'[sms_filter']
  BY <1>1, <1>2 DEF Sms!TypeOK
<1>5. PICK h, r : h = Head(sms_events) /\ r = Tail(sms_events)
  OBVIOUS
<1>6. /\ h \in Posted(C, V)
      /\ Orderly(submitted, tasks, sms_events', C, V)
      /\ Taken(tasks, sms_events, h, sms_events')
  <2>1. sms_events' = r
    BY <1>1, <1>5
  <2> HIDE DEF C, V
  <2>2. h \in Posted(C, V) /\ Orderly(submitted, tasks, r, C, V)
        /\ Taken(tasks, sms_events, h, r)
    BY <1>1, <1>2, <1>5, Delivering
  <2> QED
    BY <2>1, <2>2
<1>7. h.kind # "timer" => h.call \in C
  BY <1>6, PostedFields
<1>8. CASE Sms!Timer
  <2>1. /\ h.kind = "timer" /\ Sms!refresh(page, FALSE)
        /\ UNCHANGED <<total, sms_shown, edited, failed>>
    BY <1>5, <1>8 DEF Sms!Timer, Sms!Arrived, Sms!Delivered
  <2>2. /\ Replies(tasks, sms_events') = Replies(tasks, sms_events)
        /\ \A K : Going(tasks, sms_events', K) = Going(tasks, sms_events, K)
    BY <1>6, <2>1 DEF Taken
  <2>3. CASE busy
    <3>1. UNCHANGED <<tasks, submitted, busy, asked>>
      BY <2>1, <2>3 DEF Sms!refresh, Sms!NoSubmit
    <3>2. Listing' <=> Listing
      BY <2>2, <3>1 DEF Listing
    <3>3. SmsOnTheWay'
      BY <1>1, <1>2, <2>1, <2>2, <3>1, <3>2
        DEF SmsOnTheWay, Flagged, Sms!Settled, Sms!page_count
    <3> QED
      BY <1>3, <1>6, <2>1, <3>1, <3>3
  <2>4. CASE ~busy
    <3>1. PICK applied \in BOOLEAN : applied = FALSE
      OBVIOUS
    <3>2. /\ busy' = TRUE /\ Sms!submit(Sms!list_call(applied))
          /\ asked' = Sms!view(page', sms_filter)
      BY <1>1, <2>1, <2>4, <3>1 DEF Sms!refresh
    <3>3. /\ Sent(tasks) = {} /\ Replies(tasks, sms_events') = {}
          /\ Going(tasks, sms_events', SmsCalls) = {}
      BY <1>2, <2>2, <2>4, SmsIdle
    <3>4. Sms!Settled' => total' <= sms_pages'[sms_filter']
                          /\ page' <= Sms!page_count(sms_pages'[sms_filter'])
      BY <1>1, <1>2, <1>4, <2>1 DEF SmsOnTheWay, Sms!Settled
    <3>5. sms_filter' = sms_filter /\ (applied => page' = 1)
      BY <1>1, <3>1
    <3>6. Orderly(submitted', tasks', sms_events', C, V) /\ SmsOnTheWay'
      BY <1>6, <3>2, <3>3, <3>4, <3>5, SmsListAsked
    <3> QED
      BY <1>3, <2>1, <3>6
  <2> QED
    BY <2>3, <2>4
<1>9. ASSUME h.kind \in Answers, tasks' = tasks, submitted' = submitted, busy' = busy,
             UNCHANGED asked
      PROVE  /\ Orderly(submitted', tasks', sms_events', C, V)
             /\ h \in Replies(tasks, sms_events)
             /\ Replies(tasks', sms_events') = Replies(tasks, sms_events) \ {h}
             /\ Sent(tasks') = Sent(tasks)
             /\ Flagged(tasks', sms_events', SmsCalls, busy')
             /\ Listing' => Listing
             /\ ~To(h, "list") => (Listing' <=> Listing)
  <2>1. /\ h \in Replies(tasks, sms_events)
        /\ Replies(tasks, sms_events') = Replies(tasks, sms_events) \ {h}
        /\ \A K : Going(tasks, sms_events', K) = Going(tasks, sms_events, K)
    BY <1>6, <1>9 DEF Taken
  <2>2. Flagged(tasks', sms_events', SmsCalls, busy')
    BY <1>2, <1>9, <2>1 DEF SmsOnTheWay, Flagged
  <2>3. (Listing' => Listing) /\ (~To(h, "list") => (Listing' <=> Listing))
    BY <1>9, <2>1 DEF Listing
  <2> QED
    BY <1>6, <1>9, <2>1, <2>2, <2>3
<1>10. CASE Sms!Populate
  <2>1. /\ h.kind = "result" /\ To(h, "list")
        /\ UNCHANGED <<tasks, submitted, busy, asked>>
        /\ total' = h.value.total /\ sms_shown' = h.value.view
        /\ ~edited' => ~edited \/ h.call.applied
        /\ failed' = FALSE
    BY <1>5, <1>10 DEF Sms!Populate, Sms!Arrived, Sms!Delivered, Sms!NoSubmit, Sms!Of, To
  <2>2. /\ Orderly(submitted', tasks', sms_events', C, V)
        /\ h \in Replies(tasks, sms_events)
        /\ Replies(tasks', sms_events') = Replies(tasks, sms_events) \ {h}
        /\ Sent(tasks') = Sent(tasks)
        /\ Flagged(tasks', sms_events', SmsCalls, busy')
    BY <1>9, <2>1 DEF Answers
  <2>3. Replies(tasks', sms_events') = {} /\ Sent(tasks') = {}
    <3>1. /\ h.id \in Going(tasks, sms_events, SmsCalls)
          /\ \A x \in Going(tasks, sms_events, SmsCalls) : x = h.id
      <4>1. h.id \in Going(tasks, sms_events, SmsCalls)
        BY <1>2, <1>7, <2>1, <2>2, OnTheWay
      <4> QED
        BY <1>2, <4>1 DEF SmsOnTheWay, Flagged
    <3>2. \A t \in Sent(tasks) : t.call \in C
      <4>1. Sent(tasks) \subseteq Task(C, V)
        BY <1>2, OnTheWay
      <4> QED
        BY <4>1 DEF Task
    <3>3. \A a \in Replies(tasks, sms_events) : a.call \in C
      <4>1. \A a \in Replies(tasks, sms_events) :
              a \in [kind : Answers, id : Nat, call : C, value : V]
        BY <1>2, OnTheWay
      <4> QED
        BY <4>1
    <3>4. /\ \A t \in Sent(tasks) : t.id \in Going(tasks, sms_events, SmsCalls) /\ t.id # h.id
          /\ \A a \in Replies(tasks, sms_events) :
               a.id \in Going(tasks, sms_events, SmsCalls) /\ (a.id = h.id => a = h)
      BY <1>2, <2>2, <3>2, <3>3, OnTheWay
    <3> QED
      BY <2>2, <3>1, <3>4
  <2>4. ~Listing'
    BY <2>3 DEF Listing
  <2>5. /\ h.value \in [view : {asked}, total : 0..MaxPages]
        /\ sms_filter \notin SmsSearches => h.value.total <= n
        /\ Sms!Settled => page <= Sms!page_count(h.value.total)
        /\ h.call.applied => page = 1
    <3>1. Result(h, "list")
      BY <2>1 DEF Result, To
    <3> QED
      BY <1>2, <1>4, <2>1, <2>2, <3>1 DEF SmsOnTheWay
  <2>6. total' \in 0..MaxPages /\ sms_shown' = asked
    BY <2>1, <2>5
  <2>7. PICK m \in 0..MaxPages : m = total'
    BY <2>6
  <2>8. ASSUME Sms!Settled'
        PROVE  /\ m <= n /\ page <= Sms!page_count(m) /\ page <= Sms!page_count(n)
    <3>1. m \in Nat /\ n \in Nat /\ m <= n
      BY <1>1, <2>1, <2>5, <2>7, <2>8 DEF Sms!Settled
    <3>2. PICK j \in Nat, k \in Nat : j = Sms!page_count(m) /\ k = Sms!page_count(n)
      BY <3>1, SmsPages
    <3>3. j > 0 /\ j <= k
      BY <3>1, <3>2, SmsPages
    <3>4. Sms!Settled \/ page = 1
      BY <1>1, <2>1, <2>5, <2>8 DEF Sms!Settled
    <3> QED
      BY <1>3, <2>1, <2>5, <2>7, <3>1, <3>2, <3>3, <3>4
  <2>9. Sms!Settled' => /\ total' <= sms_pages'[sms_filter']
                        /\ page' <= Sms!page_count(sms_pages'[sms_filter'])
                        /\ page' <= Sms!page_count(total')
    BY <1>1, <1>4, <2>7, <2>8
  <2>10. asked'.page = page'
    BY <1>1, <1>2, <2>1 DEF SmsOnTheWay
  <2>11. SmsOnTheWay'
    BY <2>1, <2>2, <2>3, <2>4, <2>6, <2>9, <2>10 DEF SmsOnTheWay, Sms!page_count
  <2> QED
    BY <1>3, <2>2, <2>6, <2>11
<1>11. CASE Sms!ShowHistory \/ Sms!Failed
  <2>1. /\ h.kind \in Answers
        /\ UNCHANGED <<tasks, submitted, busy, asked, total, sms_shown, edited>>
        /\ \/ h.kind = "result" /\ ~To(h, "list") /\ failed' = failed
           \/ h.kind = "error" /\ (failed => failed') /\ (To(h, "list") => failed')
              /\ (~To(h, "list") => (failed' <=> failed))
    BY <1>5, <1>11 DEF Sms!ShowHistory, Sms!Failed, Sms!Arrived, Sms!Delivered, Sms!NoSubmit,
                       Sms!Of, Sms!list, To, Answers
  <2>2. /\ Orderly(submitted', tasks', sms_events', C, V)
        /\ Replies(tasks', sms_events') = Replies(tasks, sms_events) \ {h}
        /\ Sent(tasks') = Sent(tasks)
        /\ Flagged(tasks', sms_events', SmsCalls, busy')
        /\ Listing' => Listing
        /\ ~To(h, "list") => (Listing' <=> Listing)
    BY <1>9, <2>1
  <2>3. failed' \/ (~failed /\ (Listing' <=> Listing))
    BY <2>1, <2>2
  <2>4. SmsOnTheWay'
    BY <1>1, <1>2, <2>1, <2>2, <2>3 DEF SmsOnTheWay, Sms!Settled, Sms!page_count
  <2> QED
    BY <1>3, <2>1, <2>2, <2>4
<1>12. CASE Sms!Denied
  <2>1. UNCHANGED <<tasks, submitted, total, sms_shown>> /\ ~alive'
    BY <1>12 DEF Sms!Denied, Sms!NoSubmit, Sms!list
  <2> QED
    BY <1>3, <1>6, <2>1
<1>13. CASE Sms!Finished
  <2>1. /\ h.kind = "finished" /\ busy' = FALSE
        /\ UNCHANGED <<tasks, submitted, asked, total, sms_shown, edited, failed>>
    BY <1>5, <1>13 DEF Sms!Finished, Sms!Arrived, Sms!Delivered, Sms!NoSubmit, Sms!list
  <2>2. /\ Replies(tasks, sms_events') = Replies(tasks, sms_events)
        /\ Going(tasks, sms_events', SmsCalls) = Going(tasks, sms_events, SmsCalls) \ {h.id}
        /\ h.id \in Going(tasks, sms_events, SmsCalls)
    BY <1>6, <1>7, <2>1 DEF Taken
  <2>3. Going(tasks, sms_events', SmsCalls) = {}
    BY <1>2, <2>2 DEF SmsOnTheWay, Flagged
  <2>4. Listing' <=> Listing
    BY <2>1, <2>2 DEF Listing
  <2>5. SmsOnTheWay'
    BY <1>1, <1>2, <2>1, <2>2, <2>3, <2>4
      DEF SmsOnTheWay, Flagged, Sms!Settled, Sms!page_count
  <2> QED
    BY <1>3, <1>6, <2>1, <2>5
<1> QED
  BY <1>8, <1>10, <1>11, <1>12, <1>13 DEF Sms!Deliver

(* Every step of this page preserves its invariant.                        *)
LEMMA SmsStep ==
  ASSUME SmsInv, Sms!Next, SmsClicks \in Nat, MaxPages \in Nat \ {0}
  PROVE  SmsInv'
<1> USE DEF Sms!list
<1>1. Sms!TypeOK
  BY DEF SmsInv
<1>2. /\ Orderly(submitted', tasks', sms_events', SmsCalls, SmsValues)
      /\ alive' => SmsOnTheWay'
  BY SmsAct, SmsWork, SmsDeliver DEF Sms!Next
<1>3. \A t \in tasks' : t.id \in 1..submitted' /\ t.call.name \in {"list", "history"}
  BY <1>2 DEF Orderly, Task, SmsCalls
<1>4. /\ page \in 1..MaxPages /\ total \in 0..MaxPages /\ sms_filter \in SmsFilters
      /\ sms_pages \in [SmsFilters -> 0..MaxPages]
      /\ sms_shown \in Sms!View /\ asked \in Sms!View
  BY <1>1 DEF Sms!TypeOK
<1>5. sms_filter' \in SmsFilters /\ sms_pages' \in [SmsFilters -> 0..MaxPages]
  <2>1. CASE Sms!Act
    <3>1. sms_filter' \in {sms_filter} \cup SmsFilters
      BY <2>1 DEF Sms!Act, Sms!ApplyFilters, Sms!Refresh, Sms!OpenHistory, Sms!CloseHistory,
                  Sms!Choose, Sms!Record, Sms!EditRecipient, Sms!Turn
    <3>2. \/ sms_pages' = sms_pages
          \/ \E f \in SmsFilters : /\ sms_pages[f] < MaxPages
                                   /\ sms_pages' = [sms_pages EXCEPT ![f] = @ + 1]
          \/ \E f \in SmsSearches : /\ sms_pages[f] > 0
                                    /\ sms_pages' = [sms_pages EXCEPT ![f] = @ - 1]
      BY <2>1 DEF Sms!Act, Sms!ApplyFilters, Sms!Refresh, Sms!OpenHistory, Sms!CloseHistory,
                  Sms!Choose, Sms!Record, Sms!EditRecipient, Sms!Turn
    <3> QED
      BY <1>4, <3>1, <3>2
  <2>2. CASE Sms!Work \/ Sms!Deliver
    <3>1. UNCHANGED <<sms_filter, sms_pages>>
      BY <2>2 DEF Sms!Work, Sms!Deliver, Sms!Timer, Sms!Populate, Sms!ShowHistory, Sms!Failed,
                  Sms!Denied, Sms!Finished
    <3> QED
      BY <1>4, <3>1
  <2> QED
    BY <2>1, <2>2 DEF Sms!Next
<1>6. page' \in 1..MaxPages
  <2>1. CASE Sms!Act
    BY <2>1, SmsAct
  <2>2. CASE Sms!Work \/ Sms!Deliver
    <3>1. page' = page
      BY <2>2 DEF Sms!Work, Sms!Deliver, Sms!Timer, Sms!Populate, Sms!ShowHistory, Sms!Failed,
                  Sms!Denied, Sms!Finished
    <3> QED
      BY <1>4, <3>1
  <2> QED
    BY <2>1, <2>2 DEF Sms!Next
<1>7. total' \in 0..MaxPages /\ sms_shown' \in Sms!View
  <2>1. CASE Sms!Act \/ Sms!Work
    <3>1. UNCHANGED <<total, sms_shown>>
      BY <2>1 DEF Sms!Work, Sms!Act, Sms!ApplyFilters, Sms!Refresh, Sms!OpenHistory,
                  Sms!CloseHistory, Sms!Choose, Sms!Record, Sms!EditRecipient, Sms!Turn
    <3> QED
      BY <1>4, <3>1
  <2>2. CASE Sms!Deliver
    BY <2>2, SmsDeliver
  <2> QED
    BY <2>1, <2>2 DEF Sms!Next
<1>8. asked' \in Sms!View
  <2>1. asked' = asked \/ asked' = Sms!view(page', sms_filter)
    BY DEF Sms!Next, Sms!Work, Sms!Act, Sms!ApplyFilters, Sms!Refresh, Sms!OpenHistory,
           Sms!CloseHistory, Sms!Choose, Sms!Record, Sms!EditRecipient, Sms!Turn, Sms!Deliver,
           Sms!Timer, Sms!Populate, Sms!ShowHistory, Sms!Failed, Sms!Denied, Sms!Finished,
           Sms!refresh
  <2>2. Sms!view(page', sms_filter) \in Sms!View
    BY <1>4, <1>6 DEF Sms!view, Sms!View
  <2> QED
    BY <1>4, <2>1, <2>2
<1>9. {busy', history', alive', edited', failed'} \subseteq BOOLEAN
  <2>1. /\ busy \in BOOLEAN /\ history \in BOOLEAN /\ alive \in BOOLEAN
        /\ edited \in BOOLEAN /\ failed \in BOOLEAN
    BY <1>1 DEF Sms!TypeOK
  <2>2. /\ (edited /\ ~Head(sms_events).call.applied) \in BOOLEAN
        /\ (failed \/ Sms!Of("list")) \in BOOLEAN
    BY Zenon
  <2>3. /\ busy' \in {busy, TRUE, FALSE} /\ history' \in {history, TRUE, FALSE}
        /\ alive' \in {alive, FALSE}
        /\ edited' \in {edited, TRUE, edited /\ ~Head(sms_events).call.applied}
        /\ failed' \in {failed, FALSE, failed \/ Sms!Of("list")}
    <3>1. CASE Sms!Act
      BY <3>1 DEF Sms!Act, Sms!ApplyFilters, Sms!Refresh, Sms!OpenHistory, Sms!CloseHistory,
                  Sms!Choose, Sms!Record, Sms!EditRecipient, Sms!Turn, Sms!refresh
    <3>2. CASE Sms!Work
      BY <3>2 DEF Sms!Work
    <3>3. CASE Sms!Deliver
      BY <3>3 DEF Sms!Deliver, Sms!Timer, Sms!Populate, Sms!ShowHistory, Sms!Failed,
                  Sms!Denied, Sms!Finished, Sms!refresh
    <3> QED
      BY <3>1, <3>2, <3>3 DEF Sms!Next
  <2>4. busy' \in BOOLEAN /\ history' \in BOOLEAN /\ alive' \in BOOLEAN
    BY <2>1, <2>3, Zenon
  <2>5. edited' \in BOOLEAN /\ failed' \in BOOLEAN
    BY <2>1, <2>2, <2>3, Zenon
  <2> QED
    BY <2>4, <2>5
<1>10. clicks' \in 0..SmsClicks
  <2>1. clicks' = clicks \/ (clicks < SmsClicks /\ clicks' = clicks + 1)
    BY DEF Sms!Next, Sms!Work, Sms!Act, Sms!ApplyFilters, Sms!Refresh, Sms!OpenHistory,
           Sms!CloseHistory, Sms!Choose, Sms!Record, Sms!EditRecipient, Sms!Turn, Sms!Click,
           Sms!Deliver, Sms!Timer, Sms!Populate, Sms!ShowHistory, Sms!Failed, Sms!Denied,
           Sms!Finished
  <2>2. clicks \in 0..SmsClicks
    BY <1>1 DEF Sms!TypeOK
  <2> QED
    BY <2>1, <2>2
<1>11. Sms!TypeOK'
  <2>1. {sms_shown', asked'} \subseteq Sms!View
    BY <1>7, <1>8
  <2> QED
    BY <1>3, <1>5, <1>6, <1>7, <1>9, <1>10, <2>1 DEF Sms!TypeOK, Sms!View
<1> QED
  BY <1>2, <1>11 DEF SmsInv

(* ----------------------------- all pages ------------------------------- *)

(* A page starts with a zero timer and nothing else.                       *)
LEMMA Starting ==
  ASSUME NEW C, NEW V,
         NEW e \in [kind : {"timer"}, id : {0}, call : TimerCalls, value : {NoValue}],
         NEW q, q = Append(<<>>, e)
  PROVE  /\ Orderly(0, {}, q, C, V)
         /\ Sent({}) = {} /\ Replies({}, q) = {} /\ \A K : Going({}, q, K) = {}
         /\ Waiting(q)
<1>1. Orderly(0, {}, <<>>, C, V)
  BY FS_EmptySet DEF Orderly
<1>2. Orderly(0, {}, q, C, V) /\ Timed({}, <<>>, q)
  BY <1>1, Timing
<1> QED
  BY <1>2, Still DEF Timed

(* The invariant holds initially.                                          *)
LEMMA PagesStart ==
  ASSUME PagesInit
  PROVE  PagesInv
<1> USE PagesAssumption
<1>1. submitted = 0 /\ tasks = {} /\ alive /\ clicks = 0
  BY DEF PagesInit, Clients!Init
<1>2. /\ ClientsClicks \in Nat /\ UsersClicks \in Nat /\ ShipmentsClicks \in Nat
      /\ SmsClicks \in Nat /\ MaxPages \in Nat \ {0}
  OBVIOUS
<1>3. /\ 0 \in 0..ClientsClicks /\ 0 \in 0..UsersClicks /\ 0 \in 0..ShipmentsClicks
      /\ 0 \in 0..SmsClicks /\ 1 \in 1..MaxPages /\ 0 \in 0..MaxPages
      /\ 0 \in 0..0 /\ 0 \in -1..0 /\ -1 \in -1..0
  BY <1>2
<1>4. ClientsInv
  <2>1. PICK e : e = [kind |-> "timer", id |-> 0, call |-> [name |-> "list", dialog |-> 0],
                      value |-> NoValue]
    OBVIOUS
  <2>2. /\ e \in [kind : {"timer"}, id : {0}, call : TimerCalls, value : {NoValue}]
        /\ client_events = Append(<<>>, e)
    BY <2>1 DEF PagesInit, Clients!Init, Clients!singleShot, Clients!call, TimerCalls
  <2>3. /\ Orderly(0, {}, client_events, ClientsCalls, ClientsValues)
        /\ Replies({}, client_events) = {} /\ \A K : Going({}, client_events, K) = {}
        /\ Waiting(client_events)
    BY <2>2, Starting
  <2>4. ClientsOnTheWay
    BY <1>1, <2>3 DEF PagesInit, Clients!Init, ClientsOnTheWay, Flagged
  <2>5. Clients!TypeOK
    BY <1>1, <1>3 DEF PagesInit, Clients!Init, Clients!TypeOK, Clients!NoDialog, Clients!Kinds
  <2> QED
    BY <1>1, <2>3, <2>4, <2>5 DEF ClientsInv
<1>5. UsersInv
  <2>1. PICK e : e = [kind |-> "timer", id |-> 0, call |-> [name |-> "list"],
                      value |-> NoValue]
    OBVIOUS
  <2>2. /\ e \in [kind : {"timer"}, id : {0}, call : TimerCalls, value : {NoValue}]
        /\ user_events = Append(<<>>, e)
    BY <2>1 DEF PagesInit, Users!Init, Users!singleShot, Users!call, TimerCalls
  <2>3. /\ Orderly(0, {}, user_events, UsersCalls, UsersValues)
        /\ Replies({}, user_events) = {} /\ \A K : Going({}, user_events, K) = {}
        /\ Waiting(user_events)
    BY <2>2, Starting
  <2>4. UsersOnTheWay
    BY <1>1, <2>3 DEF PagesInit, Users!Init, UsersOnTheWay, PasswordsOnTheWay, UserListOnTheWay
  <2>5. Users!TypeOK
    BY <1>1, <1>3 DEF PagesInit, Users!Init, Users!TypeOK, Users!NoDialog, Users!Kinds
  <2> QED
    BY <1>1, <2>3, <2>4, <2>5 DEF UsersInv
<1>6. ShipmentsInv /\ shown.generation = 0 /\ shown.changes = 0
  <2>1. PICK e : e = [kind |-> "timer", id |-> 0, call |-> [name |-> "load"],
                      value |-> NoValue]
    OBVIOUS
  <2>2. /\ e \in [kind : {"timer"}, id : {0}, call : TimerCalls, value : {NoValue}]
        /\ events = Append(<<>>, e)
    BY <2>1 DEF PagesInit, Shipments!Init, Shipments!singleShot, Shipments!call, TimerCalls
  <2>3. /\ Orderly(0, {}, events, ShipmentsCalls, ShipmentsValues)
        /\ Replies({}, events) = {} /\ \A K : Going({}, events, K) = {}
        /\ Waiting(events)
    BY <2>2, Starting
  <2>4. shown = [generation |-> 0, page |-> 1, changes |-> 0]
    BY DEF PagesInit, Shipments!Init, Shipments!Blank
  <2>5. generation = 0 /\ mutation_busy = FALSE
    BY DEF PagesInit, Shipments!Init
  <2>6. ShipmentsOnTheWay
    BY <1>1, <2>3, <2>5
      DEF ShipmentsOnTheWay, LoadsOnTheWay, TableTrue, ChangesOnTheWay, Flagged
  <2>7. Shipments!TypeOK
    <3>1. shown \in [generation : 0..generation, page : 1..MaxPages, changes : 0..changes]
      BY <1>3, <2>4, <2>5 DEF PagesInit, Shipments!Init
    <3>2. dialog \in [kind : Shipments!Kinds, call : -1..submitted]
      BY <1>1, <1>3 DEF PagesInit, Shipments!Init, Shipments!NoDialog, Shipments!Kinds
    <3> QED
      BY <1>1, <1>3, <3>1, <3>2 DEF PagesInit, Shipments!Init, Shipments!TypeOK
  <2> QED
    BY <1>1, <2>3, <2>4, <2>6, <2>7 DEF ShipmentsInv
<1>7. SmsInv
  <2>1. PICK e : e = [kind |-> "timer", id |-> 0,
                      call |-> [name |-> "list", applied |-> FALSE], value |-> NoValue]
    OBVIOUS
  <2>2. /\ e \in [kind : {"timer"}, id : {0}, call : TimerCalls, value : {NoValue}]
        /\ sms_events = Append(<<>>, e)
    BY <2>1 DEF PagesInit, Sms!Init, Sms!singleShot, Sms!call, TimerCalls
  <2>3. /\ Orderly(0, {}, sms_events, SmsCalls, SmsValues)
        /\ Sent({}) = {} /\ Replies({}, sms_events) = {}
        /\ \A K : Going({}, sms_events, K) = {}
    BY <2>2, Starting
  <2>4. /\ page = 1 /\ total = 0 /\ sms_filter \in SmsFilters /\ asked = sms_shown
        /\ sms_pages \in [SmsFilters -> 0..MaxPages] /\ busy = FALSE
        /\ sms_shown = [page |-> 1, filter |-> sms_filter]
    BY DEF PagesInit, Sms!Init, Sms!view
  <2>5. PICK n \in 0..MaxPages : n = sms_pages[sms_filter]
    BY <2>4
  <2>6. 0 <= n /\ 1 <= Sms!page_count(n) /\ 1 <= Sms!page_count(0)
    BY <1>2 DEF Sms!page_count
  <2>7. SmsOnTheWay
    BY <1>1, <2>3, <2>4, <2>5, <2>6 DEF SmsOnTheWay, Flagged, Listing
  <2>8. sms_shown \in Sms!View
    BY <2>4 DEF Sms!View
  <2>9. Sms!TypeOK
    BY <1>1, <1>3, <2>4, <2>8 DEF PagesInit, Sms!Init, Sms!TypeOK
  <2> QED
    BY <1>1, <2>3, <2>7, <2>9 DEF SmsInv
<1> QED
  BY <1>4, <1>5, <1>6, <1>7 DEF PagesInv, PagesInit, Clients!Init

(* Every step preserves it, and no list grows older.                       *)
LEMMA PagesStep ==
  ASSUME PagesInv, [PagesNext]_all
  PROVE  /\ PagesInv'
         /\ listed' >= listed
         /\ shown'.generation >= shown.generation /\ shown'.changes >= shown.changes
<1> USE PagesAssumption
<1>1. /\ ClientsClicks \in Nat /\ UsersClicks \in Nat /\ ShipmentsClicks \in Nat
      /\ SmsClicks \in Nat /\ MaxPages \in Nat \ {0}
  OBVIOUS
<1>2. listed \in Int /\ shown.generation \in Int /\ shown.changes \in Int
  BY DEF PagesInv
<1>3. CASE OnClients(Clients!Next)
  <2>1. opened = "clients" /\ opened' = opened /\ shown' = shown /\ Clients!Next
    BY <1>3 DEF OnClients, of_shipments
  <2>2. ClientsInv' /\ listed' >= listed
    BY <1>1, <2>1, ClientsStep DEF PagesInv
  <2>3. listed' \in Int
    BY <2>2 DEF ClientsInv, Clients!TypeOK
  <2> QED
    BY <1>2, <2>1, <2>2, <2>3 DEF PagesInv
<1>4. CASE OnUsers(Users!Next)
  <2>1. opened = "users" /\ opened' = opened /\ shown' = shown /\ listed' = listed
        /\ Users!Next
    BY <1>4 DEF OnUsers, of_shipments, of_clients
  <2>2. UsersInv'
    BY <1>1, <2>1, UsersStep DEF PagesInv
  <2> QED
    BY <1>2, <2>1, <2>2 DEF PagesInv
<1>5. CASE OnShipments(Shipments!Next)
  <2>1. opened = "shipments" /\ opened' = opened /\ listed' = listed /\ Shipments!Next
    BY <1>5 DEF OnShipments, of_clients
  <2>2. /\ ShipmentsInv'
        /\ shown'.generation >= shown.generation /\ shown'.changes >= shown.changes
    BY <1>1, <2>1, ShipmentsStep DEF PagesInv
  <2>3. shown'.generation \in Int /\ shown'.changes \in Int
    BY <2>2 DEF ShipmentsInv, Shipments!TypeOK
  <2> QED
    BY <1>2, <2>1, <2>2, <2>3 DEF PagesInv
<1>6. CASE OnSms(Sms!Next)
  <2>1. opened = "sms" /\ opened' = opened /\ shown' = shown /\ listed' = listed
        /\ Sms!Next
    BY <1>6 DEF OnSms, of_shipments, of_clients
  <2>2. SmsInv'
    BY <1>1, <2>1, SmsStep DEF PagesInv
  <2> QED
    BY <1>2, <2>1, <2>2 DEF PagesInv
<1>7. CASE UNCHANGED all
  <2> USE <1>7 DEF all, of_clients, of_users, of_shipments, of_sms
  <2>1. ClientsInv => ClientsInv'
    BY DEF ClientsInv, Clients!TypeOK, ClientsOnTheWay, Flagged
  <2>2. UsersInv => UsersInv'
    BY DEF UsersInv, Users!TypeOK, UsersOnTheWay, PasswordsOnTheWay, UserListOnTheWay
  <2>3. ShipmentsInv => ShipmentsInv'
    BY DEF ShipmentsInv, Shipments!TypeOK, ShipmentsOnTheWay, LoadsOnTheWay, TableTrue,
           ChangesOnTheWay, Flagged, Loading, Newest, Newer, Shipments!page_count
  <2>4. SmsInv => SmsInv'
    BY DEF SmsInv, Sms!TypeOK, SmsOnTheWay, Flagged, Listing, Sms!Settled, Sms!page_count
  <2> QED
    BY <1>2, <2>1, <2>2, <2>3, <2>4 DEF PagesInv
<1> QED
  BY <1>3, <1>4, <1>5, <1>6, <1>7 DEF PagesNext

(* What a page has under way is what its flag says.                        *)
LEMMA PagesFlagged ==
  ASSUME PagesInv
  PROVE  OneCallAtATime
<1>1. ASSUME opened = "clients", alive PROVE Clients!OneCall
  <2>1. /\ Orderly(submitted, tasks, client_events, ClientsCalls, ClientsValues)
        /\ Flagged(tasks, client_events, ClientsCalls, busy)
    BY <1>1 DEF PagesInv, ClientsInv, ClientsOnTheWay
  <2>2. PICK N : N = {"list", "change"}
    OBVIOUS
  <2>3. Named(ClientsCalls, N) = ClientsCalls
    BY <2>2 DEF Named, ClientsCalls, Clients!Call
  <2>4. Cardinality({t \in tasks : t.call.name \in N})
        + Cardinality({i \in DOMAIN client_events :
                         client_events[i].kind = "finished" /\ client_events[i].call.name \in N})
        = IF Going(tasks, client_events, ClientsCalls) = {} THEN 0 ELSE 1
    BY <2>1, <2>3, Counted DEF Flagged
  <2>5. Clients!UnderWay(N) = IF busy THEN 1 ELSE 0
    BY <2>1, <2>4, CardinalityOfPages DEF Clients!UnderWay, Flagged
  <2> QED
    BY <2>2, <2>5 DEF Clients!OneCall
<1>2. ASSUME opened = "shipments", alive PROVE Shipments!OneMutation
  <2>1. /\ Orderly(submitted, tasks, events, ShipmentsCalls, ShipmentsValues)
        /\ Flagged(tasks, events, OtherCalls, mutation_busy)
    BY <1>2 DEF PagesInv, ShipmentsInv, ShipmentsOnTheWay
  <2>2. PICK N : N = Shipments!Others
    OBVIOUS
  <2>3. Named(ShipmentsCalls, N) = OtherCalls
    BY <2>2 DEF Named, ShipmentsCalls, Loads, OtherCalls, Shipments!Others
  <2>4. Cardinality({t \in tasks : t.call.name \in N})
        + Cardinality({i \in DOMAIN events :
                         events[i].kind = "finished" /\ events[i].call.name \in N})
        = IF Going(tasks, events, OtherCalls) = {} THEN 0 ELSE 1
    BY <2>1, <2>3, Counted DEF Flagged
  <2>5. Shipments!UnderWay(N) = IF mutation_busy THEN 1 ELSE 0
    BY <2>1, <2>4, CardinalityOfPages DEF Shipments!UnderWay, Flagged
  <2> QED
    BY <2>2, <2>5 DEF Shipments!OneMutation
<1>3. ASSUME opened = "sms", alive PROVE Sms!OneCall
  <2>1. /\ Orderly(submitted, tasks, sms_events, SmsCalls, SmsValues)
        /\ Flagged(tasks, sms_events, SmsCalls, busy)
    BY <1>3 DEF PagesInv, SmsInv, SmsOnTheWay
  <2>2. PICK N : N = {"list", "history"}
    OBVIOUS
  <2>3. Named(SmsCalls, N) = SmsCalls
    BY <2>2 DEF Named, SmsCalls
  <2>4. Cardinality({t \in tasks : t.call.name \in N})
        + Cardinality({i \in DOMAIN sms_events :
                         sms_events[i].kind = "finished" /\ sms_events[i].call.name \in N})
        = IF Going(tasks, sms_events, SmsCalls) = {} THEN 0 ELSE 1
    BY <2>1, <2>3, Counted DEF Flagged
  <2>5. Sms!UnderWay(N) = IF busy THEN 1 ELSE 0
    BY <2>1, <2>4, CardinalityOfPages DEF Sms!UnderWay, Flagged
  <2> QED
    BY <2>2, <2>5 DEF Sms!OneCall
<1> QED
  BY <1>1, <1>2, <1>3 DEF OneCallAtATime, Clients!OneCall, Shipments!OneMutation, Sms!OneCall

(* A page at rest shows every change.                                      *)
LEMMA PagesCaughtUp ==
  ASSUME PagesInv
  PROVE  ChangesAreShown /\ UsersEveryPasswordShown
<1>1. ASSUME opened = "clients", alive, Clients!Quiet, ~missed PROVE listed = changes
  <2>1. ClientsOnTheWay /\ tasks = {} /\ client_events = <<>>
    BY <1>1 DEF PagesInv, ClientsInv, Clients!Quiet
  <2> QED
    BY <1>1, <2>1, Still DEF ClientsOnTheWay
<1>2. ASSUME opened = "users", alive, Users!Quiet
      PROVE  seen = made /\ (~overlapped /\ ~missed => user_list = changes)
  <2>1. UsersOnTheWay /\ Users!TypeOK /\ tasks = {} /\ user_events = <<>>
    BY <1>2 DEF PagesInv, UsersInv, Users!Quiet
  <2>2. made \ seen = {} /\ seen \subseteq made
    BY <2>1, Still DEF UsersOnTheWay, PasswordsOnTheWay, Users!TypeOK
  <2>3. ~overlapped /\ ~missed => user_list = changes
    BY <2>1, Still DEF UsersOnTheWay, UserListOnTheWay
  <2> QED
    BY <2>2, <2>3
<1>3. ASSUME opened = "shipments", alive, Shipments!Quiet, ~failed
      PROVE  shown.changes = changes /\ pending = 0
  <2>1. ShipmentsOnTheWay /\ tasks = {} /\ events = <<>>
    BY <1>3 DEF PagesInv, ShipmentsInv, Shipments!Quiet
  <2>2. ~Loading
    BY <2>1, Still DEF Loading
  <2> QED
    BY <1>3, <2>1, <2>2, Still DEF ShipmentsOnTheWay, ChangesOnTheWay
<1> QED
  BY <1>1, <1>2, <1>3
    DEF ChangesAreShown, UsersEveryPasswordShown, Clients!ListCatchesUp,
        Users!ListCatchesUp, Users!EveryPasswordShown, Shipments!ChangesShown

(* What a free page says of its rows is true.                              *)
LEMMA PagesHeaded ==
  ASSUME PagesInv
  PROVE  HeadingsAreTrue
<1>1. ASSUME opened = "shipments", alive, ~load_busy, ~failed, generation # 0
      PROVE  /\ shown.generation = generation
             /\ page = shown.page /\ page <= Shipments!page_count(total)
  <2>1. ShipmentsOnTheWay /\ Orderly(submitted, tasks, events, ShipmentsCalls, ShipmentsValues)
    BY <1>1 DEF PagesInv, ShipmentsInv
  <2>2. Going(tasks, events, Newest) = {}
    BY <1>1, <2>1 DEF ShipmentsOnTheWay, LoadsOnTheWay
  <2>3. ~Loading
    <3>1. /\ \A t \in Sent(tasks) : t.call \notin Newest
          /\ \A a \in Replies(tasks, events) : a.call \notin Newest
      BY <2>1, <2>2, OnTheWay
    <3> QED
      BY <3>1 DEF Loading
  <2> QED
    BY <1>1, <2>1, <2>3 DEF ShipmentsOnTheWay, TableTrue
<1>2. ASSUME opened = "sms", alive, ~busy, ~failed
      PROVE  /\ sms_shown = asked /\ asked.page = page
             /\ Sms!Settled => page <= Sms!page_count(total)
  <2>1. SmsOnTheWay /\ Orderly(submitted, tasks, sms_events, SmsCalls, SmsValues)
    BY <1>2 DEF PagesInv, SmsInv
  <2>2. ~Listing
    BY <1>2, <2>1, SmsIdle
  <2> QED
    BY <1>2, <2>1, <2>2 DEF SmsOnTheWay
<1> QED
  BY <1>1, <1>2
    DEF HeadingsAreTrue, Shipments!SummaryTrue, Sms!ShowsWhatWasAsked, Sms!PageExists

(* The page that is open has its types.                                    *)
LEMMA PagesTyped ==
  ASSUME PagesInv
  PROVE  PageTypeOK
  BY DEF PagesInv, PageTypeOK, ClientsInv, UsersInv, ShipmentsInv, SmsInv

(* What is kept in mind about the calls on their way is true in every      *)
(* state of every page.                                                    *)
THEOREM PagesOrderly == PagesSpec => []PagesInv
<1>1. PagesInit => PagesInv
  BY PagesStart
<1>2. PagesInv /\ [PagesNext]_all => PagesInv'
  BY PagesStep
<1> QED
  BY <1>1, <1>2, PTL DEF PagesSpec

(* Rows, headings and calls under way agree on every page, in whatever     *)
(* order its calls are made and answered: the page of the clients and that *)
(* of the SMS shipments have one call, and the page of the shipments one   *)
(* besides its loads (_busy, _mutation_busy); a page at rest shows every   *)
(* change, and the page number, the total and the rows belong together, on *)
(* the page of the SMS shipments where the list asked for cannot shrink.   *)
THEOREM PagesAgree == PagesSpec => []PagesConsistent
<1>1. PagesInv => PagesConsistent
  BY PagesTyped, PagesFlagged, PagesCaughtUp, PagesHeaded DEF PagesConsistent
<1> QED
  BY <1>1, PagesOrderly, PTL

(* No password the service has made for a user, and of which it keeps only *)
(* the hash, is lost on its way to the screen: not when other calls        *)
(* overtake it, nor when its dialog was closed.                            *)
THEOREM PasswordsAreShown == PagesSpec => []UsersEveryPasswordShown
<1>1. PagesInv => UsersEveryPasswordShown
  BY PagesCaughtUp
<1> QED
  BY <1>1, PagesOrderly, PTL

(* A late list never replaces a newer one: calls exclude each other on the *)
(* page of the clients, and the page of the shipments drops what does not  *)
(* carry its current generation (_generation).                             *)
THEOREM ListsGetYounger == PagesSpec => NeverAnOlderList
<1>1. PagesInv /\ [PagesNext]_all => [listed' >= listed]_Clients!vars
  BY PagesStep
<1>2. PagesInv /\ [PagesNext]_all =>
        [shown'.generation >= shown.generation
           /\ shown'.changes >= shown.changes]_Shipments!vars
  BY PagesStep
<1>3. PagesSpec => Clients!NeverOlder
  BY <1>1, PagesOrderly, PTL DEF PagesSpec, Clients!NeverOlder
<1>4. PagesSpec => Shipments!NewestStays
  BY <1>2, PagesOrderly, PTL DEF PagesSpec, Shipments!NewestStays
<1> QED
  BY <1>3, <1>4, PTL DEF NeverAnOlderList
=============================================================================
