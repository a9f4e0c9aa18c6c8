-------------------------- MODULE SmsRegisterProofs -------------------------
(***************************************************************************)
(* Proofs about SmsRegister for any number of calls at the same time, any  *)
(* shipments, phones and requests, and any size of a page.                 *)
(*                                                                         *)
(* The lists are ordered by the time of sending and the id, a strict total *)
(* order; that a finite set can be arranged by such an order is proved by  *)
(* induction on its size.  The induction is on a set of numbers: the least *)
(* number outside of it is the successor of one inside.                    *)
(***************************************************************************)
EXTENDS SmsRegister, FiniteSetTheorems, SequenceTheorems, WellFoundedInduction, TLAPS

(* ------------------------------- induction ----------------------------- *)

LEMMA Least ==
  ASSUME NEW S, S \subseteq Nat, S # {}
  PROVE  \E x \in S : \A y \in S : x <= y
<1> DEFINE R == OpToRel(<, Nat)
<1>1. IsWellFoundedOn(R, Nat)
  BY NatLessThanWellFounded
<1>2. \A x, y \in Nat : <<y, x>> \in R <=> y < x
  BY DEF OpToRel
<1> HIDE DEF R
<1>3. \E x \in S : \A y \in S : ~(<<y, x>> \in R)
  BY <1>1, WFMin
<1>4. PICK x \in S : \A y \in S : ~(<<y, x>> \in R)
  BY <1>3
<1>5. \A y \in S : ~(y < x)
  BY <1>2, <1>4
<1>6. \A y \in S : x <= y
  BY <1>5
<1> QED
  BY <1>6

LEMMA Induction ==
  ASSUME NEW S, 0 \in S, \A n \in Nat : n \in S => n + 1 \in S
  PROVE  Nat \subseteq S
<1> SUFFICES ASSUME Nat \ S # {} PROVE FALSE
  OBVIOUS
<1>1. PICK x \in Nat \ S : \A y \in Nat \ S : x <= y
  BY Least
<1>2. x # 0 /\ x - 1 \in Nat /\ ~(x <= x - 1)
  OBVIOUS
<1>3. x - 1 \in S
  BY <1>1, <1>2
<1> QED
  BY <1>1, <1>2, <1>3

(* --------------------------------- orders ------------------------------ *)

StrictOrder(R, S) ==
  /\ \A x, y \in S : x # y => <<x, y>> \in R \/ <<y, x>> \in R
  /\ \A x, y \in S : <<x, y>> \in R => <<y, x>> \notin R
  /\ \A x, y, z \in S : <<x, y>> \in R /\ <<y, z>> \in R => <<x, z>> \in R

(* A finite set that is not empty has a first element.                     *)
LEMMA FirstExists ==
  ASSUME NEW R, NEW S, StrictOrder(R, S),
         NEW T, T \subseteq S, T # {}, IsFiniteSet(T)
  PROVE  \E m \in T : \A x \in T \ {m} : <<m, x>> \in R
<1> DEFINE HasFirst(U) == \E m \in U : \A x \in U \ {m} : <<m, x>> \in R
<1> DEFINE P == {n \in Nat : \A U \in SUBSET S :
                   IsFiniteSet(U) /\ U # {} /\ Cardinality(U) = n => HasFirst(U)}
<1>1. 0 \in P
  BY FS_EmptySet
<1>2. ASSUME NEW n \in Nat, n \in P PROVE n + 1 \in P
  <2> SUFFICES ASSUME NEW U \in SUBSET S, IsFiniteSet(U), U # {}, Cardinality(U) = n + 1
               PROVE  HasFirst(U)
    OBVIOUS
  <2>1. PICK y \in U : TRUE
    OBVIOUS
  <2>2. IsFiniteSet(U \ {y}) /\ Cardinality(U \ {y}) = n
    <3>1. y \in U
      BY <2>1
    <3> HIDE DEF P
    <3>2. IsFiniteSet(U \ {y}) /\ Cardinality(U \ {y}) = Cardinality(U) - 1
      BY <3>1, FS_RemoveElement
    <3> QED
      BY <3>2
  <2>3. CASE U \ {y} = {}
    BY <2>1, <2>3
  <2>4. CASE U \ {y} # {}
    <3>1. HasFirst(U \ {y})
      BY <1>2, <2>2, <2>4
    <3>2. PICK m \in U \ {y} : \A x \in (U \ {y}) \ {m} : <<m, x>> \in R
      BY <3>1
    <3>3. y \in S /\ m \in S /\ m # y /\ U \subseteq S
      OBVIOUS
    <3>4. CASE <<m, y>> \in R
      BY <3>2, <3>4
    <3>5. CASE <<y, m>> \in R
      <4>1. \A x \in U \ {y} : <<y, x>> \in R
        BY <3>2, <3>3, <3>5 DEF StrictOrder
      <4> QED
        BY <2>1, <4>1
    <3> QED
      BY <3>3, <3>4, <3>5 DEF StrictOrder
  <2> QED
    BY <2>3, <2>4
<1> HIDE DEF P
<1>3. Nat \subseteq P
  BY <1>1, <1>2, Induction
<1>4. Cardinality(T) \in Nat
  BY FS_CardinalityType
<1>5. Cardinality(T) \in P
  BY <1>3, <1>4
<1> QED
  BY <1>5 DEF P

Sorted(seq, R) == \A i, j \in DOMAIN seq : i < j => <<seq[i], seq[j]>> \in R

LEMMA SortedExists ==
  ASSUME NEW R, NEW S, StrictOrder(R, S), IsFiniteSet(S)
  PROVE  \E seq \in SetToSeqs(S) : Sorted(seq, R)
<1> DEFINE HasSeq(U) == \E seq \in SetToSeqs(U) : Sorted(seq, R)
<1> DEFINE P == {n \in Nat : \A U \in SUBSET S :
                   IsFiniteSet(U) /\ Cardinality(U) = n => HasSeq(U)}
<1>1. 0 \in P
  <2> SUFFICES ASSUME NEW U \in SUBSET S, IsFiniteSet(U), Cardinality(U) = 0
               PROVE  HasSeq(U)
    OBVIOUS
  <2>1. U = {}
    BY FS_EmptySet
  <2> DEFINE seq == [i \in 1..0 |-> i]
  <2>2. seq \in SetToSeqs(U)
    BY <2>1 DEF SetToSeqs
  <2>3. Sorted(seq, R)
    BY DEF Sorted
  <2> HIDE DEF seq
  <2> QED
    BY <2>2, <2>3
<1>2. ASSUME NEW n \in Nat, n \in P PROVE n + 1 \in P
  <2> SUFFICES ASSUME NEW U \in SUBSET S, IsFiniteSet(U), Cardinality(U) = n + 1
               PROVE  HasSeq(U)
    OBVIOUS
  <2>1. U # {}
    BY FS_EmptySet
  <2>2. PICK m \in U : \A x \in U \ {m} : <<m, x>> \in R
    BY <2>1, FirstExists
  <2>3. IsFiniteSet(U \ {m}) /\ Cardinality(U \ {m}) = n
    <3>1. m \in U
      BY <2>2
    <3> HIDE DEF P
    <3>2. IsFiniteSet(U \ {m}) /\ Cardinality(U \ {m}) = Cardinality(U) - 1
      BY <3>1, FS_RemoveElement
    <3> QED
      BY <3>2
  <2>4. HasSeq(U \ {m})
    BY <1>2, <2>3
  <2>5. PICK rest \in SetToSeqs(U \ {m}) : Sorted(rest, R)
    BY <2>4
  <2>6. /\ rest \in [1..n -> U \ {m}]
        /\ \A i, j \in 1..n : i # j => rest[i] # rest[j]
    BY <2>3, <2>5 DEF SetToSeqs
  <2> DEFINE seq == [i \in 1..(n + 1) |-> IF i = 1 THEN m ELSE rest[i - 1]]
  <2>7. \A i \in 2..(n + 1) : i - 1 \in 1..n /\ seq[i] = rest[i - 1] /\ seq[i] \in U \ {m}
    BY <2>6
  <2>8. seq[1] = m /\ DOMAIN seq = 1..(n + 1)
    OBVIOUS
  <2>9. \A i \in 1..(n + 1) : i = 1 \/ i \in 2..(n + 1)
    OBVIOUS
  <2>10. seq \in [1..(n + 1) -> U]
    BY <2>6
  <2> HIDE DEF seq
  <2>11. \A i, j \in 1..(n + 1) : i # j => seq[i] # seq[j]
    <3> TAKE i, j \in 1..(n + 1)
    <3>1. CASE i = 1 \/ j = 1
      BY <2>7, <2>8, <2>9, <3>1
    <3>2. CASE i # 1 /\ j # 1
      BY <2>6, <2>7, <2>9, <3>2
    <3> QED
      BY <3>1, <3>2
  <2>12. seq \in SetToSeqs(U)
    BY <2>10, <2>11 DEF SetToSeqs
  <2>13. Sorted(seq, R)
    <3> SUFFICES ASSUME NEW i \in 1..(n + 1), NEW j \in 1..(n + 1), i < j
                 PROVE  <<seq[i], seq[j]>> \in R
      BY <2>8 DEF Sorted
    <3>1. j \in 2..(n + 1)
      OBVIOUS
    <3>2. CASE i = 1
      BY <2>2, <2>7, <2>8, <3>1, <3>2
    <3>3. CASE i # 1
      <4>1. i \in 2..(n + 1) /\ i - 1 < j - 1
        BY <3>3
      <4>2. DOMAIN rest = 1..n
        BY <2>6
      <4> QED
        BY <2>5, <2>7, <3>1, <4>1, <4>2 DEF Sorted
    <3> QED
      BY <3>2, <3>3
  <2> QED
    BY <2>12, <2>13
<1> HIDE DEF P
<1>3. Nat \subseteq P
  BY <1>1, <1>2, Induction
<1>4. Cardinality(S) \in P
  BY <1>3, FS_CardinalityType
<1> QED
  BY <1>4 DEF P

(* ------------------------------- the lists ----------------------------- *)

StoredEvent == [shipment : Shipments, sender : SmsSenderType, user : {NoUser, ThisUser},
                phone : Phones, type : SmsMessageType, text : Texts, status : SmsSendStatus,
                sent : Nat, delivered : Nat, error : Texts \cup {None}]

EventsTyped == events \in Seq(StoredEvent)

LEMMA EventsAre ==
  EventsTyped =>
    /\ Len(events) \in Nat /\ DOMAIN events = 1..Len(events)
    /\ \A i \in DOMAIN events : events[i] \in StoredEvent /\ events[i].sent \in Nat
<1> SUFFICES ASSUME EventsTyped
             PROVE  /\ Len(events) \in Nat /\ DOMAIN events = 1..Len(events)
                    /\ \A i \in DOMAIN events : events[i] \in StoredEvent /\ events[i].sent \in Nat
  OBVIOUS
<1>1. Len(events) \in Nat /\ DOMAIN events = 1..Len(events)
  BY LenProperties DEF EventsTyped
<1>2. \A i \in DOMAIN events : events[i] \in StoredEvent
  BY <1>1, ElementOfSeq DEF EventsTyped
<1> QED
  BY <1>1, <1>2 DEF StoredEvent

LEMMA MatchingFinite ==
  ASSUME NEW q, NEW s
  PROVE  EventsTyped =>
           /\ Matching(q, s) \subseteq DOMAIN events
           /\ IsFiniteSet(Matching(q, s)) /\ Cardinality(Matching(q, s)) \in Nat
<1> SUFFICES ASSUME EventsTyped
             PROVE  /\ Matching(q, s) \subseteq DOMAIN events
                    /\ IsFiniteSet(Matching(q, s)) /\ Cardinality(Matching(q, s)) \in Nat
  OBVIOUS
<1>1. Matching(q, s) \subseteq DOMAIN events
  BY DEF Matching
<1>2. IsFiniteSet(DOMAIN events)
  BY EventsAre, FS_Interval
<1>3. IsFiniteSet(Matching(q, s))
  BY <1>1, <1>2, FS_Subset
<1> QED
  BY <1>1, <1>3, FS_CardinalityType

LaterIn(S) == {p \in S \X S : Later(p[1], p[2])}

LEMMA LaterOrder ==
  ASSUME NEW S
  PROVE  EventsTyped /\ S \subseteq DOMAIN events =>
           /\ StrictOrder(LaterIn(S), S)
           /\ \A i, j \in S : <<i, j>> \in LaterIn(S) <=> Later(i, j)
<1> SUFFICES ASSUME EventsTyped, S \subseteq DOMAIN events
             PROVE  /\ StrictOrder(LaterIn(S), S)
                    /\ \A i, j \in S : <<i, j>> \in LaterIn(S) <=> Later(i, j)
  OBVIOUS
<1>1. \A i \in S : i \in Nat /\ events[i].sent \in Nat
  BY EventsAre
<1>2. \A i, j \in S : <<i, j>> \in LaterIn(S) <=> Later(i, j)
  BY DEF LaterIn
<1>3. \A i, j \in S : i # j => Later(i, j) \/ Later(j, i)
  BY <1>1 DEF Later
<1>4. \A i, j \in S : Later(i, j) => ~Later(j, i)
  BY <1>1 DEF Later
<1>5. \A i, j, k \in S : Later(i, j) /\ Later(j, k) => Later(i, k)
  BY <1>1 DEF Later
<1> QED
  BY <1>2, <1>3, <1>4, <1>5 DEF StrictOrder

(* The history of a shipment has its events, the latest first.             *)
LEMMA HistorySorted ==
  ASSUME NEW q, NEW s
  PROVE  EventsTyped =>
           /\ History(q, s) \in SetToSeqs(Matching(q, s))
           /\ \A i, j \in DOMAIN History(q, s) :
                i < j => Later(History(q, s)[i], History(q, s)[j])
<1> SUFFICES ASSUME EventsTyped
             PROVE  /\ History(q, s) \in SetToSeqs(Matching(q, s))
                    /\ \A i, j \in DOMAIN History(q, s) :
                         i < j => Later(History(q, s)[i], History(q, s)[j])
  OBVIOUS
<1> DEFINE S == Matching(q, s)
<1>1. S \subseteq DOMAIN events /\ IsFiniteSet(S)
  BY MatchingFinite
<1> HIDE DEF S
<1>2. /\ StrictOrder(LaterIn(S), S)
      /\ \A i, j \in S : <<i, j>> \in LaterIn(S) <=> Later(i, j)
  BY <1>1, LaterOrder
<1>3. PICK seq \in SetToSeqs(S) : Sorted(seq, LaterIn(S))
  BY <1>1, <1>2, SortedExists
<1>4. \A i \in DOMAIN seq : seq[i] \in S
  BY <1>3 DEF SetToSeqs
<1>5. \A i, j \in DOMAIN seq : i < j => Later(seq[i], seq[j])
  BY <1>2, <1>3, <1>4 DEF Sorted
<1>6. History(q, s) = CHOOSE h \in SetToSeqs(S) :
                        \A i, j \in DOMAIN h : i < j => Later(h[i], h[j])
  BY DEF History, InOrder, S
<1>7. /\ History(q, s) \in SetToSeqs(S)
      /\ \A i, j \in DOMAIN History(q, s) :
           i < j => Later(History(q, s)[i], History(q, s)[j])
  BY <1>3, <1>5, <1>6
<1> QED
  BY <1>7 DEF S

(* The latest event that matches.                                          *)
LEMMA LatestExists ==
  ASSUME NEW q, NEW s
  PROVE  EventsTyped /\ Matching(q, s) # {} =>
           /\ latest_id(q, s) \in Matching(q, s)
           /\ \A j \in Matching(q, s) \ {latest_id(q, s)} : Later(latest_id(q, s), j)
<1> SUFFICES ASSUME EventsTyped, Matching(q, s) # {}
             PROVE  /\ latest_id(q, s) \in Matching(q, s)
                    /\ \A j \in Matching(q, s) \ {latest_id(q, s)} : Later(latest_id(q, s), j)
  OBVIOUS
<1> DEFINE S == Matching(q, s)
<1>1. S \subseteq DOMAIN events /\ IsFiniteSet(S) /\ S # {}
  BY MatchingFinite
<1>2. latest_id(q, s) = CHOOSE i \in S : \A j \in S \ {i} :
        events[i].sent > events[j].sent \/ (events[i].sent = events[j].sent /\ i > j)
  BY DEF latest_id
<1> HIDE DEF S
<1>3. /\ StrictOrder(LaterIn(S), S)
      /\ \A i, j \in S : <<i, j>> \in LaterIn(S) <=> Later(i, j)
  BY <1>1, LaterOrder
<1>4. PICK m \in S : \A x \in S \ {m} : <<m, x>> \in LaterIn(S)
  BY <1>1, <1>3, FirstExists
<1>5. \A x \in S \ {m} :
        events[m].sent > events[x].sent \/ (events[m].sent = events[x].sent /\ m > x)
  BY <1>3, <1>4 DEF Later
<1>6. /\ latest_id(q, s) \in S
      /\ \A j \in S \ {latest_id(q, s)} : Later(latest_id(q, s), j)
  BY <1>2, <1>5 DEF Later
<1> QED
  BY <1>6 DEF S

(* The two lists speak of the same last event and the same number.         *)
LEMMA ListsAgreeHere ==
  ASSUME NEW q, NEW s
  PROVE  EventsTyped /\ History(q, s) # << >> =>
           /\ Summary(q, s).last = Head(History(q, s))
           /\ Summary(q, s).count = Len(History(q, s))
<1> SUFFICES ASSUME EventsTyped, History(q, s) # << >>
             PROVE  /\ latest_id(q, s) = Head(History(q, s))
                    /\ Cardinality(Matching(q, s)) = Len(History(q, s))
  BY DEF Summary
<1> DEFINE S == Matching(q, s)
<1> DEFINE h == History(q, s)
<1>1. S \subseteq DOMAIN events /\ IsFiniteSet(S) /\ Cardinality(S) \in Nat
  BY MatchingFinite
<1>2. h \in SetToSeqs(S) /\ \A i, j \in DOMAIN h : i < j => Later(h[i], h[j])
  BY HistorySorted
<1>3. S # {} => latest_id(q, s) \in S /\ \A j \in S \ {latest_id(q, s)} : Later(latest_id(q, s), j)
  BY LatestExists
<1>4. \A i, j \in S : Later(i, j) => ~Later(j, i)
  BY <1>1, EventsAre DEF Later
<1>5. h # << >>
  OBVIOUS
<1> HIDE DEF S, h
<1>6. h \in [1..Cardinality(S) -> S] /\ \A i, j \in 1..Cardinality(S) : i # j => h[i] # h[j]
  BY <1>2 DEF SetToSeqs
<1>7. h \in Seq(S) /\ Len(h) = Cardinality(S) /\ DOMAIN h = 1..Cardinality(S)
  BY <1>1, <1>6
<1>8. Cardinality(S) # 0 /\ Head(h) = h[1] /\ h[1] \in S /\ 1 \in DOMAIN h
  BY <1>1, <1>5, <1>6, <1>7, EmptySeq
<1>9. \E k \in DOMAIN h : h[k] = latest_id(q, s)
  <2>1. h \in Injection(1..Cardinality(S), S)
    BY <1>6 DEF Injection, IsInjective
  <2>2. Cardinality(1..Cardinality(S)) = Cardinality(S)
    BY <1>1, FS_Interval
  <2>3. h \in Surjection(1..Cardinality(S), S)
    BY <1>1, <2>1, <2>2, FS_Injection
  <2> QED
    BY <1>3, <1>7, <1>8, <2>3 DEF Surjection
<1>10. PICK k \in DOMAIN h : h[k] = latest_id(q, s)
  BY <1>9
<1>11. k = 1
  <2> SUFFICES ASSUME k # 1 PROVE FALSE
    OBVIOUS
  <2>1. 1 < k /\ k \in 1..Cardinality(S)
    BY <1>1, <1>7
  <2>2. Later(h[1], h[k]) /\ h[1] # h[k]
    BY <1>2, <1>6, <1>7, <1>8, <2>1
  <2>3. Later(h[k], h[1])
    BY <1>3, <1>8, <1>10, <2>2
  <2> QED
    BY <1>3, <1>4, <1>8, <1>10, <2>2, <2>3
<1> QED
  BY <1>7, <1>8, <1>10, <1>11 DEF S, h

(* ------------------------- the length of a list ------------------------ *)

SummarySet(q) == {Summary(q, s) : s \in Selected(q)}

SummaryBefore(a, b) ==
  \/ events[a.last].sent > events[b.last].sent
  \/ events[a.last].sent = events[b.last].sent /\ a.shipment < b.shipment

SummariesBefore(S) == {p \in S \X S : SummaryBefore(p[1], p[2])}

LEMMA SummariesFinite ==
  ASSUME NEW q
  PROVE  SmsAssumption =>
           /\ IsFiniteSet(Selected(q)) /\ Cardinality(Selected(q)) \in Nat
           /\ IsFiniteSet(SummarySet(q))
           /\ Cardinality(SummarySet(q)) = Cardinality(Selected(q))
<1> SUFFICES ASSUME SmsAssumption
             PROVE  /\ IsFiniteSet(Selected(q)) /\ Cardinality(Selected(q)) \in Nat
                    /\ IsFiniteSet(SummarySet(q))
                    /\ Cardinality(SummarySet(q)) = Cardinality(Selected(q))
  OBVIOUS
<1>1. IsFiniteSet(Selected(q)) /\ Cardinality(Selected(q)) \in Nat
  <2>1. Selected(q) \subseteq Shipments
    BY DEF Selected
  <2> QED
    BY <2>1, FS_Subset, FS_CardinalityType DEF SmsAssumption
<1> DEFINE f == [s \in Selected(q) |-> Summary(q, s)]
<1>2. \A s \in Selected(q) : Summary(q, s).shipment = s
  BY DEF Summary
<1>3. f \in [Selected(q) -> SummarySet(q)] /\ \A x \in SummarySet(q) : \E s \in Selected(q) : f[s] = x
  BY DEF SummarySet
<1>4. \A a, b \in Selected(q) : f[a] = f[b] => a = b
  BY <1>2
<1> HIDE DEF f
<1>5. f \in Surjection(Selected(q), SummarySet(q))
  BY <1>3 DEF Surjection
<1>6. f \in Injection(Selected(q), SummarySet(q))
  BY <1>3, <1>4 DEF Injection, IsInjective
<1> QED
  BY <1>1, <1>5, <1>6, FS_Surjection

LEMMA SummariesSorted ==
  ASSUME NEW q
  PROVE  SmsAssumption /\ EventsTyped => Summaries(q) \in SetToSeqs(SummarySet(q))
<1> SUFFICES ASSUME SmsAssumption, EventsTyped
             PROVE  Summaries(q) \in SetToSeqs(SummarySet(q))
  OBVIOUS
<1> DEFINE S == SummarySet(q)
<1>1. ASSUME NEW a \in S
      PROVE  /\ a.shipment \in Int /\ events[a.last].sent \in Nat
             /\ a = Summary(q, a.shipment)
  <2>1. PICK s \in Selected(q) : a = Summary(q, s)
    BY DEF SummarySet
  <2>2. a.shipment = s /\ a.last = latest_id(q, s) /\ s \in Shipments /\ Matching(q, s) # {}
    BY <2>1 DEF Summary, Selected
  <2>3. a.last \in DOMAIN events
    BY <2>2, LatestExists, MatchingFinite
  <2> QED
    BY <2>1, <2>2, <2>3, EventsAre DEF SmsAssumption
<1>2. IsFiniteSet(S)
  BY SummariesFinite
<1>3. Summaries(q) = CHOOSE h \in SetToSeqs(S) :
                       \A i, j \in DOMAIN h : i < j => SummaryBefore(h[i], h[j])
  BY DEF Summaries, InOrder, SummaryBefore, SummarySet
<1> HIDE DEF S
<1>4. \A a, b \in S : <<a, b>> \in SummariesBefore(S) <=> SummaryBefore(a, b)
  BY DEF SummariesBefore
<1>5. \A a, b \in S : a # b => SummaryBefore(a, b) \/ SummaryBefore(b, a)
  <2> TAKE a, b \in S
  <2>1. a.shipment = b.shipment => a = b
    BY <1>1
  <2> QED
    BY <1>1, <2>1 DEF SummaryBefore
<1>6. \A a, b \in S : SummaryBefore(a, b) => ~SummaryBefore(b, a)
  BY <1>1 DEF SummaryBefore
<1>7. \A a, b, c \in S : SummaryBefore(a, b) /\ SummaryBefore(b, c) => SummaryBefore(a, c)
  BY <1>1 DEF SummaryBefore
<1>8. StrictOrder(SummariesBefore(S), S)
  BY <1>4, <1>5, <1>6, <1>7 DEF StrictOrder
<1>9. PICK seq \in SetToSeqs(S) : Sorted(seq, SummariesBefore(S))
  BY <1>2, <1>8, SortedExists
<1>10. \A i \in DOMAIN seq : seq[i] \in S
  BY <1>9 DEF SetToSeqs
<1>11. \A i, j \in DOMAIN seq : i < j => SummaryBefore(seq[i], seq[j])
  BY <1>4, <1>9, <1>10 DEF Sorted
<1>12. Summaries(q) \in SetToSeqs(S)
  BY <1>3, <1>9, <1>11
<1> QED
  BY <1>12 DEF S

(* What a query has a row of, and how many rows.                           *)
RowsOf(q) == IF q.shipment = Never THEN Selected(q) ELSE Matching(q, q.shipment)

Size(q) == Cardinality(RowsOf(q))

LEMMA RowsLength ==
  ASSUME NEW q
  PROVE  SmsAssumption /\ EventsTyped =>
           /\ \E S : Rows(q) \in Seq(S)
           /\ Len(Rows(q)) = Size(q) /\ Size(q) \in Nat /\ IsFiniteSet(RowsOf(q))
<1> SUFFICES ASSUME SmsAssumption, EventsTyped
             PROVE  /\ \E S : Rows(q) \in Seq(S)
                    /\ Len(Rows(q)) = Size(q) /\ Size(q) \in Nat /\ IsFiniteSet(RowsOf(q))
  OBVIOUS
<1>1. PICK S : /\ Rows(q) \in SetToSeqs(S) /\ Cardinality(S) = Size(q) /\ Size(q) \in Nat
               /\ IsFiniteSet(RowsOf(q))
  <2>1. CASE q.shipment = Never
    BY <2>1, SummariesSorted, SummariesFinite DEF Rows, RowsOf, Size
  <2>2. CASE q.shipment # Never
    BY <2>2, HistorySorted, MatchingFinite DEF Rows, RowsOf, Size
  <2> QED
    BY <2>1, <2>2
<1>2. Rows(q) \in [1..Size(q) -> S]
  BY <1>1 DEF SetToSeqs
<1>3. \A n \in Nat : \A r \in [1..n -> S] : r \in Seq(S) /\ Len(r) = n
  OBVIOUS
<1> QED
  BY <1>1, <1>2, <1>3

(* A query never loses a row by an event: events are only added.           *)
LEMMA RowsGrow ==
  ASSUME EventsTyped, NEW e \in StoredEvent, events' = Append(events, e), phone' = phone, NEW q
  PROVE  EventsTyped' /\ RowsOf(q) \subseteq RowsOf(q)'
<1>1. EventsTyped'
  BY AppendProperties DEF EventsTyped
<1>2. /\ DOMAIN events \subseteq DOMAIN events'
      /\ \A i \in DOMAIN events : events'[i] = events[i]
  <2>1. Len(events') = Len(events) + 1 /\ \A i \in 1..Len(events) : events'[i] = events[i]
    BY AppendProperties DEF EventsTyped
  <2>2. DOMAIN events' = 1..Len(events')
    BY <1>1, LenProperties DEF EventsTyped
  <2> QED
    BY <2>1, <2>2, EventsAre
<1>3. \A s : Matching(q, s) \subseteq Matching(q, s)'
  BY <1>2 DEF Matching
<1>4. Selected(q) \subseteq Selected(q)'
  BY <1>3 DEF Selected
<1> QED
  BY <1>1, <1>3, <1>4 DEF RowsOf

(* By an edited recipient a search may lose that shipment, and nothing     *)
(* else loses a row.                                                       *)
LEMMA RowsEdited ==
  ASSUME events' = events, NEW s, \A u \in Shipments \ {s} : phone'[u] = phone[u], NEW q
  PROVE  /\ q.shipment = Never => RowsOf(q) \ {s} \subseteq RowsOf(q)'
         /\ q.shipment # Never \/ q.search = None => RowsOf(q) \subseteq RowsOf(q)'
<1>1. \A u : Matching(q, u)' = Matching(q, u)
  BY DEF Matching
<1> QED
  BY <1>1 DEF RowsOf, Selected

LEMMA QueriesAre ==
  ASSUME SmsAssumption, NEW q \in Queries
  PROVE  /\ q.offset \in Nat /\ q.limit \in Nat \ {0}
         /\ q.shipment = Never \/ q.search = None
<1>1. PICK page \in 1..2, size \in {1, MaxPage} : q.offset = (page - 1) * size /\ q.limit = size
  BY DEF Queries
<1>2. page = 1 \/ page = 2
  OBVIOUS
<1>3. MaxPage \in Nat \ {0}
  BY DEF SmsAssumption
<1>4. size \in Nat \ {0}
  BY <1>3
<1>5. q.offset \in Nat /\ q.limit \in Nat \ {0}
  <2>1. CASE page = 1
    BY <1>1, <1>4, <2>1
  <2>2. CASE page = 2
    BY <1>1, <1>4, <2>2
  <2> QED
    BY <1>2, <2>1, <2>2
<1>6. q.shipment = Never \/ q.search = None
  BY DEF Queries
<1> QED
  BY <1>5, <1>6

(* A page is full, or the last.                                            *)
LEMMA WindowLength ==
  ASSUME SmsAssumption, NEW q \in Queries, NEW S, NEW rows \in Seq(S)
  PROVE  /\ Len(Window(rows, q)) \in Nat
         /\ \/ Len(Window(rows, q)) = q.limit
            \/ q.offset + Len(Window(rows, q)) >= Len(rows)
<1>1. q.offset \in Nat /\ q.limit \in Nat \ {0} /\ Len(rows) \in Nat
  BY QueriesAre, LenProperties
<1> DEFINE last == Min({q.offset + q.limit, Len(rows)})
<1>2. last \in {q.offset + q.limit, Len(rows)} /\ last <= q.offset + q.limit /\ last <= Len(rows)
  <2>1. \E x \in {q.offset + q.limit, Len(rows)} : \A y \in {q.offset + q.limit, Len(rows)} : x <= y
    BY <1>1
  <2> QED
    BY <2>1 DEF Min
<1>3. Window(rows, q) = SubSeq(rows, q.offset + 1, last)
  BY DEF Window
<1> HIDE DEF last
<1>4. CASE q.offset + 1 <= last
  <2>1. Len(Window(rows, q)) = last - q.offset
    <3>1. last \in Int /\ q.offset + 1 \in Int
      BY <1>1, <1>2
    <3>2. \A i \in (q.offset + 1)..last : i \in 1..Len(rows)
      BY <1>1, <1>2
    <3>3. \A i \in (q.offset + 1)..last : rows[i] \in S
      BY <3>2, ElementOfSeq
    <3>4. Len(SubSeq(rows, q.offset + 1, last)) = last - (q.offset + 1) + 1
      BY <1>4, <3>1, <3>3, SubSeqProperties
    <3> QED
      BY <1>1, <1>3, <3>1, <3>4
  <2> QED
    BY <1>1, <1>2, <1>4, <2>1
<1>5. CASE ~(q.offset + 1 <= last)
  <2>1. Len(Window(rows, q)) = 0
    BY <1>1, <1>2, <1>3, <1>5, SubSeqEmpty, EmptySeq
  <2> QED
    BY <1>1, <1>2, <1>5, <2>1
<1> QED
  BY <1>4, <1>5

(* ----------------------------- the invariant --------------------------- *)

(* An event on its way is one that its table accepts, sent before now.     *)
CallOK(c) ==
  \/ c = Idle
  \/ /\ c.pc \in {"flush", "commit"} /\ c = [pc |-> c.pc, event |-> c.event]
     /\ c.event \in StoredEvent /\ c.event.sent \in 1..clock /\ Checks(c.event)

(* What had a row when the total was read still has one, but for shipments *)
(* whose recipient was edited since; only a search knows of any.           *)
Promised(q, total, edited) ==
  /\ edited \subseteq Shipments /\ (q.search = None => edited = {})
  /\ \E P : IsFiniteSet(P) /\ Cardinality(P) = total /\ P \ edited \subseteq RowsOf(q)

ListOK ==
  \/ list = Idle
  \/ /\ list.pc = "page"
     /\ list = [pc |-> "page", query |-> list.query, total |-> list.total, items |-> << >>,
                edited |-> list.edited]
     /\ list.query \in Queries /\ list.total \in Nat
     /\ Promised(list.query, list.total, list.edited)
  \/ list.pc = "done" /\ PageKeepsPromise

SmsInv ==
  /\ TypeOK /\ EventsTyped /\ AuditPerEvent /\ ListOK
  /\ DOMAIN call = Threads
  /\ \A t \in Threads : CallOK(call[t])

LEMMA SmsInit == ASSUME SmsAssumption, Init PROVE SmsInv
<1>1. EventsTyped /\ Len(events) = 0 /\ DOMAIN events = {}
  BY EmptySeq, LenProperties DEF Init, EventsTyped
<1>2. AuditPerEvent
  <2>1. audits = [i \in 1..0 |-> i]
    BY DEF Init
  <2> QED
    BY <1>1, <2>1 DEF AuditPerEvent
<1>3. TypeOK
  BY <1>1 DEF Init, TypeOK, SmsAssumption, Idle
<1> QED
  BY <1>1, <1>2, <1>3 DEF Init, SmsInv, ListOK, CallOK

(* What validate_sms_event lets through, the CHECKs of the table accept.   *)
LEMMA ValidEvent ==
  ASSUME SmsAssumption, SmsInv, NEW request \in Requests, validate_sms_event(request)
  PROVE  /\ Event(request, clock) \in StoredEvent
         /\ Event(request, clock).sent = clock
         /\ Checks(Event(request, clock))
<1>1. /\ request.shipment \in Shipments /\ request.sender \in SmsSenderType
      /\ request.type \in SmsMessageType /\ request.phone \in Phones \cup {None, "bad"}
      /\ request.text \in Texts \cup {None} /\ request.status \in SmsSendStatus
      /\ request.delay \in {None, "before", "after"} /\ request.error \in Texts \cup {None}
  BY DEF SmsAssumption, Request
<1>2. clock \in Nat \ {0} /\ \A s \in Shipments : phone[s] \in Phones
  <2>1. phone \in [Shipments -> Phones] /\ clock \in 1..MaxClock /\ MaxClock \in Nat
    BY DEF SmsInv, TypeOK, SmsAssumption
  <2> QED
    BY <2>1
<1> DEFINE user == IF request.sender = "SYSTEM" THEN NoUser ELSE ThisUser
<1> DEFINE to == IF request.phone = None THEN phone[request.shipment] ELSE request.phone
<1> DEFINE arrived == CASE request.delay = None -> Never
                        [] request.delay = "before" -> clock - 1
                        [] request.delay = "after" -> clock + 1
<1>3. PICK e : e = [shipment |-> request.shipment, sender |-> request.sender, user |-> user,
                    phone |-> to, type |-> request.type, text |-> ResolvedText(request),
                    status |-> request.status, sent |-> clock, delivered |-> arrived,
                    error |-> OptionalText(request.error)]
  OBVIOUS
<1>4. e = Event(request, clock)
  BY <1>3 DEF Event
<1>5. arrived = IF request.delay = "after" THEN clock + 1 ELSE Never
  BY <1>1 DEF validate_sms_event
<1>6. to \in Phones /\ to # "bad"
  BY <1>1, <1>2 DEF validate_sms_event, SmsAssumption
<1>7. ResolvedText(request) = "plain" /\ OptionalText(request.error) \in {None, "plain", "html"}
  BY DEF validate_sms_event, OptionalText
<1>8. user \in {NoUser, ThisUser} /\ (request.sender = "SYSTEM") = (user = NoUser)
  BY DEF NoUser, ThisUser
<1>9. arrived \in Nat
      /\ IF request.status = "DELIVERED" THEN arrived # Never /\ arrived >= clock
                                         ELSE arrived = Never
  BY <1>1, <1>2, <1>5 DEF validate_sms_event, Delivered, Never, None
<1>10. request.status = "FAILED" => OptionalText(request.error) \notin {None, "blank"}
  BY DEF validate_sms_event, OptionalText, None
<1> HIDE DEF user, to, arrived
<1>11. Checks(e)
  BY <1>3, <1>6, <1>7, <1>8, <1>9, <1>10 DEF Checks, None
<1>12. e \in StoredEvent
  BY <1>1, <1>2, <1>3, <1>6, <1>7, <1>8, <1>9 DEF StoredEvent, Texts
<1> QED
  BY <1>3, <1>4, <1>11, <1>12

LEMMA SameEvents ==
  ASSUME events' = events
  PROVE  /\ EventsTyped' = EventsTyped
         /\ audits' = audits => AuditPerEvent' = AuditPerEvent
BY DEF EventsTyped, AuditPerEvent

(* A list under way keeps what it was promised ...                         *)
LEMMA KeptPage ==
  ASSUME list.pc = "page", ListOK, list # Idle, NEW had, had = list.edited, NEW gone,
         list' = [pc |-> "page", query |-> list.query, total |-> list.total, items |-> << >>,
                  edited |-> gone],
         \A q \in Queries : \A n \in Nat :
           list.query = q /\ Promised(q, n, had) => Promised(q, n, gone)'
  PROVE  ListOK'
<1>1. PICK q, n : q = list.query /\ n = list.total
  OBVIOUS
<1>2. q \in Queries /\ n \in Nat /\ Promised(q, n, had)
  BY <1>1 DEF ListOK, Idle
<1>3. Promised(q, n, gone)'
  BY <1>1, <1>2
<1>4. list' = [pc |-> "page", query |-> q, total |-> n, items |-> << >>, edited |-> gone]
  BY <1>1
<1>5. list'.pc = "page" /\ list'.query = q /\ list'.total = n /\ list'.edited = gone
  BY <1>4
<1>6. Promised(list.query, list.total, list.edited)'
  BY <1>3, <1>5 DEF Promised
<1>7. Queries' = Queries
  BY DEF Queries
<1>8. list' = [pc |-> "page", query |-> list'.query, total |-> list'.total, items |-> << >>,
               edited |-> list'.edited]
  BY <1>4, <1>5
<1> QED
  BY <1>2, <1>5, <1>6, <1>7, <1>8 DEF ListOK

(* ... as long as nothing it has a row of is lost.                         *)
LEMMA SameList ==
  ASSUME ListOK, list' = list, \A q : RowsOf(q) \subseteq RowsOf(q)'
  PROVE  ListOK'
<1>1. CASE list.pc = "page" /\ list # Idle
  <2>1. PICK had : had = list.edited
    OBVIOUS
  <2>2. ASSUME NEW q \in Queries, NEW n \in Nat, Promised(q, n, had)
        PROVE  Promised(q, n, had)'
    <3>1. PICK P : IsFiniteSet(P) /\ Cardinality(P) = n /\ P \ had \subseteq RowsOf(q)
      BY <2>2 DEF Promised
    <3>2. P \ had \subseteq RowsOf(q)'
      BY <3>1
    <3> QED
      BY <2>2, <3>1, <3>2 DEF Promised
  <2>3. list' = [pc |-> "page", query |-> list.query, total |-> list.total, items |-> << >>,
                 edited |-> had]
    BY <1>1, <2>1 DEF ListOK, Idle
  <2> QED
    BY <1>1, <2>1, <2>2, <2>3, KeptPage
<1>2. CASE list.pc = "done" \/ list = Idle
  BY <1>2 DEF ListOK, PageKeepsPromise, Idle
<1> QED
  BY <1>1, <1>2 DEF ListOK

LEMMA SameRows ==
  ASSUME events' = events, phone' = phone
  PROVE  \A q : RowsOf(q) \subseteq RowsOf(q)'
BY DEF RowsOf, Selected, Matching

LEMMA RecordStep == ASSUME SmsAssumption, SmsInv, NEW t \in Threads, record_sms(t) PROVE SmsInv'
<1>1. PICK request \in Requests :
        /\ validate_sms_event(request)
        /\ call' = [call EXCEPT ![t] = [pc |-> "flush", event |-> Event(request, clock)]]
  BY DEF record_sms
<1>2. PICK e : /\ e = Event(request, clock) /\ e \in StoredEvent /\ e.sent = clock /\ Checks(e)
  BY <1>1, ValidEvent
<1>3. call[t].pc = "idle"
      /\ UNCHANGED archived /\ UNCHANGED phone /\ UNCHANGED events /\ UNCHANGED audits
      /\ UNCHANGED lock /\ UNCHANGED list /\ UNCHANGED clock
  BY DEF record_sms
<1>4. \A u \in Threads : call'[u] = IF u = t THEN [pc |-> "flush", event |-> e] ELSE call[u]
  BY <1>1, <1>2 DEF SmsInv
<1>5. clock \in 1..clock
  BY DEF SmsInv, TypeOK, SmsAssumption
<1>6. TypeOK'
  BY <1>3, <1>4 DEF SmsInv, TypeOK
<1>7. ASSUME NEW u \in Threads PROVE CallOK(call[u])'
  <2>1. CASE u = t
    <3>1. call'[u] = [pc |-> "flush", event |-> e]
      BY <1>4, <2>1
    <3> QED
      BY <1>2, <1>3, <1>5, <3>1 DEF CallOK
  <2>2. CASE u # t
    <3>1. call'[u] = call[u] /\ clock' = clock /\ CallOK(call[u])
      BY <1>3, <1>4, <2>2 DEF SmsInv
    <3> QED
      BY <3>1 DEF CallOK
  <2> QED
    BY <2>1, <2>2
<1>8. EventsTyped' /\ AuditPerEvent' /\ ListOK'
  BY <1>3, SameEvents, SameRows, SameList DEF SmsInv
<1> QED
  BY <1>1, <1>6, <1>7, <1>8 DEF SmsInv

(* Only the lock and the calls change.                                     *)
LEMMA CallStep ==
  ASSUME SmsInv, NEW t \in Threads, NEW c, CallOK(c), call' = [call EXCEPT ![t] = c],
         lock' \in Threads \cup {Free},
         \A u \in Threads : call'[u].pc = "commit" <=> lock' = u,
         UNCHANGED <<archived, phone, events, audits, list, clock>>
  PROVE  SmsInv'
<1>1. /\ UNCHANGED archived /\ UNCHANGED phone /\ UNCHANGED events /\ UNCHANGED audits
      /\ UNCHANGED list /\ UNCHANGED clock
  OBVIOUS
<1>2. DOMAIN call' = Threads /\ \A u \in Threads : call'[u] = IF u = t THEN c ELSE call[u]
  BY DEF SmsInv
<1>3. TypeOK'
  BY <1>1 DEF SmsInv, TypeOK
<1>4. \A u \in Threads : CallOK(call'[u])
  BY <1>2 DEF SmsInv
<1>5. \A u \in Threads : CallOK(call[u])'
  BY <1>1, <1>4 DEF CallOK
<1> QED
  BY <1>1, <1>2, <1>3, <1>5, SameEvents, SameRows, SameList DEF SmsInv

LEMMA AddStep == ASSUME SmsAssumption, SmsInv, NEW t \in Threads, add(t) PROVE SmsInv'
<1>1. /\ call[t].pc = "flush" /\ lock = Free /\ lock' = t /\ CallOK(call[t])
      /\ call' = [call EXCEPT ![t].pc = "commit"]
      /\ UNCHANGED <<archived, phone, events, audits, list, clock>>
  BY DEF add, SmsInv
<1>2. PICK c : c = [pc |-> "commit", event |-> call[t].event]
  OBVIOUS
<1>3. c.pc = "commit" /\ c.event = call[t].event /\ c = [pc |-> c.pc, event |-> c.event]
  BY <1>2
<1>4. CallOK(c)
  BY <1>1, <1>3 DEF CallOK, Idle
<1>5. call[t] = [pc |-> "flush", event |-> call[t].event]
  BY <1>1 DEF CallOK, Idle
<1>6. call' = [call EXCEPT ![t] = c]
  <2>1. [call[t] EXCEPT !.pc = "commit"] = c
    BY <1>2, <1>5
  <2>2. call' = [call EXCEPT ![t] = [call[t] EXCEPT !.pc = "commit"]]
    BY <1>1
  <2> QED
    BY <2>1, <2>2
<1>7. \A u \in Threads : call'[u].pc = "commit" <=> lock' = u
  <2>1. \A u \in Threads : call[u].pc # "commit"
    BY <1>1 DEF SmsInv, TypeOK, SmsAssumption
  <2> QED
    BY <1>1, <1>3, <1>6, <2>1 DEF SmsInv
<1> QED
  BY <1>1, <1>4, <1>6, <1>7, CallStep

LEMMA FailStep == ASSUME SmsAssumption, SmsInv, NEW t \in Threads, Fail(t) PROVE SmsInv'
<1>1. /\ call' = [call EXCEPT ![t] = Idle] /\ lock' = IF lock = t THEN Free ELSE lock
      /\ UNCHANGED <<archived, phone, events, audits, list, clock>>
  BY DEF Fail
<1>2. CallOK(Idle) /\ Idle.pc = "idle"
  BY DEF CallOK, Idle
<1>3. lock' \in Threads \cup {Free}
  BY <1>1 DEF SmsInv, TypeOK
<1>4. \A u \in Threads : call'[u].pc = "commit" <=> lock' = u
  <2> TAKE u \in Threads
  <2>1. call[u].pc = "commit" <=> lock = u
    BY DEF SmsInv, TypeOK
  <2>2. CASE u = t
    BY <1>1, <1>2, <2>2 DEF SmsInv, SmsAssumption
  <2>3. CASE u # t
    <3>1. call'[u] = call[u]
      BY <1>1, <2>3 DEF SmsInv
    <3>2. lock' = u <=> lock = u
      BY <1>1, <2>3 DEF SmsAssumption
    <3> QED
      BY <2>1, <3>1, <3>2
  <2> QED
    BY <2>2, <2>3
<1> QED
  BY <1>1, <1>2, <1>3, <1>4, CallStep

(* The event and its audit event become visible together.                  *)
LEMMA CommitStep == ASSUME SmsAssumption, SmsInv, NEW t \in Threads, commit(t) PROVE SmsInv'
<1>1. /\ call[t].pc = "commit" /\ CallOK(call[t]) /\ lock = t /\ lock' = Free
      /\ call' = [call EXCEPT ![t] = Idle]
      /\ events' = Append(events, call[t].event) /\ audits' = Append(audits, Len(events) + 1)
      /\ UNCHANGED archived /\ UNCHANGED phone /\ UNCHANGED list /\ UNCHANGED clock
  BY DEF commit, Stored, SmsInv, TypeOK
<1>2. PICK e : e = call[t].event /\ e \in StoredEvent /\ e.sent \in 1..clock
  BY <1>1 DEF CallOK, Idle
<1>3. EventsTyped /\ events' = Append(events, e)
  BY <1>1, <1>2 DEF SmsInv
<1>4. EventsTyped' /\ \A q : RowsOf(q) \subseteq RowsOf(q)'
  BY <1>1, <1>2, <1>3, RowsGrow
<1>5. /\ Len(events) \in Nat /\ DOMAIN events' = 1..(Len(events) + 1)
      /\ Len(events') = Len(events) + 1
      /\ events'[Len(events) + 1] = e
      /\ \A i \in 1..Len(events) : events'[i] = events[i]
  BY <1>2, <1>3, AppendProperties, LenProperties, EventsAre DEF EventsTyped
<1>6. \A i \in DOMAIN events' : events'[i].phone \in Phones /\ events'[i].sent \in 1..clock
  <2> TAKE i \in DOMAIN events'
  <2>1. CASE i = Len(events) + 1
    BY <1>2, <1>5, <2>1 DEF StoredEvent
  <2>2. CASE i # Len(events) + 1
    <3>1. i \in DOMAIN events /\ events'[i] = events[i]
      BY <1>3, <1>5, <2>2, EventsAre
    <3> QED
      BY <3>1 DEF SmsInv, TypeOK
  <2> QED
    BY <2>1, <2>2
<1>7. \A u \in Threads : call'[u] = IF u = t THEN Idle ELSE call[u]
  BY <1>1 DEF SmsInv
<1>8. TypeOK'
  <2>1. \A u \in Threads : call'[u].pc # "commit"
    BY <1>1, <1>7 DEF SmsInv, TypeOK, Idle
  <2> QED
    BY <1>1, <1>6, <2>1 DEF SmsInv, TypeOK, SmsAssumption
<1>9. AuditPerEvent'
  <2>1. audits \in Seq(Nat) /\ Len(audits) = Len(events)
        /\ \A i \in 1..Len(events) : audits[i] = i
    BY <1>5 DEF SmsInv, AuditPerEvent
  <2>2. /\ Len(audits') = Len(events) + 1 /\ audits' \in Seq(Nat)
        /\ audits'[Len(events) + 1] = Len(events) + 1
        /\ \A i \in 1..Len(events) : audits'[i] = i
    BY <1>1, <1>5, <2>1, AppendProperties
  <2>3. audits' = [i \in 1..(Len(events) + 1) |-> audits'[i]]
    BY <2>2
  <2>4. \A i \in 1..(Len(events) + 1) : audits'[i] = i
    <3> TAKE i \in 1..(Len(events) + 1)
    <3>1. i \in 1..Len(events) \/ i = Len(events) + 1
      BY <1>5
    <3> QED
      BY <2>2, <3>1
  <2>5. audits' = [i \in 1..(Len(events) + 1) |-> i]
    BY <2>3, <2>4
  <2> QED
    BY <1>5, <2>5 DEF AuditPerEvent
<1>10. ListOK'
  BY <1>1, <1>4, SameList DEF SmsInv
<1>11. \A u \in Threads : CallOK(call[u])'
  BY <1>1, <1>7 DEF SmsInv, CallOK
<1> QED
  BY <1>1, <1>4, <1>8, <1>9, <1>10, <1>11 DEF SmsInv

(* The page has the rows that are left of those that were counted.         *)
LEMMA PageOfPromised ==
  ASSUME SmsAssumption, SmsInv, NEW q \in Queries, NEW total \in Nat, NEW edited,
         Promised(q, total, edited)
  PROVE  \/ Len(Window(Rows(q), q)) = q.limit
         \/ q.offset + Len(Window(Rows(q), q)) + Cardinality(edited) >= total
<1>1. PICK P : IsFiniteSet(P) /\ Cardinality(P) = total /\ P \ edited \subseteq RowsOf(q)
  BY DEF Promised
<1>2. IsFiniteSet(edited)
  BY FS_Subset DEF Promised, SmsAssumption
<1>3. PICK S : Rows(q) \in Seq(S)
  BY RowsLength DEF SmsInv
<1>4. Len(Rows(q)) = Cardinality(RowsOf(q)) /\ IsFiniteSet(RowsOf(q))
  BY RowsLength DEF SmsInv, Size
<1>5. Cardinality(P \ edited) = Cardinality(P) - Cardinality(P \cap edited)
  BY <1>1, FS_Difference
<1>6. Cardinality(P \ edited) <= Cardinality(RowsOf(q))
  BY <1>1, <1>4, FS_Subset
<1>7. Cardinality(P \cap edited) <= Cardinality(edited) /\ IsFiniteSet(P \cap edited)
  BY <1>2, FS_Subset
<1>8. /\ Cardinality(P \cap edited) \in Nat /\ Cardinality(edited) \in Nat
      /\ Cardinality(RowsOf(q)) \in Nat
  BY <1>2, <1>4, <1>7, FS_CardinalityType
<1>9. total <= Len(Rows(q)) + Cardinality(edited)
  BY <1>1, <1>4, <1>5, <1>6, <1>7, <1>8
<1> QED
  BY <1>3, <1>4, <1>8, <1>9, QueriesAre, WindowLength

LEMMA ListStep == ASSUME SmsAssumption, SmsInv, List \/ CloseList PROVE SmsInv'
<1>1. /\ UNCHANGED archived /\ UNCHANGED phone /\ UNCHANGED events /\ UNCHANGED audits
      /\ UNCHANGED lock /\ UNCHANGED call /\ UNCHANGED clock
  BY DEF List, CloseList
<1>2. TypeOK' /\ \A u \in Threads : CallOK(call[u])'
  BY <1>1 DEF SmsInv, TypeOK, CallOK
<1>3. ListOK'
  <2>1. CASE list.pc = "idle" /\ List
    <3>1. PICK query \in Queries :
            list' = [pc |-> "page", query |-> query, total |-> Len(Rows(query)), items |-> << >>,
                     edited |-> {}]
      BY <2>1 DEF List
    <3>2. PICK n \in Nat : n = Len(Rows(query)) /\ n = Cardinality(RowsOf(query))
                           /\ IsFiniteSet(RowsOf(query))
      BY RowsLength DEF SmsInv, Size
    <3>3. RowsOf(query) \subseteq RowsOf(query)'
      BY <1>1, SameRows
    <3>4. PICK P : P = RowsOf(query)
      OBVIOUS
    <3>5. Promised(query, n, {})'
      <4>1. IsFiniteSet(P) /\ Cardinality(P) = n /\ P \ {} \subseteq RowsOf(query)'
        BY <3>2, <3>3, <3>4
      <4> QED
        BY <4>1 DEF Promised
    <3>6. list'.query = query /\ list'.total = n /\ list'.pc = "page" /\ list'.edited = {}
      BY <3>1, <3>2
    <3>7. Promised(list.query, list.total, list.edited)'
      BY <3>5, <3>6 DEF Promised
    <3>8. Queries' = Queries
      BY DEF Queries
    <3> QED
      BY <3>1, <3>2, <3>6, <3>7, <3>8 DEF ListOK
  <2>2. CASE list.pc = "page" /\ List
    <3>1. list = [pc |-> "page", query |-> list.query, total |-> list.total, items |-> << >>,
                  edited |-> list.edited]
          /\ list.query \in Queries /\ list.total \in Nat
          /\ Promised(list.query, list.total, list.edited)
      BY <2>2 DEF SmsInv, ListOK, Idle
    <3>2. PICK q \in Queries, n \in Nat, gone \in {list.edited} : q = list.query /\ n = list.total
      BY <3>1
    <3>3. list' = [pc |-> "done", query |-> q, total |-> n, items |-> Window(Rows(q), q),
                   edited |-> gone]
      BY <2>2, <3>1, <3>2 DEF List
    <3>4. \/ Len(Window(Rows(q), q)) = q.limit
          \/ q.offset + Len(Window(Rows(q), q)) + Cardinality(gone) >= n
      BY <3>1, <3>2, PageOfPromised
    <3>5. list'.query = q /\ list'.total = n /\ list'.items = Window(Rows(q), q)
          /\ list'.pc = "done" /\ list'.edited = gone
      BY <3>3
    <3> QED
      BY <3>4, <3>5 DEF ListOK, PageKeepsPromise
  <2>3. CASE CloseList
    BY <2>3 DEF CloseList, ListOK
  <2> QED
    BY <2>1, <2>2, <2>3 DEF List
<1> QED
  BY <1>1, <1>2, <1>3, SameEvents DEF SmsInv

(* An edit is remembered by the list that searches, and concerns no other. *)
LEMMA EditedList ==
  ASSUME SmsAssumption, SmsInv, NEW s \in Shipments, NEW p \in Phones,
         phone' = [phone EXCEPT ![s] = p], events' = events,
         list' = IF Searching THEN [list EXCEPT !.edited = @ \cup {s}] ELSE list
  PROVE  ListOK'
<1>1. \A u \in Shipments \ {s} : phone'[u] = phone[u]
  BY DEF SmsInv, TypeOK
<1>2. CASE list.pc = "page" /\ list # Idle
  <2>1. PICK had, gone :
          had = list.edited /\ gone = IF list.query.search = None THEN had ELSE had \cup {s}
    OBVIOUS
  <2>2. list = [pc |-> "page", query |-> list.query, total |-> list.total, items |-> << >>,
                edited |-> had]
    BY <1>2, <2>1 DEF SmsInv, ListOK, Idle
  <2>3. list' = [pc |-> "page", query |-> list.query, total |-> list.total, items |-> << >>,
                 edited |-> gone]
    <3>1. CASE list.query.search = None
      BY <2>1, <2>2, <3>1 DEF Searching
    <3>2. CASE list.query.search # None
      <4>1. list' = [list EXCEPT !.edited = gone]
        BY <1>2, <2>1, <3>2 DEF Searching
      <4>2. PICK query, total : query = list.query /\ total = list.total
        OBVIOUS
      <4>3. list = [pc |-> "page", query |-> query, total |-> total, items |-> << >>,
                    edited |-> had]
        BY <2>2, <4>2
      <4>4. list' = [pc |-> "page", query |-> query, total |-> total, items |-> << >>,
                     edited |-> gone]
        BY <4>1, <4>3
      <4> QED
        BY <4>2, <4>4
    <3> QED
      BY <3>1, <3>2
  <2>4. ASSUME NEW q \in Queries, NEW n \in Nat, list.query = q, Promised(q, n, had)
        PROVE  Promised(q, n, gone)'
    <3>1. PICK P : IsFiniteSet(P) /\ Cardinality(P) = n /\ P \ had \subseteq RowsOf(q)
      BY <2>4 DEF Promised
    <3>2. q.shipment = Never \/ q.search = None
      BY QueriesAre
    <3>3. P \ gone \subseteq RowsOf(q)'
      <4>1. CASE q.search = None
        <5>1. RowsOf(q) \subseteq RowsOf(q)'
          BY <1>1, <4>1, RowsEdited
        <5> QED
          BY <2>1, <2>4, <3>1, <4>1, <5>1
      <4>2. CASE q.search # None
        <5>1. RowsOf(q) \ {s} \subseteq RowsOf(q)'
          BY <1>1, <3>2, <4>2, RowsEdited
        <5> QED
          BY <2>1, <2>4, <3>1, <4>2, <5>1
      <4> QED
        BY <4>1, <4>2
    <3>4. gone \subseteq Shipments /\ (q.search = None => gone = {})
      BY <2>1, <2>4 DEF Promised
    <3> QED
      BY <3>1, <3>3, <3>4 DEF Promised
  <2> QED
    BY <1>2, <2>1, <2>3, <2>4, KeptPage DEF SmsInv
<1>3. CASE list.pc = "done" \/ list = Idle
  <2>1. list' = list
    BY <1>3 DEF Searching, Idle
  <2> QED
    BY <1>3, <2>1 DEF SmsInv, ListOK, PageKeepsPromise, Idle
<1> QED
  BY <1>2, <1>3 DEF SmsInv, ListOK

LEMMA OtherStep == ASSUME SmsAssumption, SmsInv, ChangeShipment \/ Tick PROVE SmsInv'
<1>1. UNCHANGED events /\ UNCHANGED audits /\ UNCHANGED lock /\ UNCHANGED call
  BY DEF ChangeShipment, Tick
<1>2. /\ clock \in 1..MaxClock /\ MaxClock \in Nat
      /\ archived \subseteq Shipments /\ phone \in [Shipments -> Phones]
  BY DEF SmsInv, TypeOK, SmsAssumption
<1>3. /\ clock' \in {clock, clock + 1} /\ clock' \in 1..MaxClock
      /\ archived' \subseteq Shipments /\ phone' \in [Shipments -> Phones] /\ ListOK'
  <2>1. CASE ChangeShipment
    <3>1. clock' = clock
      BY <2>1 DEF ChangeShipment
    <3>2. PICK s \in Shipments :
            \/ archived' \in {archived \cup {s}, archived \ {s}} /\ phone' = phone /\ list' = list
            \/ /\ \E p \in Phones : phone' = [phone EXCEPT ![s] = p]
               /\ list' = IF Searching THEN [list EXCEPT !.edited = @ \cup {s}] ELSE list
               /\ archived' = archived
      BY <2>1 DEF ChangeShipment
    <3>3. CASE archived' \in {archived \cup {s}, archived \ {s}} /\ phone' = phone /\ list' = list
      <4>1. ListOK'
        BY <1>1, <3>3, SameRows, SameList DEF SmsInv
      <4> QED
        BY <1>2, <3>1, <3>3, <4>1
    <3>4. CASE /\ \E p \in Phones : phone' = [phone EXCEPT ![s] = p]
               /\ list' = IF Searching THEN [list EXCEPT !.edited = @ \cup {s}] ELSE list
               /\ archived' = archived
      <4>1. ListOK'
        BY <1>1, <3>4, EditedList
      <4> QED
        BY <1>2, <3>1, <3>4, <4>1
    <3> QED
      BY <3>2, <3>3, <3>4
  <2>2. CASE Tick
    <3>1. /\ clock < MaxClock /\ clock' = clock + 1 /\ archived' = archived /\ phone' = phone
          /\ list' = list
      BY <2>2 DEF Tick
    <3>2. clock' \in 1..MaxClock
      BY <1>2, <3>1
    <3>3. ListOK'
      BY <1>1, <3>1, SameRows, SameList DEF SmsInv
    <3> QED
      BY <1>2, <3>1, <3>2, <3>3
  <2> QED
    BY <2>1, <2>2
<1>4. 1..clock \subseteq 1..clock'
  BY <1>2, <1>3
<1>5. TypeOK'
  BY <1>1, <1>3, <1>4 DEF SmsInv, TypeOK
<1>6. \A u \in Threads : CallOK(call[u])'
  BY <1>1, <1>4 DEF SmsInv, CallOK
<1> QED
  BY <1>1, <1>3, <1>5, <1>6, SameEvents DEF SmsInv

LEMMA SmsStep == ASSUME SmsAssumption, SmsInv, [Next]_vars PROVE SmsInv'
<1>1. CASE UNCHANGED vars
  <2>1. /\ UNCHANGED archived /\ UNCHANGED phone /\ UNCHANGED events /\ UNCHANGED audits
        /\ UNCHANGED lock /\ UNCHANGED call /\ UNCHANGED list /\ UNCHANGED clock
    BY <1>1 DEF vars
  <2>2. TypeOK' /\ \A u \in Threads : CallOK(call[u])'
    BY <2>1 DEF SmsInv, TypeOK, CallOK
  <2> QED
    BY <2>1, <2>2, SameEvents, SameRows, SameList DEF SmsInv
<1> QED
  BY <1>1, RecordStep, AddStep, CommitStep, FailStep, ListStep, OtherStep DEF Next, Record

(* What the four properties of the register need of the invariant.         *)
LEMMA SmsSafe ==
  ASSUME SmsAssumption, SmsInv
  PROVE  TypeOK /\ NoRefusedWrite /\ AuditPerEvent /\ PageKeepsPromise /\ ListsAgree
<1>1. TypeOK /\ AuditPerEvent
  BY DEF SmsInv
<1>2. NoRefusedWrite
  BY DEF SmsInv, NoRefusedWrite, CallOK, Idle
<1>3. PageKeepsPromise
  BY DEF SmsInv, ListOK, PageKeepsPromise, Idle
<1>4. ListsAgree
  BY ListsAgreeHere DEF SmsInv, ListsAgree
<1> QED
  BY <1>1, <1>2, <1>3, <1>4

(* Whatever calls of record_sms and of the two lists interleave, and       *)
(* whatever fails: each event has its one audit event, no validated event  *)
(* is refused by its table, a page falls short of its total only by        *)
(* shipments whose recipient was edited while it was searched for, and the *)
(* two lists agree on the last event and the number of events.             *)
THEOREM RegisterHolds ==
  ASSUME SmsAssumption
  PROVE  Spec => [](NoRefusedWrite /\ AuditPerEvent /\ PageKeepsPromise /\ ListsAgree)
<1>1. Init => SmsInv
  BY SmsInit
<1>2. SmsInv /\ [Next]_vars => SmsInv'
  BY SmsStep
<1>3. SmsInv => NoRefusedWrite /\ AuditPerEvent /\ PageKeepsPromise /\ ListsAgree
  BY SmsSafe
<1> QED
  BY <1>1, <1>2, <1>3, PTL DEF Spec
=============================================================================
