--------------------------- MODULE StudyScreenProofs ---------------------------
(* Proofs about the study screen, for any deck, any limits and any clock.   *)
EXTENDS StudyScreen, SchedulerProofs, SequenceTheorems

(* A screen that is not open asks for nothing, a session is blank unless it *)
(* has been seeded, and an answer is shown since an instant that has passed.*)
SessionInv ==
  /\ mount = 0 => ~started /\ fetch = NoQueue
  /\ ~started => session = EmptySession
  /\ started => sessions # 0
  /\ session.phase = "answer" => session.revealedAt \in 0..now

(* How far the session is, told by its index, its phase and its results.    *)
ProgressInv ==
  /\ session.index \in 0..Len(session.items)
  /\ session.phase = "summary" <=> session.index = Len(session.items)
  /\ Len(session.results) = session.index
  /\ \A i \in 1..session.index : session.results[i].card = session.items[i].card
  /\ started => /\ Len(handed) = session.index
                /\ \A i \in 1..session.index : /\ session.results[i].card = handed[i].card
                                               /\ session.results[i].rating = handed[i].rating

Distinct(items) == \A i, j \in 1..Len(items) : items[i].card = items[j].card => i = j

(* No list of items has a card twice, cached, under way or being studied.   *)
DistinctInv == Distinct(cache.items) /\ Distinct(fetch.items) /\ Distinct(session.items)

(* The places in each outbox of the reviews the server will apply. *)
Good == [m \in 1..MaxMounts |-> {i \in 1..Len(outbox[m]) : Accepts(outbox[m][i])}]

(* What was refused will be refused again. *)
RefusedInv == \A m \in 1..MaxMounts : \A i \in 1..Len(failed[m]) : ~Accepts(failed[m][i])

(* Since a session was seeded with what the server has: a review that has   *)
(* not been applied was labelled from its card's schedule, no two reviews   *)
(* that will be applied are of one card, and the cards yet to be shown are  *)
(* as the server has them, without a review on its way.                     *)
FreshInv ==
  fresh =>
    /\ \A m \in 1..MaxMounts : \A i \in Good[m] :
         ~outbox[m][i].again
           => InStep(outbox[m][i].shown) /\ outbox[m][i].shown.card = outbox[m][i].card
    /\ \A m, n \in 1..MaxMounts : \A i \in Good[m], j \in Good[n] :
         outbox[m][i].card = outbox[n][j].card => m = n /\ i = j
    /\ \A k \in session.index + 1..Len(session.items) :
         /\ InStep(session.items[k])
         /\ \A m \in 1..MaxMounts : \A i \in Good[m] :
              outbox[m][i].card # session.items[k].card

Inv == TypeOK /\ SessionInv /\ ProgressInv /\ DistinctInv

-----------------------------------------------------------------------------
(* A card is some time old, or none, whatever the clock says.               *)
LEMMA AgeType ==
  ASSUME NEW st \in Schedule, NEW at \in Nat
  PROVE  Age(st, at) \in Nat
<1>1. CASE st.last = Never \/ at < st.last
  BY <1>1 DEF Age
<1>2. CASE ~(st.last = Never \/ at < st.last)
  <2>1. st.last \in Nat /\ at - st.last \in Nat
    BY <1>2 DEF Schedule
  <2>2. \A d \in Nat, unit \in Nat \ {0} : d \div unit \in Nat
    OBVIOUS
  <2>3. (at - st.last) \div AgeUnit \in Nat
    BY <2>1, <2>2, ScreenAssumption
  <2> QED
    BY <1>2, <2>3 DEF Age
<1> QED
  BY <1>1, <1>2

(* Whatever a card is rated, its stability and its interval are numbers.    *)
LEMMA IntervalType ==
  ASSUME NEW st \in Schedule, NEW rating \in Ratings, NEW age \in Nat
  PROVE  Stability(st, rating, age) \in Nat /\ IntervalOf(st, rating, age) \in Nat
<1>1. st.stability \in Nat /\ rating \in Nat
  BY DEF Schedule, Ratings, RatingAgain, RatingEasy
<1>2. Stability(st, rating, age) \in Nat
  BY <1>1 DEF Stability
<1>3. Stability(st, rating, age) * DayLength \in Nat
  <2>1. \A x, y \in Nat : x * y \in Nat
    OBVIOUS
  <2> QED
    BY <1>2, <2>1, DayLengthAssumption
<1> QED
  BY <1>2, <1>3 DEF IntervalOf

(* The queue lists each card that is due once, with what its buttons are    *)
(* labelled from.                                                           *)
LEMMA DueItemsType ==
  ASSUME TypeOK
  PROVE  /\ DueItems \in Seq(Items)
         /\ Distinct(DueItems)
         /\ \A i \in 1..Len(DueItems) : InStep(DueItems[i])
<1> DEFINE due == {c \in Cards : states[c].due <= now}
           R   == {p \in due \X due : p[1] < p[2]}
           n   == Cardinality(due)
<1>1. IsFiniteSet(due) /\ due \subseteq Nat
  BY ScreenAssumption, FS_Subset
<1>2. n \in Nat
  BY <1>1, FS_CardinalityType
<1> HIDE DEF due
<1>3. /\ \A x \in due : <<x, x>> \notin R
      /\ \A x, y \in due : x # y => <<x, y>> \in R \/ <<y, x>> \in R
      /\ \A x, y, z \in due : <<x, y>> \in R /\ <<y, z>> \in R => <<x, z>> \in R
  BY <1>1
<1>4. \E s \in [1..n -> due] : \A i, j \in 1..n : i < j => <<s[i], s[j]>> \in R
  <2> HIDE DEF R
  <2> QED
    BY <1>1, <1>3, OrderExists
<1>5. \E s \in [1..n -> due] : \A i, j \in DOMAIN s : i < j => s[i] < s[j]
  BY <1>4
<1>6. /\ InOrder(due) \in [1..n -> due]
      /\ \A i, j \in 1..n : i < j => InOrder(due)[i] < InOrder(due)[j]
  BY <1>5 DEF InOrder
<1>7. \A i, j \in 1..n : InOrder(due)[i] = InOrder(due)[j] => i = j
  <2>1. \A i, j \in 1..n : i < j => <<InOrder(due)[i], InOrder(due)[j]>> \in R
    BY <1>6
  <2> HIDE DEF R
  <2> QED
    BY <1>1, <1>3, <1>6, <2>1, OrderIsBijection
<1> DEFINE s == InOrder(due)
           items == [i \in 1..n |-> [card |-> s[i], schedule |-> states[s[i]],
                                     age |-> Age(states[s[i]], now)]]
<1>8. DueItems = items
  BY <1>6 DEF DueItems, due
<1>9. \A i \in 1..n : s[i] \in Cards
  BY <1>6 DEF due
<1> HIDE DEF s
<1>10. \A i \in 1..n : items[i] \in Items
  <2> SUFFICES ASSUME NEW i \in 1..n PROVE items[i] \in Items
    OBVIOUS
  <2>1. states[s[i]] \in Schedule /\ now \in Nat
    <3>1. states \in [Cards -> Schedule] /\ now \in 0..MaxTime
      BY DEF TypeOK
    <3> HIDE DEF n, items
    <3>2. s[i] \in Cards
      BY <1>9
    <3>3. states[s[i]] \in Schedule
      BY <3>1, <3>2
    <3>4. now \in Nat
      BY <3>1, ScreenAssumption
    <3> QED
      BY <3>3, <3>4
  <2>2. Age(states[s[i]], now) \in Nat
    BY <2>1, AgeType
  <2> QED
    BY <1>9, <2>1, <2>2 DEF Items
<1>11. items \in Seq(Items) /\ Len(items) = n
  BY <1>2, <1>10
<1>12. \A i \in 1..n : items[i].card = s[i] /\ InStep(items[i])
  BY DEF InStep
<1>13. Distinct(items)
  BY <1>7, <1>11, <1>12 DEF Distinct, s
<1> HIDE DEF items
<1> QED
  BY <1>8, <1>11, <1>12, <1>13

-----------------------------------------------------------------------------
(* The reducer *)

(* A session begins at its first card, or is over if it has none. *)
LEMMA StartSessionFacts ==
  ASSUME NEW items \in Seq(Items)
  PROVE  /\ StartSession(items) \in Sessions
         /\ StartSession(items).items = items
         /\ StartSession(items).index = 0
         /\ StartSession(items).results = << >>
         /\ StartSession(items).phase \in {"question", "summary"}
         /\ StartSession(items).phase = "summary" <=> Len(items) = 0
<1>1. << >> \in Seq(Results) /\ Len(items) \in Nat /\ (Len(items) = 0 <=> items = << >>)
  BY EmptySeq, LenProperties
<1> QED
  BY <1>1 DEF StartSession, Sessions

(* Rating the card that is shown records its result and goes on to the next.*)
LEMMA RatedFacts ==
  ASSUME NEW s \in Sessions, NEW rating \in RatingsGiven, NEW at \in 0..MaxTime,
         s.phase = "answer", s.index \in 0..Len(s.items) - 1, s.revealedAt \in 0..at
  PROVE  LET next   == Rated(s, rating, at)
             result == [card |-> s.items[s.index + 1].card, rating |-> rating,
                        duration |-> Capped(at - s.revealedAt)]
         IN  /\ next \in Sessions
             /\ next.items = s.items
             /\ next.index = s.index + 1
             /\ next.results = Append(s.results, result)
             /\ result \in Results
             /\ next.phase \in {"question", "summary"}
             /\ next.phase = "summary" <=> s.index + 1 = Len(s.items)
<1> DEFINE result == [card |-> s.items[s.index + 1].card, rating |-> rating,
                      duration |-> Capped(at - s.revealedAt)]
<1>1. /\ s.items \in Seq(Items) /\ s.results \in Seq(Results) /\ s.index \in Nat
      /\ Len(s.items) \in Nat
  BY LenProperties DEF Sessions
<1>2. s.items[s.index + 1] \in Items
  BY <1>1, ElementOfSeq
<1>3. Capped(at - s.revealedAt) \in 0..MaxDuration
  BY ScreenAssumption DEF Capped
<1>4. result \in Results
  BY <1>2, <1>3 DEF Results, Items
<1> HIDE DEF result
<1>5. Append(s.results, result) \in Seq(Results)
  BY <1>1, <1>4, AppendProperties
<1>6. Rated(s, rating, at) =
        [s EXCEPT !.index = s.index + 1,
                  !.phase = IF s.index + 1 >= Len(s.items) THEN "summary" ELSE "question",
                  !.revealedAt = Never,
                  !.results = Append(s.results, result)]
  BY <1>1 DEF Rated, result
<1>7. Rated(s, rating, at) =
        [items |-> s.items, index |-> s.index + 1, revealedAt |-> Never,
         results |-> Append(s.results, result),
         phase |-> IF s.index + 1 >= Len(s.items) THEN "summary" ELSE "question"]
  BY <1>6 DEF Sessions
<1>8. Rated(s, rating, at) \in Sessions
  BY <1>1, <1>5, <1>7 DEF Sessions
<1> QED
  BY <1>1, <1>4, <1>7, <1>8 DEF result

-----------------------------------------------------------------------------
(* The screen *)

(* Whatever seeds it, a session is at its beginning. *)
LEMMA SeedFacts ==
  ASSUME Inv, NEW items \in Seq(Items), Distinct(items), Seed(items)
  PROVE  /\ session' \in Sessions /\ session'.items = items
         /\ session'.phase # "answer"
         /\ started' = TRUE /\ sessions' \in 1..MaxSessions /\ fresh' \in BOOLEAN
         /\ handed' = << >> /\ handed' \in Seq([card : Cards, rating : RatingsGiven])
         /\ ProgressInv' /\ Distinct(session'.items)
<1>1. /\ session' = StartSession(items) /\ started' = TRUE /\ handed' = << >>
      /\ sessions' = sessions + 1 /\ sessions < MaxSessions
      /\ fresh' \in BOOLEAN
  BY DEF Seed
<1>2. Len(items) \in Nat /\ Len(handed') = 0 /\ Len(session'.results) = 0
  BY <1>1, StartSessionFacts, LenProperties
<1>3. ProgressInv'
  BY <1>1, <1>2, StartSessionFacts DEF ProgressInv
<1>4. sessions' \in 1..MaxSessions
  BY <1>1, ScreenAssumption DEF Inv, TypeOK
<1> QED
  BY <1>1, <1>3, <1>4, StartSessionFacts, EmptySeq

LEMMA EmptyQueueFacts ==
  /\ NoQueue \in Queues /\ Asked \in Queues /\ NoQueue # Asked
  /\ Distinct(NoQueue.items) /\ Distinct(Asked.items)
  /\ EmptySession \in Sessions /\ Distinct(EmptySession.items)
  /\ EmptySession.phase = "summary" /\ EmptySession.index = 0
  /\ EmptySession.results = << >> /\ EmptySession.items = << >>
<1>1. << >> \in Seq(Items) /\ Len(<< >>) = 0
  BY EmptySeq
<1>2. EmptySession \in Sessions /\ EmptySession.items = << >>
      /\ EmptySession.index = 0 /\ EmptySession.results = << >>
      /\ EmptySession.phase = "summary"
  BY <1>1, StartSessionFacts DEF EmptySession
<1> QED
  BY <1>1, <1>2 DEF NoQueue, Asked, Queues, Distinct

LEMMA InvInit == Init => Inv
<1> SUFFICES ASSUME Init PROVE Inv
  OBVIOUS
<1> USE ScreenAssumption DEF Init
<1>1. states \in [Cards -> Schedule]
  <2>1. NewSchedule \in Schedule /\ DueSchedule \in Schedule
    BY DayLengthAssumption DEF NewSchedule, DueSchedule, Schedule, States, StateNew,
       StateReview, StateRelearning
  <2> QED
    BY <2>1
<1>2. /\ outbox \in [1..MaxMounts -> Seq(Reviews)]
      /\ failed \in [1..MaxMounts -> Seq(Reviews)]
      /\ handed \in Seq([card : Cards, rating : RatingsGiven])
  BY EmptySeq
<1>3. now \in 0..MaxTime /\ opened \in 0..MaxMounts /\ lost \in 0..MaxLost
      /\ sessions \in 0..MaxSessions
  BY DayLengthAssumption
<1>4. cache \in Queues /\ fetch \in Queues /\ cache # Asked /\ session \in Sessions
  BY EmptyQueueFacts
<1>5. TypeOK
  BY <1>1, <1>2, <1>3, <1>4 DEF TypeOK
<1>6. SessionInv /\ DistinctInv
  BY EmptyQueueFacts DEF SessionInv, DistinctInv
<1>7. ProgressInv
  BY EmptyQueueFacts, EmptySeq DEF ProgressInv
<1> QED
  BY <1>5, <1>6, <1>7 DEF Inv

(* What the handler applies to a card is a schedule again. *)
LEMMA AppliedType ==
  ASSUME TypeOK, NEW review \in Reviews
  PROVE  Applied(review) \in Schedule
<1> DEFINE st == states[review.card]
<1> HIDE DEF st
<1>1. review.rating \in Ratings /\ st \in Schedule /\ now \in Nat
  <2>1. review.card \in Cards /\ review.rating \in RatingsGiven
    BY DEF Reviews
  <2>2. states \in [Cards -> Schedule] /\ now \in 0..MaxTime
    BY DEF TypeOK
  <2>3. st \in Schedule
    BY <2>1, <2>2 DEF st
  <2>4. now \in Nat
    BY <2>2, ScreenAssumption
  <2>5. review.rating \in Ratings
    BY <2>1, ScreenAssumption
  <2> QED
    BY <2>3, <2>4, <2>5
<1>2. st.state \in States /\ st.steps \in Nat
  BY <1>1 DEF Schedule
<1>3. /\ NextState(st, review.rating) \in States
      /\ NextSteps(st, review.rating) \in Nat
  BY <1>1, <1>2, NextType
<1> DEFINE age == Age(st, now)
<1>4. /\ Stability(st, review.rating, age) \in Nat
      /\ now + IntervalOf(st, review.rating, age) \in Nat
  BY <1>1, AgeType, IntervalType
<1> QED
  BY <1>1, <1>3, <1>4 DEF Applied, ApplyAt, Schedule, st

(* The review a rating hands over, and the session it leaves. *)
LEMMA RateFacts ==
  ASSUME Inv, NEW rating \in RatingsGiven, Rate(rating)
  PROVE  LET item   == session.items[session.index + 1]
             review == [card |-> item.card, rating |-> rating,
                        duration |-> now - session.revealedAt,
                        shown |-> item, session |-> sessions, again |-> FALSE]
         IN  /\ session.index \in 0..Len(session.items) - 1
             /\ mount \in 1..MaxMounts /\ started /\ session \in Sessions
             /\ item \in Items /\ review \in Reviews
             /\ outbox' = [outbox EXCEPT ![mount] = Append(@, review)]
             /\ handed' = Append(handed, [card |-> item.card, rating |-> rating])
             /\ session' = Rated(session, rating, now)
             /\ session.phase = "answer" /\ session.revealedAt \in 0..now /\ now \in 0..MaxTime
<1> DEFINE item == session.items[session.index + 1]
<1>1. /\ mount # 0 /\ session.index < Len(session.items) /\ session.phase = "answer"
      /\ session' = Rated(session, rating, now) /\ HandOver(rating)
  BY DEF Rate
<1>2. /\ session \in Sessions /\ now \in 0..MaxTime /\ mount \in {0, opened}
      /\ opened \in 0..MaxMounts /\ sessions \in 0..MaxSessions
  BY DEF Inv, TypeOK
<1>3. session.items \in Seq(Items) /\ session.index \in Nat /\ Len(session.items) \in Nat
  BY <1>2, LenProperties DEF Sessions
<1>4. session.index \in 0..Len(session.items) - 1
  BY <1>1, <1>3
<1>5. mount \in 1..MaxMounts
  BY <1>1, <1>2, ScreenAssumption
<1>6. started
  BY <1>1, EmptyQueueFacts DEF Inv, SessionInv
<1>7. session.revealedAt \in 0..now /\ sessions \in 1..MaxSessions
  BY <1>1, <1>2, <1>6, ScreenAssumption DEF Inv, SessionInv
<1>8. item \in Items
  BY <1>3, <1>4, ElementOfSeq
<1>9. now - session.revealedAt \in 0..MaxTime
  BY <1>2, <1>7, ScreenAssumption
<1>10. [card |-> item.card, rating |-> rating, duration |-> now - session.revealedAt,
        shown |-> item, session |-> sessions, again |-> FALSE] \in Reviews
  BY <1>7, <1>8, <1>9 DEF Reviews, Items
<1> QED
  BY <1>1, <1>2, <1>4, <1>5, <1>6, <1>7, <1>8, <1>10 DEF HandOver

LEMMA InvStep == Inv /\ [Next]_vars => Inv'
<1> SUFFICES ASSUME Inv, [Next]_vars PROVE Inv'
  OBVIOUS
<1> USE DEF screen, queries, boxes, history
<1>a. TypeOK /\ SessionInv /\ ProgressInv /\ DistinctInv
  BY DEF Inv
<1>b. /\ MaxTime \in Nat /\ MaxMounts \in Nat /\ MaxSessions \in Nat /\ MaxLost \in Nat
      /\ cache.items \in Seq(Items) /\ fetch.items \in Seq(Items)
  BY <1>a, ScreenAssumption DEF TypeOK, Queues
<1>c. ASSUME UNCHANGED <<session, started, handed>>
      PROVE  ProgressInv'
  BY <1>a, <1>c DEF ProgressInv
<1>1. CASE Open
  <2>1. /\ mount = 0 /\ opened < MaxMounts /\ opened' = opened + 1 /\ mount' = opened + 1
        /\ fetch' = Asked /\ UNCHANGED <<now, states, cache, isError, boxes>>
    BY <1>1 DEF Open
  <2>2. opened' \in 0..MaxMounts /\ mount' = opened' /\ mount' # 0
    BY <2>1, <1>a, <1>b DEF TypeOK
  <2>3. CASE cache = NoQueue
    <3>1. UNCHANGED <<session, started, history>>
      BY <1>1, <2>3 DEF Open
    <3>2. TypeOK'
      BY <2>1, <2>2, <3>1, <1>a, EmptyQueueFacts DEF TypeOK
    <3>3. SessionInv' /\ DistinctInv'
      BY <2>1, <2>2, <3>1, <1>a, EmptyQueueFacts DEF SessionInv, DistinctInv
    <3> QED
      BY <3>1, <3>2, <3>3, <1>c DEF Inv
  <2>4. CASE cache # NoQueue
    <3>1. Seed(cache.items)
      BY <1>1, <2>4 DEF Open
    <3>2. /\ session' \in Sessions /\ session'.phase # "answer"
          /\ started' = TRUE /\ sessions' \in 1..MaxSessions /\ fresh' \in BOOLEAN
          /\ handed' \in Seq([card : Cards, rating : RatingsGiven])
          /\ ProgressInv' /\ Distinct(session'.items)
      BY <3>1, <1>a, <1>b, SeedFacts DEF DistinctInv
    <3>3. TypeOK'
      BY <2>1, <2>2, <3>2, <1>a, EmptyQueueFacts DEF TypeOK
    <3>4. SessionInv' /\ DistinctInv'
      BY <2>1, <2>2, <3>2, <1>a, EmptyQueueFacts DEF SessionInv, DistinctInv
    <3> QED
      BY <3>2, <3>3, <3>4 DEF Inv
  <2> QED
    BY <2>3, <2>4
<1>2. CASE Leave
  <2> USE <1>2 DEF Leave
  <2>1. TypeOK'
    BY <1>a, EmptyQueueFacts DEF TypeOK
  <2>2. SessionInv' /\ DistinctInv'
    BY <1>a, EmptyQueueFacts DEF SessionInv, DistinctInv
  <2>3. ProgressInv'
    BY <1>a, EmptyQueueFacts, EmptySeq DEF ProgressInv
  <2> QED
    BY <2>1, <2>2, <2>3 DEF Inv
<1>3. CASE QueueAnswered
  <2> USE <1>3 DEF QueueAnswered
  <2>1. fetch' \in Queues /\ fetch'.items = DueItems
    BY <1>a, DueItemsType DEF Queue, Queues
  <2>2. TypeOK'
    BY <2>1, <1>a DEF TypeOK
  <2>3. SessionInv' /\ DistinctInv'
    BY <2>1, <1>a, DueItemsType, EmptyQueueFacts DEF SessionInv, DistinctInv
  <2> QED
    BY <2>2, <2>3, <1>c DEF Inv
<1>4. CASE QueueArrives
  <2>1. /\ fetch.is = "here" /\ cache' = fetch /\ isError' = FALSE
        /\ UNCHANGED <<now, states, mount, opened, boxes>>
    BY <1>4 DEF QueueArrives
  <2>2. cache' \in Queues /\ cache' # Asked
    BY <2>1, <1>a DEF TypeOK, Asked
  <2>3. CASE started
    <3>1. fetch' = NoQueue /\ UNCHANGED <<session, started, history>>
      BY <1>4, <2>3 DEF QueueArrives
    <3>2. TypeOK'
      BY <2>1, <2>2, <3>1, <1>a, EmptyQueueFacts DEF TypeOK
    <3>3. SessionInv' /\ DistinctInv'
      BY <2>1, <3>1, <1>a, EmptyQueueFacts DEF SessionInv, DistinctInv
    <3> QED
      BY <3>1, <3>2, <3>3, <1>c DEF Inv
  <2>4. CASE ~started
    <3>1. Seed(fetch.items) /\ fetch' \in {Asked, NoQueue}
      BY <1>4, <2>4 DEF QueueArrives
    <3>2. /\ session' \in Sessions /\ session'.phase # "answer"
          /\ started' = TRUE /\ sessions' \in 1..MaxSessions /\ fresh' \in BOOLEAN
          /\ handed' \in Seq([card : Cards, rating : RatingsGiven])
          /\ ProgressInv' /\ Distinct(session'.items)
      BY <3>1, <1>a, <1>b, SeedFacts DEF DistinctInv
    <3>3. TypeOK'
      <4>1. fetch' \in Queues
        BY <3>1, EmptyQueueFacts
      <4>2. sessions' \in 0..MaxSessions
        BY <3>2
      <4>4. /\ started' \in BOOLEAN /\ isError' \in BOOLEAN
            /\ cache' \in Queues /\ cache' # Asked
        BY <2>1, <2>2, <3>2
      <4>3. now' \in 0..MaxTime /\ states' \in [Cards -> Schedule]
            /\ opened' \in 0..MaxMounts /\ mount' \in {0, opened'}
            /\ outbox' \in [1..MaxMounts -> Seq(Reviews)]
            /\ failed' \in [1..MaxMounts -> Seq(Reviews)] /\ lost' \in 0..MaxLost
        BY <2>1, <1>a DEF TypeOK
      <4> QED
        BY <3>2, <4>1, <4>2, <4>3, <4>4 DEF TypeOK
    <3>4. mount # 0
      BY <1>a, <2>1 DEF SessionInv, NoQueue
    <3>5. SessionInv' /\ DistinctInv'
      BY <2>1, <3>1, <3>2, <3>4, <1>a, EmptyQueueFacts DEF SessionInv, DistinctInv
    <3> QED
      BY <3>2, <3>3, <3>5 DEF Inv
  <2> QED
    BY <2>3, <2>4
<1>5. CASE QueueFails \/ Retry \/ CacheExpires
  <2>1. /\ cache' \in {cache, NoQueue} /\ fetch' \in {fetch, NoQueue, Asked}
        /\ isError' \in BOOLEAN
        /\ mount = 0 => fetch' = NoQueue
        /\ UNCHANGED <<now, states, screen, boxes, history>>
    BY <1>5, <1>a DEF QueueFails, Retry, CacheExpires, TypeOK, SessionInv
  <2>2. TypeOK'
    BY <2>1, <1>a, EmptyQueueFacts DEF TypeOK
  <2>3. SessionInv' /\ DistinctInv'
    BY <2>1, <1>a, EmptyQueueFacts DEF SessionInv, DistinctInv
  <2> QED
    BY <2>1, <2>2, <2>3, <1>c DEF Inv
<1>6. CASE Reveal
  <2> USE <1>6 DEF Reveal
  <2>1. session \in Sessions /\ session.phase = "question" /\ now \in 0..MaxTime
    BY <1>a DEF TypeOK
  <2>2. session' = [session EXCEPT !.phase = "answer", !.revealedAt = now]
    BY <2>1 DEF Revealed
  <2>3. /\ session' \in Sessions /\ session'.phase = "answer" /\ session'.revealedAt = now
        /\ UNCHANGED <<session.items, session.index, session.results>>
    BY <2>1, <2>2 DEF Sessions
  <2>4. TypeOK'
    BY <2>3, <1>a DEF TypeOK
  <2>5. started
    BY <1>a, EmptyQueueFacts DEF SessionInv
  <2>6. SessionInv'
    <3>1. now \in 0..now
      BY <2>1
    <3> QED
      BY <3>1, <2>3, <2>5, <1>a DEF SessionInv
  <2>7. ProgressInv'
    BY <2>1, <2>3, <1>a DEF ProgressInv
  <2>8. DistinctInv'
    BY <2>3, <1>a DEF DistinctInv
  <2> QED
    BY <2>4, <2>6, <2>7, <2>8 DEF Inv
<1>7. CASE StudyAgain
  <2>1. /\ Seed(cache.items) /\ fetch' = Asked /\ mount # 0
        /\ UNCHANGED <<now, states, cache, isError, mount, opened, boxes>>
    BY <1>7 DEF StudyAgain, SummaryShown
  <2>2. /\ session' \in Sessions /\ session'.phase # "answer"
        /\ started' = TRUE /\ sessions' \in 1..MaxSessions /\ fresh' \in BOOLEAN
        /\ handed' \in Seq([card : Cards, rating : RatingsGiven])
        /\ ProgressInv' /\ Distinct(session'.items)
    BY <2>1, <1>a, <1>b, SeedFacts DEF DistinctInv
  <2>3. TypeOK'
    BY <2>1, <2>2, <1>a, EmptyQueueFacts DEF TypeOK
  <2>4. SessionInv' /\ DistinctInv'
    BY <2>1, <2>2, <1>a, EmptyQueueFacts DEF SessionInv, DistinctInv
  <2> QED
    BY <2>2, <2>3, <2>4 DEF Inv
<1>8. CASE RetryFailed
  <2>1. /\ mount # 0
        /\ outbox' = [outbox EXCEPT ![mount] = @ \o failed[mount]]
        /\ failed' = [failed EXCEPT ![mount] = << >>]
        /\ UNCHANGED <<now, states, lost, queries, screen, history>>
    BY <1>8 DEF RetryFailed, SummaryShown
  <2>2. /\ mount \in 1..MaxMounts
        /\ outbox \in [1..MaxMounts -> Seq(Reviews)] /\ failed \in [1..MaxMounts -> Seq(Reviews)]
    BY <2>1, <1>a, <1>b DEF TypeOK
  <2>3. outbox[mount] \o failed[mount] \in Seq(Reviews) /\ << >> \in Seq(Reviews)
    BY <2>2, ConcatProperties, EmptySeq
  <2>4. outbox' \in [1..MaxMounts -> Seq(Reviews)] /\ failed' \in [1..MaxMounts -> Seq(Reviews)]
    BY <2>1, <2>2, <2>3
  <2>5. TypeOK'
    BY <2>1, <2>4, <1>a DEF TypeOK
  <2>6. SessionInv' /\ DistinctInv'
    BY <2>1, <1>a DEF SessionInv, DistinctInv
  <2> QED
    BY <2>1, <2>5, <2>6, <1>c DEF Inv
<1>9. ASSUME NEW rating \in RatingsGiven, Rate(rating)
      PROVE  Inv'
  <2> DEFINE item   == session.items[session.index + 1]
             review == [card |-> item.card, rating |-> rating,
                        duration |-> now - session.revealedAt,
                        shown |-> item, session |-> sessions, again |-> FALSE]
             result == [card |-> item.card, rating |-> rating,
                        duration |-> Capped(now - session.revealedAt)]
             pair   == [card |-> item.card, rating |-> rating]
  <2>1. /\ session.index \in 0..Len(session.items) - 1
        /\ mount \in 1..MaxMounts /\ started /\ session \in Sessions
        /\ item \in Items /\ review \in Reviews
        /\ outbox' = [outbox EXCEPT ![mount] = Append(@, review)]
        /\ handed' = Append(handed, pair)
        /\ session' = Rated(session, rating, now)
        /\ session.phase = "answer" /\ session.revealedAt \in 0..now /\ now \in 0..MaxTime
    BY <1>9, RateFacts
  <2>2. /\ session' \in Sessions
        /\ session'.items = session.items
        /\ session'.index = session.index + 1
        /\ session'.results = Append(session.results, result)
        /\ result \in Results
        /\ session'.phase \in {"question", "summary"}
        /\ session'.phase = "summary" <=> session.index + 1 = Len(session.items)
    BY <2>1, RatedFacts
  <2>3. /\ fetch' \in {Asked, fetch}
        /\ UNCHANGED <<now, states, cache, isError, mount, opened, started, failed, lost,
                       sessions, fresh>>
    BY <1>9 DEF Rate
  <2>4. pair \in [card : Cards, rating : RatingsGiven]
    BY <2>1 DEF Items
  <2> HIDE DEF item, review, result, pair
  <2>5. outbox' \in [1..MaxMounts -> Seq(Reviews)]
    <3>1. outbox \in [1..MaxMounts -> Seq(Reviews)]
      BY <1>a DEF TypeOK
    <3>2. Append(outbox[mount], review) \in Seq(Reviews)
      BY <3>1, <2>1, AppendProperties
    <3> QED
      BY <2>1, <3>1, <3>2
  <2>6. handed' \in Seq([card : Cards, rating : RatingsGiven])
    BY <2>1, <2>4, <1>a, AppendProperties DEF TypeOK
  <2>7. TypeOK'
    BY <2>2, <2>3, <2>5, <2>6, <1>a, EmptyQueueFacts DEF TypeOK
  <2>8. SessionInv' /\ DistinctInv'
    BY <2>1, <2>2, <2>3, <1>a, EmptyQueueFacts DEF SessionInv, DistinctInv
  <2>9. ProgressInv'
    <3>1. /\ session.index \in Nat /\ Len(session.items) \in Nat
          /\ session.results \in Seq(Results) /\ handed \in Seq([card : Cards, rating : RatingsGiven])
          /\ Len(session.results) = session.index /\ Len(handed) = session.index
      BY <2>1, <1>a, LenProperties DEF TypeOK, Sessions, ProgressInv
    <3>2. /\ Len(session'.results) = session.index + 1 /\ Len(handed') = session.index + 1
          /\ \A i \in 1..session.index : session'.results[i] = session.results[i]
          /\ \A i \in 1..session.index : handed'[i] = handed[i]
          /\ session'.results[session.index + 1] = result
          /\ handed'[session.index + 1] = pair
      BY <2>1, <2>2, <2>4, <3>1, AppendProperties
    <3>3. session'.index \in 0..Len(session'.items)
          /\ (session'.phase = "summary" <=> session'.index = Len(session'.items))
      BY <2>1, <2>2, <3>1
    <3>4. ASSUME NEW i \in 1..session.index + 1
          PROVE  /\ session'.results[i].card = session'.items[i].card
                 /\ session'.results[i].card = handed'[i].card
                 /\ session'.results[i].rating = handed'[i].rating
      <4>1. CASE i = session.index + 1
        BY <4>1, <3>2, <2>2 DEF result, pair, item
      <4>2. CASE i \in 1..session.index
        BY <4>2, <3>2, <2>1, <2>2, <1>a DEF ProgressInv
      <4> QED
        BY <4>1, <4>2, <3>1
    <3> QED
      BY <2>2, <3>2, <3>3, <3>4 DEF ProgressInv
  <2> QED
    BY <2>7, <2>8, <2>9 DEF Inv
<1>10. ASSUME NEW m \in 1..MaxMounts, Deliver(m)
       PROVE  Inv'
  <2> DEFINE review == Head(outbox[m])
  <2>1. /\ outbox \in [1..MaxMounts -> Seq(Reviews)] /\ failed \in [1..MaxMounts -> Seq(Reviews)]
        /\ states \in [Cards -> Schedule] /\ lost \in 0..MaxLost
    BY <1>a DEF TypeOK
  <2>2. outbox[m] # << >> /\ UNCHANGED <<now, queries, screen, history>>
    BY <1>10 DEF Deliver
  <2>3. /\ review \in Reviews /\ Tail(outbox[m]) \in Seq(Reviews)
        /\ Len(outbox[m]) \in Nat \ {0} /\ review = outbox[m][1]
    BY <2>1, <2>2, HeadTailProperties, EmptySeq
  <2>4. /\ outbox' \in [1..MaxMounts -> Seq(Reviews)] /\ failed' \in [1..MaxMounts -> Seq(Reviews)]
        /\ states' \in [Cards -> Schedule] /\ lost' \in 0..MaxLost
    <3>1. CASE Accepts(review)
      <4>1. failed' = failed /\ states' = [states EXCEPT ![review.card] = Applied(review)]
        BY <1>10, <3>1 DEF Deliver
      <4>2. states' \in [Cards -> Schedule]
        <5>1. Applied(review) \in Schedule
          BY <2>3, <1>a, AppliedType
        <5> HIDE DEF review
        <5> QED
          BY <4>1, <5>1, <2>1
      <4>3. CASE outbox' = [outbox EXCEPT ![m] = Tail(@)] /\ UNCHANGED lost
        BY <2>1, <2>3, <4>1, <4>2, <4>3
      <4>4. CASE lost < MaxLost /\ lost' = lost + 1 /\ outbox' = [outbox EXCEPT ![m][1].again = TRUE]
        <5>1. lost' \in 0..MaxLost
          <6>1. lost \in 0..MaxLost /\ lost < MaxLost /\ lost' = lost + 1
            BY <2>1, <4>4
          <6> QED
            BY <6>1, <1>b
        <5>2. [review EXCEPT !.again = TRUE] \in Reviews
          <6> HIDE DEF review
          <6> QED
            BY <2>3 DEF Reviews
        <5>3. [outbox[m] EXCEPT ![1] = [review EXCEPT !.again = TRUE]] \in Seq(Reviews)
          <6>1. 1 \in 1..Len(outbox[m]) /\ outbox[m] \in Seq(Reviews)
            BY <2>1, <2>3
          <6> HIDE DEF review
          <6> QED
            BY <5>2, <6>1, ExceptSeq
        <5>4. outbox' = [outbox EXCEPT ![m] = [outbox[m] EXCEPT ![1] = [review EXCEPT !.again = TRUE]]]
          <6>1. outbox[m][1].again \in BOOLEAN /\ outbox[m][1] = review
            BY <2>3 DEF Reviews
          <6> QED
            BY <4>4, <6>1
        <5>5. outbox' \in [1..MaxMounts -> Seq(Reviews)]
          BY <5>3, <5>4, <2>1
        <5> QED
          BY <5>1, <5>5, <4>1, <4>2, <2>1
      <4> QED
        BY <1>10, <3>1, <4>3, <4>4 DEF Deliver
    <3>2. CASE ~Accepts(review)
      <4>1. /\ outbox' = [outbox EXCEPT ![m] = Tail(@)] /\ UNCHANGED <<states, lost>>
            /\ failed' = [failed EXCEPT ![m] = Append(@, review)]
        BY <1>10, <3>2 DEF Deliver
      <4>2. Append(failed[m], review) \in Seq(Reviews)
        <5> HIDE DEF review
        <5> QED
          BY <2>1, <2>3, AppendProperties
      <4> HIDE DEF review
      <4> QED
        BY <4>1, <4>2, <2>1, <2>3
    <3> QED
      BY <3>1, <3>2
  <2>5. TypeOK'
    BY <2>2, <2>4, <1>a DEF TypeOK
  <2>6. SessionInv' /\ DistinctInv'
    BY <2>2, <1>a DEF SessionInv, DistinctInv
  <2> QED
    BY <2>2, <2>5, <2>6, <1>c DEF Inv
<1>11. CASE Tick
  <2> USE <1>11 DEF Tick
  <2>1. now' \in 0..MaxTime /\ now' = now + 1 /\ now \in Nat
    BY <1>a, <1>b DEF TypeOK
  <2>2. TypeOK'
    BY <2>1, <1>a DEF TypeOK
  <2>3. SessionInv'
    BY <2>1, <1>a DEF SessionInv
  <2>4. DistinctInv'
    BY <1>a DEF DistinctInv
  <2> QED
    BY <2>2, <2>3, <2>4, <1>c DEF Inv
<1>12. CASE UNCHANGED vars
  BY <1>12, <1>a DEF vars, Inv, TypeOK, SessionInv, ProgressInv, DistinctInv
<1> QED
  BY <1>1, <1>2, <1>3, <1>4, <1>5, <1>6, <1>7, <1>8, <1>9, <1>10, <1>11, <1>12 DEF Next

-----------------------------------------------------------------------------
(* The invariants about reviews on their way survive a step that only moves *)
(* reviews towards the head of their outbox, marks them as sent before or   *)
(* goes on in the session, and changes no schedule any of them waits for.   *)
LEMMA FreshKept ==
  ASSUME FreshInv, NEW shift \in [1..MaxMounts -> {0, 1}],
         fresh' => fresh,
         \A m \in 1..MaxMounts : \A i \in Good'[m] :
           /\ i \in Int
           /\ i + shift[m] \in Good[m]
           /\ outbox'[m][i].card = outbox[m][i + shift[m]].card
           /\ outbox'[m][i].shown = outbox[m][i + shift[m]].shown
           /\ ~outbox'[m][i].again =>
                /\ ~outbox[m][i + shift[m]].again
                /\ fresh => states'[outbox'[m][i].card] = states[outbox'[m][i].card],
         \A k \in session'.index + 1..Len(session'.items) :
           /\ k \in session.index + 1..Len(session.items)
           /\ session'.items[k] = session.items[k]
           /\ fresh => states'[session.items[k].card] = states[session.items[k].card]
  PROVE  FreshInv'
<1> SUFFICES ASSUME fresh' PROVE FreshInv'
  BY DEF FreshInv
<1>1. fresh
  OBVIOUS
<1>2. ASSUME NEW m \in 1..MaxMounts, NEW i \in Good'[m], ~outbox'[m][i].again
      PROVE  InStep(outbox[m][i].shown)' /\ outbox'[m][i].shown.card = outbox'[m][i].card
  <2>1. /\ i + shift[m] \in Good[m]
        /\ outbox'[m][i].card = outbox[m][i + shift[m]].card
        /\ outbox'[m][i].shown = outbox[m][i + shift[m]].shown
        /\ ~outbox[m][i + shift[m]].again
        /\ states'[outbox'[m][i].card] = states[outbox'[m][i].card]
    BY <1>1, <1>2
  <2>2. /\ InStep(outbox[m][i + shift[m]].shown)
        /\ outbox[m][i + shift[m]].shown.card = outbox[m][i + shift[m]].card
    BY <1>1, <2>1 DEF FreshInv
  <2> QED
    BY <2>1, <2>2 DEF InStep
<1>3. ASSUME NEW m \in 1..MaxMounts, NEW n \in 1..MaxMounts, NEW i \in Good'[m], NEW j \in Good'[n],
             outbox'[m][i].card = outbox'[n][j].card
      PROVE  m = n /\ i = j
  <2>1. /\ i \in Int /\ j \in Int /\ shift[m] \in Int
        /\ i + shift[m] \in Good[m] /\ j + shift[n] \in Good[n]
        /\ outbox[m][i + shift[m]].card = outbox[n][j + shift[n]].card
    BY <1>3
  <2>2. m = n /\ i + shift[m] = j + shift[n]
    BY <1>1, <2>1 DEF FreshInv
  <2> QED
    BY <2>1, <2>2
<1>4. ASSUME NEW k \in session'.index + 1..Len(session'.items)
      PROVE  /\ InStep(session.items[k])'
             /\ \A m \in 1..MaxMounts : \A i \in Good'[m] :
                  outbox'[m][i].card # session'.items[k].card
  <2>1. /\ k \in session.index + 1..Len(session.items)
        /\ session'.items[k] = session.items[k]
        /\ states'[session.items[k].card] = states[session.items[k].card]
    BY <1>1
  <2>2. /\ InStep(session.items[k])
        /\ \A m \in 1..MaxMounts : \A i \in Good[m] : outbox[m][i].card # session.items[k].card
    BY <1>1, <2>1 DEF FreshInv
  <2> QED
    BY <2>1, <2>2 DEF InStep
<1> QED
  BY <1>2, <1>3, <1>4 DEF FreshInv

(* A step that leaves the schedules, the outboxes and the cards yet to come *)
(* as they are.                                                             *)
LEMMA FreshFrame ==
  ASSUME Inv, RefusedInv, FreshInv, UNCHANGED <<states, outbox, failed, fresh>>,
         \/ UNCHANGED <<session.items, session.index>>
         \/ session' = EmptySession
  PROVE  RefusedInv' /\ FreshInv'
<1> DEFINE zero == [m \in 1..MaxMounts |-> 0]
<1>1. RefusedInv'
  BY DEF RefusedInv, Accepts
<1>2. Good' = Good
  BY DEF Good, Accepts
<1>3. \A m \in 1..MaxMounts : \A i \in Good[m] : i \in Int /\ i + zero[m] = i
  <2>1. \A m \in 1..MaxMounts : Len(outbox[m]) \in Nat
    BY LenProperties DEF Inv, TypeOK
  <2> QED
    BY <2>1 DEF Good
<1>4. zero \in [1..MaxMounts -> {0, 1}]
  OBVIOUS
<1> HIDE DEF zero
<1>5. \A k \in session'.index + 1..Len(session'.items) :
        /\ k \in session.index + 1..Len(session.items)
        /\ session'.items[k] = session.items[k]
        /\ fresh => states'[session.items[k].card] = states[session.items[k].card]
  BY EmptyQueueFacts, EmptySeq
<1>6. \A m \in 1..MaxMounts : \A i \in Good'[m] :
        /\ i \in Int
        /\ i + zero[m] \in Good[m]
        /\ outbox'[m][i].card = outbox[m][i + zero[m]].card
        /\ outbox'[m][i].shown = outbox[m][i + zero[m]].shown
        /\ ~outbox'[m][i].again =>
             /\ ~outbox[m][i + zero[m]].again
             /\ fresh => states'[outbox'[m][i].card] = states[outbox'[m][i].card]
  BY <1>2, <1>3
<1>7. FreshInv'
  BY <1>4, <1>5, <1>6, FreshKept
<1> QED
  BY <1>1, <1>7

(* A session is begun with nothing on its way, or is not fresh. *)
LEMMA FreshSeed ==
  ASSUME Inv, RefusedInv, NEW items \in Seq(Items), Distinct(items), Seed(items),
         UNCHANGED <<states, outbox, failed>>
  PROVE  RefusedInv' /\ FreshInv'
<1>1. RefusedInv'
  BY DEF RefusedInv, Accepts
<1>2. ASSUME fresh'
      PROVE  FreshInv'
  <2>1. /\ session' = StartSession(items)
        /\ \A i \in DOMAIN items : InStep(items[i])
        /\ \A m \in 1..MaxMounts : outbox[m] = << >>
    BY <1>2 DEF Seed
  <2>2. \A m \in 1..MaxMounts : Good'[m] = {}
    BY <2>1, EmptySeq DEF Good
  <2>3. session'.items = items /\ session'.index = 0 /\ DOMAIN items = 1..Len(items)
    BY <2>1, StartSessionFacts, LenProperties
  <2>4. \A k \in session'.index + 1..Len(session'.items) : InStep(session.items[k])'
    BY <2>1, <2>3 DEF InStep
  <2> QED
    BY <2>2, <2>4 DEF FreshInv
<1>3. ASSUME ~fresh'
      PROVE  FreshInv'
  BY <1>3 DEF FreshInv
<1> QED
  BY <1>1, <1>2, <1>3

(* A rating hands over the card the session was waiting to show. *)
LEMMA FreshRate ==
  ASSUME Inv, RefusedInv, FreshInv, NEW rating \in RatingsGiven, Rate(rating)
  PROVE  RefusedInv' /\ FreshInv'
<1> DEFINE n      == session.index + 1
           item   == session.items[n]
           review == [card |-> item.card, rating |-> rating,
                      duration |-> now - session.revealedAt,
                      shown |-> item, session |-> sessions, again |-> FALSE]
           last   == Len(outbox[mount]) + 1
<1>1. /\ session.index \in 0..Len(session.items) - 1 /\ mount \in 1..MaxMounts
      /\ review \in Reviews /\ session \in Sessions
      /\ outbox' = [outbox EXCEPT ![mount] = Append(@, review)]
      /\ session' = Rated(session, rating, now)
      /\ session.phase = "answer" /\ session.revealedAt \in 0..now /\ now \in 0..MaxTime
  BY RateFacts
<1>2. session'.items = session.items /\ session'.index = n
  BY <1>1, RatedFacts
<1>3. UNCHANGED <<states, failed, fresh>>
  BY DEF Rate
<1>4. RefusedInv'
  BY <1>3 DEF RefusedInv, Accepts
<1>5. n \in 1..Len(session.items) /\ session.index \in Nat /\ Len(session.items) \in Nat
  BY <1>1, LenProperties DEF Sessions
<1>6. outbox \in [1..MaxMounts -> Seq(Reviews)]
  BY DEF Inv, TypeOK
<1>7. /\ review.card = item.card /\ review.shown = item /\ ~review.again
  OBVIOUS
<1> HIDE DEF review
<1>8. /\ Len(outbox[mount]) \in Nat
      /\ Len(outbox'[mount]) = last /\ outbox'[mount][last] = review
      /\ \A i \in 1..Len(outbox[mount]) : outbox'[mount][i] = outbox[mount][i]
      /\ \A m \in 1..MaxMounts : m # mount => outbox'[m] = outbox[m]
  BY <1>1, <1>6, AppendProperties, LenProperties
<1>9. ASSUME NEW m \in 1..MaxMounts, NEW i \in Good'[m]
      PROVE  \/ i \in Good[m] /\ outbox'[m][i] = outbox[m][i]
             \/ m = mount /\ i = last /\ outbox'[m][i] = review
  <2>1. i \in 1..Len(outbox'[m]) /\ Accepts(outbox'[m][i])
    BY <1>9 DEF Good, Accepts
  <2> QED
    BY <2>1, <1>8 DEF Good
<1>10. ASSUME fresh
       PROVE  FreshInv'
  <2>1. InStep(item) /\ \A m \in 1..MaxMounts : \A i \in Good[m] : outbox[m][i].card # item.card
    <3>1. n \in session.index + 1..Len(session.items)
      BY <1>5
    <3> QED
      BY <3>1, <1>10 DEF FreshInv
  <2>2. ASSUME NEW m \in 1..MaxMounts, NEW i \in Good'[m], ~outbox'[m][i].again
        PROVE  InStep(outbox[m][i].shown)' /\ outbox'[m][i].shown.card = outbox'[m][i].card
    BY <1>3, <1>7, <1>9, <1>10, <2>1, <2>2 DEF FreshInv, InStep
  <2>3. ASSUME NEW m \in 1..MaxMounts, NEW l \in 1..MaxMounts,
               NEW i \in Good'[m], NEW j \in Good'[l], outbox'[m][i].card = outbox'[l][j].card
        PROVE  m = l /\ i = j
    BY <1>7, <1>9, <1>10, <2>1, <2>3 DEF FreshInv
  <2>4. ASSUME NEW k \in session'.index + 1..Len(session'.items)
        PROVE  /\ InStep(session.items[k])'
               /\ \A m \in 1..MaxMounts : \A i \in Good'[m] :
                    outbox'[m][i].card # session'.items[k].card
    <3>1. k \in session.index + 1..Len(session.items) /\ k \in 1..Len(session.items) /\ k # n
      BY <2>4, <1>2, <1>5
    <3>2. session.items[k].card # item.card
      BY <3>1, <1>5 DEF Inv, DistinctInv, Distinct
    <3>3. /\ InStep(session.items[k])
          /\ \A m \in 1..MaxMounts : \A i \in Good[m] : outbox[m][i].card # session.items[k].card
      BY <1>10, <3>1 DEF FreshInv
    <3> QED
      BY <1>2, <1>3, <1>7, <1>9, <3>2, <3>3 DEF InStep
  <2> QED
    BY <2>2, <2>3, <2>4 DEF FreshInv
<1>11. ASSUME ~fresh
       PROVE  FreshInv'
  BY <1>3, <1>11 DEF FreshInv
<1> QED
  BY <1>4, <1>10, <1>11

(* What is retried was refused, and will be again. *)
LEMMA FreshRetry ==
  ASSUME Inv, RefusedInv, FreshInv, RetryFailed
  PROVE  RefusedInv' /\ FreshInv'
<1> DEFINE zero == [m \in 1..MaxMounts |-> 0]
<1>1. /\ mount # 0
      /\ outbox' = [outbox EXCEPT ![mount] = @ \o failed[mount]]
      /\ failed' = [failed EXCEPT ![mount] = << >>]
      /\ UNCHANGED <<states, session, fresh>>
  BY DEF RetryFailed, SummaryShown, screen, history
<1>2. /\ mount \in 1..MaxMounts
      /\ outbox \in [1..MaxMounts -> Seq(Reviews)] /\ failed \in [1..MaxMounts -> Seq(Reviews)]
  BY <1>1, ScreenAssumption DEF Inv, TypeOK
<1>3. RefusedInv'
  <2> SUFFICES ASSUME NEW m \in 1..MaxMounts, NEW i \in 1..Len(failed'[m])
               PROVE  ~Accepts(failed'[m][i])
    BY DEF RefusedInv, Accepts
  <2>1. CASE m = mount
    BY <1>1, <1>2, <2>1, EmptySeq
  <2>2. CASE m # mount
    BY <1>1, <1>2, <2>2 DEF RefusedInv
  <2> QED
    BY <2>1, <2>2
<1>4. /\ Len(outbox[mount]) \in Nat /\ Len(failed[mount]) \in Nat
      /\ Len(outbox'[mount]) = Len(outbox[mount]) + Len(failed[mount])
      /\ \A i \in 1..Len(outbox'[mount]) :
           outbox'[mount][i] = IF i <= Len(outbox[mount]) THEN outbox[mount][i]
                               ELSE failed[mount][i - Len(outbox[mount])]
      /\ \A m \in 1..MaxMounts : m # mount => outbox'[m] = outbox[m]
      /\ \A m \in 1..MaxMounts : Len(outbox[m]) \in Nat
  BY <1>1, <1>2, ConcatProperties, LenProperties
<1>5. ASSUME NEW m \in 1..MaxMounts, NEW i \in Good'[m]
      PROVE  i \in Int /\ i \in Good[m] /\ outbox'[m][i] = outbox[m][i]
  <2>1. i \in 1..Len(outbox'[m]) /\ Accepts(outbox'[m][i])
    BY <1>5 DEF Good, Accepts
  <2>2. CASE m # mount
    BY <1>4, <2>1, <2>2 DEF Good
  <2>3. CASE m = mount
    <3> DEFINE p == Len(outbox[mount])
               q == Len(failed[mount])
    <3>1. p \in Nat /\ q \in Nat /\ i \in 1..p + q
      BY <1>4, <2>1, <2>3
    <3>2. CASE i <= p
      <4>1. i \in 1..p /\ i \in Int
        BY <3>1, <3>2
      <4>2. outbox'[mount][i] = outbox[mount][i]
        BY <1>4, <2>1, <2>3, <3>2
      <4> QED
        BY <1>2, <2>1, <2>3, <4>1, <4>2 DEF Good
    <3>3. CASE ~(i <= p)
      <4>1. i - p \in 1..q
        <5> HIDE DEF p, q
        <5> QED
          BY <3>1, <3>3
      <4>2. ~Accepts(failed[mount][i - p])
        BY <1>2, <4>1 DEF RefusedInv
      <4>3. outbox'[mount][i] = failed[mount][i - p]
        BY <1>4, <2>1, <2>3, <3>3
      <4> QED
        BY <2>1, <2>3, <4>2, <4>3
    <3> QED
      BY <3>2, <3>3
  <2> QED
    BY <2>2, <2>3
<1>6. zero \in [1..MaxMounts -> {0, 1}] /\ \A m \in 1..MaxMounts : zero[m] = 0
  OBVIOUS
<1> HIDE DEF zero
<1>7. \A m \in 1..MaxMounts : \A i \in Good'[m] :
        /\ i \in Int
        /\ i + zero[m] \in Good[m]
        /\ outbox'[m][i].card = outbox[m][i + zero[m]].card
        /\ outbox'[m][i].shown = outbox[m][i + zero[m]].shown
        /\ ~outbox'[m][i].again =>
             /\ ~outbox[m][i + zero[m]].again
             /\ fresh => states'[outbox'[m][i].card] = states[outbox'[m][i].card]
  <2> SUFFICES ASSUME NEW m \in 1..MaxMounts, NEW i \in Good'[m]
               PROVE  i \in Int /\ i + zero[m] \in Good[m] /\ outbox'[m][i] = outbox[m][i + zero[m]]
    BY <1>1
  <2>1. i + zero[m] = i
    BY <1>5, <1>6
  <2> QED
    BY <1>5, <2>1
<1>8. \A k \in session'.index + 1..Len(session'.items) :
        /\ k \in session.index + 1..Len(session.items)
        /\ session'.items[k] = session.items[k]
        /\ fresh => states'[session.items[k].card] = states[session.items[k].card]
  BY <1>1
<1>9. FreshInv'
  BY <1>1, <1>6, <1>7, <1>8, FreshKept
<1> QED
  BY <1>3, <1>9

(* A delivery applies a review of a card that no other review is of, or     *)
(* refuses one that no retry will get accepted.                             *)
LEMMA FreshDeliver ==
  ASSUME Inv, RefusedInv, FreshInv, NEW b \in 1..MaxMounts, Deliver(b)
  PROVE  RefusedInv' /\ FreshInv'
<1> DEFINE review == outbox[b][1]
<1>1. /\ outbox[b] # << >> /\ UNCHANGED <<session, fresh>>
      /\ outbox \in [1..MaxMounts -> Seq(Reviews)] /\ failed \in [1..MaxMounts -> Seq(Reviews)]
      /\ states \in [Cards -> Schedule]
  BY DEF Deliver, screen, history, Inv, TypeOK
<1>2. /\ review \in Reviews /\ Head(outbox[b]) = review
      /\ Len(outbox[b]) \in Nat \ {0}
      /\ Tail(outbox[b]) \in Seq(Reviews) /\ Len(Tail(outbox[b])) = Len(outbox[b]) - 1
      /\ \A i \in 1..Len(Tail(outbox[b])) : Tail(outbox[b])[i] = outbox[b][i + 1]
      /\ \A m \in 1..MaxMounts : Len(outbox[m]) \in Nat
  BY <1>1, HeadTailProperties, EmptySeq, LenProperties
<1>3. /\ Accepts(review) => /\ states' = [states EXCEPT ![review.card] = Applied(review)]
                            /\ UNCHANGED failed
      /\ ~Accepts(review) => /\ UNCHANGED states
                             /\ failed' = [failed EXCEPT ![b] = Append(@, review)]
                             /\ outbox' = [outbox EXCEPT ![b] = Tail(@)]
      /\ \/ outbox' = [outbox EXCEPT ![b] = Tail(@)]
         \/ outbox' = [outbox EXCEPT ![b][1].again = TRUE]
  BY <1>2 DEF Deliver
<1> HIDE DEF review
<1>4. RefusedInv'
  <2> SUFFICES ASSUME NEW m \in 1..MaxMounts, NEW i \in 1..Len(failed'[m])
               PROVE  ~Accepts(failed'[m][i])
    BY DEF RefusedInv, Accepts
  <2>1. CASE failed' = failed
    BY <2>1 DEF RefusedInv
  <2>2. CASE ~Accepts(review) /\ failed' = [failed EXCEPT ![b] = Append(@, review)]
    <3>1. CASE m # b
      BY <1>1, <2>2, <3>1 DEF RefusedInv
    <3>2. CASE m = b
      <4>1. /\ Len(failed[b]) \in Nat /\ Len(failed'[b]) = Len(failed[b]) + 1
            /\ \A j \in 1..Len(failed[b]) : failed'[b][j] = failed[b][j]
            /\ failed'[b][Len(failed[b]) + 1] = review
        BY <1>1, <1>2, <2>2, AppendProperties, LenProperties
      <4>2. i \in 1..Len(failed[b]) \/ i = Len(failed[b]) + 1
        BY <3>2, <4>1
      <4> QED
        BY <2>2, <3>2, <4>1, <4>2 DEF RefusedInv
    <3> QED
      BY <3>1, <3>2
  <2> QED
    BY <1>3, <2>1, <2>2
<1>5. \A c \in Cards : c # review.card => states'[c] = states[c]
  BY <1>1, <1>3
<1>6. review.card \in Cards /\ (~Accepts(review) => states' = states)
  BY <1>2, <1>3 DEF Reviews
<1>7. \A m \in 1..MaxMounts : \A i \in Good[m] :
        /\ i \in 1..Len(outbox[m]) /\ i \in Int
        /\ outbox[m][i].card \in Cards
  <2> SUFFICES ASSUME NEW m \in 1..MaxMounts, NEW i \in Good[m]
               PROVE  i \in 1..Len(outbox[m]) /\ i \in Int /\ outbox[m][i].card \in Cards
    OBVIOUS
  <2>1. i \in 1..Len(outbox[m])
    BY DEF Good
  <2>2. outbox[m][i] \in Reviews
    BY <1>1, <2>1, ElementOfSeq
  <2> QED
    BY <1>2, <2>1, <2>2 DEF Reviews
<1>8. ASSUME fresh, NEW m \in 1..MaxMounts, NEW i \in Good[m], ~(m = b /\ i = 1)
      PROVE  states'[outbox[m][i].card] = states[outbox[m][i].card]
  <2>1. CASE Accepts(review)
    <3>1. 1 \in Good[b]
      BY <1>2, <2>1 DEF Good, review
    <3>2. outbox[m][i].card # review.card
      BY <1>8, <3>1 DEF FreshInv, review
    <3> QED
      BY <1>5, <1>7, <3>2
  <2>2. CASE ~Accepts(review)
    BY <1>6, <2>2
  <2> QED
    BY <2>1, <2>2
<1>9. ASSUME fresh, NEW k \in session.index + 1..Len(session.items)
      PROVE  states'[session.items[k].card] = states[session.items[k].card]
  <2>1. CASE Accepts(review)
    <3>1. 1 \in Good[b]
      BY <1>2, <2>1 DEF Good, review
    <3>2. session.items[k].card # review.card
      BY <1>9, <3>1 DEF FreshInv, review
    <3>3. session.items[k].card \in Cards
      <4>1. session.items \in Seq(Items) /\ session.index \in 0..Len(session.items)
        BY DEF Inv, TypeOK, Sessions, ProgressInv
      <4>2. Len(session.items) \in Nat
        BY <4>1, LenProperties
      <4>3. k \in 1..Len(session.items)
        BY <4>1, <4>2
      <4>4. session.items[k] \in Items
        BY <4>1, <4>3, ElementOfSeq
      <4> QED
        BY <4>4 DEF Items
    <3> QED
      BY <1>5, <3>2, <3>3
  <2>2. CASE ~Accepts(review)
    BY <1>6, <2>2
  <2> QED
    BY <2>1, <2>2
<1>10. \A k \in session'.index + 1..Len(session'.items) :
         /\ k \in session.index + 1..Len(session.items)
         /\ session'.items[k] = session.items[k]
         /\ fresh => states'[session.items[k].card] = states[session.items[k].card]
  BY <1>1, <1>9
<1>11. CASE outbox' = [outbox EXCEPT ![b] = Tail(@)]
  <2> DEFINE shift == [m \in 1..MaxMounts |-> IF m = b THEN 1 ELSE 0]
  <2>1. shift \in [1..MaxMounts -> {0, 1}] /\ shift[b] = 1
        /\ \A m \in 1..MaxMounts : m # b => shift[m] = 0
    OBVIOUS
  <2> HIDE DEF shift
  <2>2. outbox'[b] = Tail(outbox[b]) /\ \A m \in 1..MaxMounts : m # b => outbox'[m] = outbox[m]
    BY <1>1, <1>11
  <2>3. ASSUME NEW m \in 1..MaxMounts, NEW i \in Good'[m]
        PROVE  /\ i \in Int /\ i + shift[m] \in Good[m]
               /\ outbox'[m][i] = outbox[m][i + shift[m]]
               /\ ~(m = b /\ i + shift[m] = 1)
    <3>1. i \in 1..Len(outbox'[m]) /\ Accepts(outbox'[m][i])
      BY <2>3 DEF Good, Accepts
    <3>2. CASE m # b
      <4>1. i \in 1..Len(outbox[m]) /\ i \in Int /\ Len(outbox[m]) \in Nat
        BY <1>2, <2>2, <3>1, <3>2
      <4>2. i + shift[m] = i
        BY <2>1, <3>2, <4>1
      <4> QED
        BY <2>2, <3>1, <3>2, <4>1, <4>2 DEF Good
    <3>3. CASE m = b
      <4>1. i \in 1..Len(outbox[b]) - 1 /\ outbox'[b][i] = outbox[b][i + 1]
        BY <1>2, <2>2, <3>1, <3>3
      <4>2. i \in Int /\ i + 1 \in 1..Len(outbox[b]) /\ i + 1 # 1 /\ shift[b] = 1
        BY <1>2, <2>1, <4>1
      <4> QED
        BY <3>1, <3>3, <4>1, <4>2 DEF Good
    <3> QED
      BY <3>2, <3>3
  <2>4. \A m \in 1..MaxMounts : \A i \in Good'[m] :
          /\ i \in Int
          /\ i + shift[m] \in Good[m]
          /\ outbox'[m][i].card = outbox[m][i + shift[m]].card
          /\ outbox'[m][i].shown = outbox[m][i + shift[m]].shown
          /\ ~outbox'[m][i].again =>
               /\ ~outbox[m][i + shift[m]].again
               /\ fresh => states'[outbox'[m][i].card] = states[outbox'[m][i].card]
    BY <1>8, <2>3
  <2>5. FreshInv'
    BY <1>1, <1>10, <2>1, <2>4, FreshKept
  <2> QED
    BY <1>4, <2>5
<1>12. CASE outbox' = [outbox EXCEPT ![b][1].again = TRUE]
  <2> DEFINE zero == [m \in 1..MaxMounts |-> 0]
  <2>1. zero \in [1..MaxMounts -> {0, 1}] /\ \A m \in 1..MaxMounts : zero[m] = 0
    OBVIOUS
  <2> HIDE DEF zero
  <2>2. /\ outbox'[b] = [outbox[b] EXCEPT ![1] = [review EXCEPT !.again = TRUE]]
        /\ \A m \in 1..MaxMounts : m # b => outbox'[m] = outbox[m]
    BY <1>1, <1>12 DEF review
  <2>3. [review EXCEPT !.again = TRUE] \in Reviews /\ [review EXCEPT !.again = TRUE].again
        /\ [review EXCEPT !.again = TRUE].card = review.card
        /\ [review EXCEPT !.again = TRUE].shown = review.shown
        /\ [review EXCEPT !.again = TRUE].duration = review.duration
    BY <1>2 DEF Reviews
  <2>4. /\ Len(outbox'[b]) = Len(outbox[b])
        /\ outbox'[b][1] = [review EXCEPT !.again = TRUE]
        /\ \A i \in 1..Len(outbox[b]) : i # 1 => outbox'[b][i] = outbox[b][i]
    <3>1. 1 \in 1..Len(outbox[b]) /\ outbox[b] \in Seq(Reviews)
      BY <1>1, <1>2
    <3> QED
      BY <2>2, <2>3, <3>1, ExceptSeq
  <2>5. ASSUME NEW m \in 1..MaxMounts, NEW i \in Good'[m]
        PROVE  /\ i \in Int /\ i \in Good[m]
               /\ outbox'[m][i].card = outbox[m][i].card
               /\ outbox'[m][i].shown = outbox[m][i].shown
               /\ ~outbox'[m][i].again =>
                    ~outbox[m][i].again /\ ~(m = b /\ i = 1)
    <3>1. i \in 1..Len(outbox'[m]) /\ Accepts(outbox'[m][i])
      BY <2>5 DEF Good, Accepts
    <3>2. i \in 1..Len(outbox[m]) /\ i \in Int
      BY <1>2, <2>2, <2>4, <3>1
    <3>3. CASE ~(m = b /\ i = 1)
      BY <2>2, <2>4, <3>1, <3>2, <3>3 DEF Good
    <3>4. CASE m = b /\ i = 1
      BY <2>3, <2>4, <3>1, <3>2, <3>4 DEF Good, Accepts, review
    <3> QED
      BY <3>3, <3>4
  <2>6. \A m \in 1..MaxMounts : \A i \in Good'[m] :
          /\ i \in Int /\ i + zero[m] \in Good[m]
          /\ outbox'[m][i].card = outbox[m][i + zero[m]].card
          /\ outbox'[m][i].shown = outbox[m][i + zero[m]].shown
          /\ ~outbox'[m][i].again =>
               /\ ~outbox[m][i + zero[m]].again
               /\ fresh => states'[outbox'[m][i].card] = states[outbox'[m][i].card]
    <3> SUFFICES ASSUME NEW m \in 1..MaxMounts, NEW i \in Good'[m]
                 PROVE  /\ i \in Int /\ i + zero[m] \in Good[m]
                        /\ outbox'[m][i].card = outbox[m][i + zero[m]].card
                        /\ outbox'[m][i].shown = outbox[m][i + zero[m]].shown
                        /\ ~outbox'[m][i].again =>
                             /\ ~outbox[m][i + zero[m]].again
                             /\ fresh => states'[outbox'[m][i].card] = states[outbox'[m][i].card]
      OBVIOUS
    <3>1. i + zero[m] = i
      BY <2>1, <2>5
    <3> QED
      BY <1>8, <2>5, <3>1
  <2>7. FreshInv'
    BY <1>1, <1>10, <2>1, <2>6, FreshKept
  <2> QED
    BY <1>4, <2>7
<1> QED
  BY <1>3, <1>11, <1>12

LEMMA FreshStep ==
  Inv /\ RefusedInv /\ FreshInv /\ [Next]_vars => RefusedInv' /\ FreshInv'
<1> SUFFICES ASSUME Inv, RefusedInv, FreshInv, [Next]_vars
             PROVE  RefusedInv' /\ FreshInv'
  OBVIOUS
<1> USE DEF screen, queries, boxes, history
<1>a. /\ cache.items \in Seq(Items) /\ fetch.items \in Seq(Items)
      /\ Distinct(cache.items) /\ Distinct(fetch.items) /\ session \in Sessions
  BY DEF Inv, TypeOK, Queues, DistinctInv
<1>1. CASE Open
  <2>1. UNCHANGED <<states, outbox, failed>>
    BY <1>1 DEF Open
  <2>2. CASE cache = NoQueue
    BY <1>1, <2>1, <2>2, FreshFrame DEF Open
  <2>3. CASE cache # NoQueue
    BY <1>a, <1>1, <2>1, <2>3, FreshSeed DEF Open
  <2> QED
    BY <2>2, <2>3
<1>2. CASE Leave
  BY <1>2, FreshFrame DEF Leave
<1>3. CASE QueueAnswered
  BY <1>3, FreshFrame DEF QueueAnswered
<1>4. CASE QueueArrives
  <2>1. UNCHANGED <<states, outbox, failed>>
    BY <1>4 DEF QueueArrives
  <2>2. CASE started
    BY <1>4, <2>1, <2>2, FreshFrame DEF QueueArrives
  <2>3. CASE ~started
    BY <1>a, <1>4, <2>1, <2>3, FreshSeed DEF QueueArrives
  <2> QED
    BY <2>2, <2>3
<1>5. CASE QueueFails \/ Retry \/ CacheExpires \/ Tick
  <2>1. UNCHANGED <<session, outbox, failed, fresh, states>>
    BY <1>5 DEF QueueFails, Retry, CacheExpires, Tick
  <2> QED
    BY <2>1, FreshFrame
<1>6. CASE Reveal
  <2>1. session' = [session EXCEPT !.phase = "answer", !.revealedAt = now]
    BY <1>6 DEF Reveal, Revealed
  <2>2. UNCHANGED <<session.items, session.index>>
    BY <1>a, <2>1 DEF Sessions
  <2> QED
    BY <1>6, <2>2, FreshFrame DEF Reveal
<1>7. CASE StudyAgain
  BY <1>a, <1>7, FreshSeed DEF StudyAgain
<1>8. CASE RetryFailed
  BY <1>8, FreshRetry
<1>9. ASSUME NEW rating \in RatingsGiven, Rate(rating)
      PROVE  RefusedInv' /\ FreshInv'
  BY <1>9, FreshRate
<1>10. ASSUME NEW m \in 1..MaxMounts, Deliver(m)
       PROVE  RefusedInv' /\ FreshInv'
  BY <1>10, FreshDeliver
<1>11. CASE UNCHANGED vars
  BY <1>11, FreshFrame DEF vars
<1> QED
  BY <1>1, <1>2, <1>3, <1>4, <1>5, <1>6, <1>7, <1>8, <1>9, <1>10, <1>11 DEF Next

-----------------------------------------------------------------------------
(* The queues, the session, the outboxes and the server's schedules keep    *)
(* their types: no index runs past the cards, no time is negative.          *)
THEOREM ScreenTypeCorrect == Spec => []TypeOK
<1>1. Inv => TypeOK
  BY DEF Inv
<1> QED
  BY <1>1, InvInit, InvStep, PTL DEF Spec

(* What the summary counts is what was handed to the outbox, card for card  *)
(* and rating for rating, and the summary appears with the last of them.    *)
THEOREM SummaryIsWhatWasSubmitted == Spec => []ResultsWereSubmitted
<1>1. Inv => ResultsWereSubmitted
  BY DEF Inv, ProgressInv, ResultsWereSubmitted
<1> QED
  BY <1>1, InvInit, InvStep, PTL DEF Spec

(* No fetch, answer or invalidation exchanges the cards of a session that   *)
(* is not over.                                                             *)
THEOREM SessionKeepsItsCards == Spec => NotReshuffled
<1>1. ASSUME Inv, [Next]_vars
      PROVE  [mount # 0 /\ mount' = mount /\ started /\ session.phase # "summary"
                => session'.items = session.items]_vars
  <2> SUFFICES ASSUME Next, mount # 0, mount' = mount, started, session.phase # "summary"
               PROVE  session'.items = session.items
    BY <1>1
  <2> USE DEF screen, queries, boxes, history
  <2>1. session \in Sessions
    BY <1>1 DEF Inv, TypeOK
  <2>2. CASE Open \/ Leave \/ StudyAgain
    BY <2>2, ScreenAssumption DEF Open, Leave, StudyAgain, SummaryShown
  <2>3. CASE QueueAnswered \/ QueueArrives \/ QueueFails \/ Retry \/ CacheExpires
             \/ RetryFailed \/ Tick
    BY <2>3 DEF QueueAnswered, QueueArrives, QueueFails, Retry, CacheExpires, RetryFailed, Tick
  <2>4. CASE Reveal
    BY <2>1, <2>4 DEF Reveal, Revealed, Sessions
  <2>5. ASSUME NEW rating \in RatingsGiven, Rate(rating)
        PROVE  session'.items = session.items
    <3>1. /\ session' = Rated(session, rating, now) /\ now \in 0..MaxTime
          /\ session.phase = "answer" /\ session.index \in 0..Len(session.items) - 1
          /\ session.revealedAt \in 0..now
      BY <1>1, <2>5, RateFacts
    <3> QED
      BY <2>1, <3>1, RatedFacts
  <2>6. ASSUME NEW m \in 1..MaxMounts, Deliver(m)
        PROVE  session'.items = session.items
    BY <2>6 DEF Deliver
  <2> QED
    BY <2>2, <2>3, <2>4, <2>5, <2>6 DEF Next
<1> QED
  BY <1>1, InvInit, InvStep, PTL DEF Spec, NotReshuffled

(* A review that is applied for the first time is the head of its outbox,   *)
(* and the step is its delivery.                                            *)
LEMMA FirstApplyingDelivers ==
  ASSUME Inv, Next, NEW m \in 1..MaxMounts, FirstApplying(m)
  PROVE  /\ 1 \in Good[m] /\ Head(outbox[m]) = outbox[m][1]
         /\ Head(outbox[m]) \in Reviews
         /\ states' = [states EXCEPT ![Head(outbox[m]).card] = Applied(Head(outbox[m]))]
<1> USE DEF screen, queries, boxes, history
<1>1. /\ outbox[m] # << >> /\ Accepts(Head(outbox[m])) /\ ~Head(outbox[m]).again
      /\ outbox'[m] # << >> => Head(outbox'[m]) # Head(outbox[m])
      /\ Len(outbox'[m]) <= Len(outbox[m])
  BY DEF FirstApplying
<1>2. outbox \in [1..MaxMounts -> Seq(Reviews)] /\ failed \in [1..MaxMounts -> Seq(Reviews)]
  BY DEF Inv, TypeOK
<1>3. /\ Head(outbox[m]) = outbox[m][1] /\ Head(outbox[m]) \in Reviews
      /\ Len(outbox[m]) \in Nat \ {0}
  BY <1>1, <1>2, HeadTailProperties, EmptySeq
<1>4. 1 \in Good[m]
  BY <1>1, <1>3 DEF Good
<1>5. outbox'[m] # outbox[m]
  BY <1>1
<1>6. ASSUME \/ Open \/ Leave \/ QueueAnswered \/ QueueArrives \/ QueueFails \/ Retry
             \/ CacheExpires \/ Reveal \/ StudyAgain \/ Tick
      PROVE  FALSE
  BY <1>5, <1>6 DEF Open, Leave, QueueAnswered, QueueArrives, QueueFails, Retry, CacheExpires,
     Reveal, StudyAgain, Tick
<1>7. ASSUME RetryFailed
      PROVE  FALSE
  <2>1. /\ failed[mount] # << >> /\ mount # 0
        /\ outbox' = [outbox EXCEPT ![mount] = @ \o failed[mount]]
    BY <1>7 DEF RetryFailed, SummaryShown
  <2>2. mount = m
    BY <1>2, <1>5, <2>1
  <2>3. Len(outbox'[m]) = Len(outbox[m]) + Len(failed[m])
    BY <1>2, <2>1, <2>2, ConcatProperties
  <2>4. Len(failed[m]) \in Nat \ {0}
    BY <1>2, <2>1, <2>2, EmptySeq
  <2>5. \A x \in Nat, y \in Nat \ {0} : ~(x + y <= x)
    OBVIOUS
  <2>6. Len(outbox[m]) \in Nat /\ Len(outbox[m]) + Len(failed[m]) <= Len(outbox[m])
    BY <1>1, <1>3, <2>3
  <2> QED
    BY <2>4, <2>5, <2>6
<1>8. ASSUME NEW rating \in RatingsGiven, Rate(rating)
      PROVE  FALSE
  <2>1. PICK review \in Reviews : outbox' = [outbox EXCEPT ![mount] = Append(@, review)]
    BY <1>8, RateFacts
  <2>2. mount = m
    BY <1>2, <1>5, <2>1
  <2>3. Len(outbox'[m]) = Len(outbox[m]) + 1
    BY <1>2, <2>1, <2>2, AppendProperties
  <2> QED
    BY <1>1, <1>3, <2>3
<1>9. ASSUME NEW b \in 1..MaxMounts, Deliver(b)
      PROVE  b = m
  BY <1>2, <1>5, <1>9 DEF Deliver
<1>10. Deliver(m)
  BY <1>6, <1>7, <1>8, <1>9 DEF Next
<1> QED
  BY <1>1, <1>3, <1>4, <1>10 DEF Deliver

(* "Pressing Good writes exactly the interval the button promised", for a   *)
(* session whose cards were as the server had them with nothing on its way, *)
(* and a review that arrives before the scheduler takes the card for older. *)
THEOREM FreshPromiseIsKept == Spec => FreshSessionKeepsPromise
<1> DEFINE IInv == Inv /\ RefusedInv /\ FreshInv
<1>1. Init => IInv
  <2> SUFFICES ASSUME Init PROVE RefusedInv /\ FreshInv
    BY InvInit
  <2>1. \A m \in 1..MaxMounts : 1..Len(failed[m]) = {}
    BY EmptySeq DEF Init
  <2> QED
    BY <2>1 DEF Init, RefusedInv, FreshInv
<1>2. IInv /\ [Next]_vars => IInv'
  BY InvStep, FreshStep
<1>3. ASSUME IInv, [Next]_vars
      PROVE  [\A m \in 1..MaxMounts :
                FirstApplying(m) /\ fresh /\ Head(outbox[m]).session = sessions
                  /\ SameAge(Head(outbox[m]).shown)
                  => WritesTheLabel(m)]_vars
  <2> SUFFICES ASSUME Next, NEW m \in 1..MaxMounts, FirstApplying(m), fresh,
                      SameAge(Head(outbox[m]).shown)
               PROVE  WritesTheLabel(m)
    BY <1>3
  <2> DEFINE review == Head(outbox[m])
  <2>1. /\ 1 \in Good[m] /\ review = outbox[m][1] /\ review \in Reviews
        /\ states' = [states EXCEPT ![review.card] = Applied(review)]
    BY <1>3, FirstApplyingDelivers
  <2>2. ~review.again
    BY DEF FirstApplying
  <2> HIDE DEF review
  <2>3. InStep(review.shown) /\ review.shown.card = review.card
    BY <1>3, <2>1, <2>2 DEF FreshInv
  <2>4. states \in [Cards -> Schedule] /\ review.card \in Cards
    BY <1>3, <2>1 DEF Inv, TypeOK, Reviews
  <2>5. states'[review.card].due =
          now + IntervalOf(states[review.card], review.rating, Age(states[review.card], now))
    BY <2>1, <2>4 DEF Applied, ApplyAt
  <2>6. review.shown.schedule = states[review.card]
    BY <2>3 DEF InStep
  <2>7. review.shown.age = Age(states[review.card], now)
    BY <2>6 DEF SameAge, review
  <2> QED
    BY <2>5, <2>6, <2>7 DEF WritesTheLabel, review
<1> HIDE DEF IInv
<1> QED
  BY <1>1, <1>2, <1>3, PTL DEF Spec, FreshSessionKeepsPromise
=============================================================================
