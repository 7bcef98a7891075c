---------------------------- MODULE SchedulerProofs ----------------------------
(* Lemmas about the scheduler's operators, for any length of a day, and     *)
(* about what an ORDER BY returns.                                          *)
EXTENDS Scheduler, FiniteSetTheorems, TLAPS

(* ElapsedDays is a number of days, whatever the clock did meanwhile. *)
LEMMA ElapsedDaysNat ==
  ASSUME NEW last \in Nat \cup {Never}, NEW now \in Nat
  PROVE  ElapsedDays(last, now) \in Nat
  BY DayLengthAssumption DEF ElapsedDays, Never

(* A new card's schedule is a schedule, in state New, with no reviews. *)
LEMMA NewCardStateType ==
  ASSUME NEW at \in Nat
  PROVE  NewCardState(at) \in CardStates
  BY DEF NewCardState, CardStates, States, StateNew, StateRelearning, Never

(* A rating takes a card to a state that is not New, some steps and some    *)
(* days on.                                                                 *)
LEMMA NextType ==
  ASSUME NEW st, st.state \in States, st.steps \in Nat, NEW rating \in Ratings
  PROVE  /\ NextState(st, rating) \in States \ {StateNew}
         /\ NextSteps(st, rating) \in Nat
         /\ ScheduledDays(st, rating) \in Nat
         /\ Interval(st, rating) \in Nat \ {0}
         /\ NextState(st, rating) = StateReview => Interval(st, rating) >= DayLength
<1>1. rating \in 1..4
  BY DEF Ratings, RatingAgain, RatingEasy
<1>2. NextState(st, rating) \in States \ {StateNew}
  BY <1>1 DEF NextState, Graduates, Lapses, States, StateNew,
     StateLearning, StateReview, StateRelearning
<1>3. NextSteps(st, rating) \in Nat
  <2>1. StepsLeft(st) \in Nat
    BY DEF StepsLeft, LadderSteps
  <2>2. LadderSteps(NextState(st, rating)) \in Nat
    BY DEF LadderSteps
  <2>3. ASSUME ~Graduates(st, rating), rating = RatingGood
        PROVE  StepsLeft(st) > 1
    BY <2>1, <2>3 DEF Graduates, RatingGood, RatingAgain
  <2> QED
    BY <2>1, <2>2, <2>3 DEF NextSteps
<1>4. ScheduledDays(st, rating) \in Nat
  BY <1>1 DEF ScheduledDays
<1>5. ASSUME NextState(st, rating) = StateReview
      PROVE  rating # RatingAgain
  BY <1>5 DEF NextState, Graduates, Lapses, RatingAgain, RatingGood, RatingEasy, States,
     StateNew, StateLearning, StateReview, StateRelearning
<1>6. ASSUME NextState(st, rating) = StateReview
      PROVE  Interval(st, rating) \in Nat /\ Interval(st, rating) >= DayLength
  <2>1. rating - 1 \in Nat \ {0}
    BY <1>1, <1>5, <1>6 DEF RatingAgain
  <2>2. Interval(st, rating) = (rating - 1) * DayLength
    BY <1>6 DEF Interval, ScheduledDays
  <2>3. \A n \in Nat \ {0}, d \in Nat : n * d \in Nat /\ n * d >= d
    OBVIOUS
  <2> QED
    BY <2>1, <2>2, <2>3, DayLengthAssumption
<1> QED
  BY <1>2, <1>3, <1>4, <1>6, DayLengthAssumption DEF Interval

(* Applying a rating to a schedule gives a schedule that is no longer new,  *)
(* has one review more, and one lapse more just when the card was forgotten.*)
LEMMA ApplyType ==
  ASSUME NEW st \in CardStates, NEW rating \in Ratings, NEW at \in Nat
  PROVE  /\ Apply(st, rating, at) \in CardStates
         /\ Apply(st, rating, at).state # StateNew
         /\ Apply(st, rating, at).reps = st.reps + 1
         /\ Apply(st, rating, at).lapses =
              IF Lapses(st, rating) THEN st.lapses + 1 ELSE st.lapses
<1>1. ElapsedDays(st.last, at) \in Nat
  BY ElapsedDaysNat DEF CardStates
<1>2. st.state \in States /\ st.steps \in Nat
  BY DEF CardStates
<1> QED
  BY <1>1, <1>2, NextType DEF Apply, CardStates

(* The row a review appends is a row of the log, with the pre-review state. *)
LEMMA ReviewFromType ==
  ASSUME NEW Known, NEW c \in Known, NEW st \in CardStates, NEW rating \in Ratings,
         NEW at \in Nat, NEW id \in Nat
  PROVE  LET row == [ReviewFrom(c, st, rating, at) EXCEPT !.id = id]
         IN  /\ row \in LogRows(Known)
             /\ row.id = id /\ row.card = c /\ row.rating = rating /\ row.state = st.state
  BY ElapsedDaysNat DEF ReviewFrom, LogRows, CardStates

-----------------------------------------------------------------------------
(* Finitely many rows can be listed in a strict total order: each goes to   *)
(* the place that has as many before it as are smaller.                     *)
LEMMA OrderExists ==
  ASSUME NEW S, IsFiniteSet(S), NEW R,
         \A x \in S : <<x, x>> \notin R,
         \A x, y \in S : x # y => <<x, y>> \in R \/ <<y, x>> \in R,
         \A x, y, z \in S : <<x, y>> \in R /\ <<y, z>> \in R => <<x, z>> \in R
  PROVE  \E s \in [1..Cardinality(S) -> S] :
           \A i, j \in 1..Cardinality(S) : i < j => <<s[i], s[j]>> \in R
<1> DEFINE n        == Cardinality(S)
           below(x) == {y \in S : <<y, x>> \in R}
           rank     == [x \in S |-> Cardinality(below(x)) + 1]
<1>1. n \in Nat /\ IsFiniteSet(1..n) /\ Cardinality(1..n) = n
  BY FS_CardinalityType, FS_Interval
<1>2. \A x \in S : IsFiniteSet(below(x)) /\ Cardinality(below(x)) \in 0..n-1
  <2> TAKE x \in S
  <2>1. below(x) \subseteq S /\ below(x) # S
    OBVIOUS
  <2> HIDE DEF below
  <2>2. IsFiniteSet(below(x)) /\ Cardinality(below(x)) <= n /\ Cardinality(below(x)) # n
    BY <2>1, FS_Subset
  <2> QED
    BY <2>2, <1>1, FS_CardinalityType
<1>3. \A x, y \in S : <<x, y>> \in R => rank[x] < rank[y]
  <2> SUFFICES ASSUME NEW x \in S, NEW y \in S, <<x, y>> \in R
               PROVE  rank[x] < rank[y]
    OBVIOUS
  <2>1. x \in below(y) /\ x \notin below(x)
    OBVIOUS
  <2>2. below(x) \subseteq below(y)
    OBVIOUS
  <2> HIDE DEF below
  <2>3. below(x) # below(y)
    BY <2>1
  <2>4. Cardinality(below(x)) <= Cardinality(below(y)) /\ Cardinality(below(x)) # Cardinality(below(y))
    BY <2>2, <2>3, <1>2, FS_Subset
  <2> QED
    BY <2>4, <1>2
<1>4. rank \in Injection(S, 1..n)
  <2>1. \A x \in S : Cardinality(below(x)) + 1 \in 1..n
    <3> HIDE DEF below
    <3> QED
      BY <1>1, <1>2
  <2>2. rank \in [S -> 1..n]
    <3> HIDE DEF below
    <3> QED
      BY <2>1
  <2>3. ASSUME NEW x \in S, NEW y \in S, rank[x] = rank[y]
        PROVE  x = y
    <3> HIDE DEF rank
    <3>1. rank[x] \in 1..n
      BY <2>2
    <3>2. ~(rank[x] < rank[y]) /\ ~(rank[y] < rank[x])
      BY <3>1, <2>3, <1>1
    <3> QED
      BY <3>2, <1>3
  <2> QED
    BY <2>2, <2>3 DEF Injection, IsInjective
<1> HIDE DEF rank
<1>5. rank \in Surjection(S, 1..n)
  BY <1>1, <1>4, FS_Injection
<1> DEFINE s == [i \in 1..n |-> CHOOSE x \in S : rank[x] = i]
<1>6. \A i \in 1..n : s[i] \in S /\ rank[s[i]] = i
  BY <1>5 DEF Surjection
<1>7. \A i, j \in 1..n : i < j => <<s[i], s[j]>> \in R
  <2> SUFFICES ASSUME NEW i \in 1..n, NEW j \in 1..n, i < j
               PROVE  <<s[i], s[j]>> \in R
    OBVIOUS
  <2> HIDE DEF s
  <2>1. s[i] # s[j]
    BY <1>6, <1>1
  <2>2. <<s[j], s[i]>> \notin R
    BY <1>6, <1>3, <1>1
  <2> QED
    BY <2>1, <2>2, <1>6
<1> QED
  <2>1. s \in [1..n -> S]
    BY <1>6
  <2> QED
    BY <2>1, <1>7

(* Rows in a strict order hold each row of the set once. *)
LEMMA OrderIsBijection ==
  ASSUME NEW S, IsFiniteSet(S), NEW R, NEW s \in [1..Cardinality(S) -> S],
         \A x \in S : <<x, x>> \notin R,
         \A i, j \in 1..Cardinality(S) : i < j => <<s[i], s[j]>> \in R
  PROVE  /\ \A i, j \in 1..Cardinality(S) : s[i] = s[j] => i = j
         /\ s \in Bijection(1..Cardinality(S), S)
<1> DEFINE n == Cardinality(S)
<1>1. n \in Nat /\ IsFiniteSet(1..n) /\ Cardinality(1..n) = n
  BY FS_CardinalityType, FS_Interval
<1>2. ASSUME NEW i \in 1..n, NEW j \in 1..n, s[i] = s[j]
      PROVE  i = j
  <2>1. s[i] \in S /\ ~(i < j) /\ ~(j < i)
    BY <1>2
  <2> QED
    BY <2>1, <1>1
<1>3. s \in Injection(1..n, S)
  BY <1>2 DEF Injection, IsInjective
<1>4. s \in Surjection(1..n, S)
  BY <1>1, <1>3, FS_Injection
<1> QED
  BY <1>2, <1>3, <1>4 DEF Bijection

(* Any numbers have a least: what the proofs use for induction. *)
LEMMA LeastOf ==
  ASSUME NEW S \in SUBSET Nat, S # {}
  PROVE  \E x \in S : \A y \in S : x <= y
<1> DEFINE Lt == {p \in Nat \X Nat : p[1] < p[2]}
<1>1. IsWellFoundedOn(Lt, Nat)
  BY NatLessThanWellFounded DEF OpToRel
<1>2. PICK x \in S : \A y \in S : <<y, x>> \notin Lt
  <2> HIDE DEF Lt
  <2> QED
    BY <1>1, WFMin
<1>3. ASSUME NEW y \in S
      PROVE  x <= y
  <2>1. <<y, x>> \notin Lt /\ x \in Nat /\ y \in Nat
    BY <1>2
  <2>2. ~(y < x)
    BY <2>1
  <2> QED
    BY <2>1, <2>2
<1> QED
  BY <1>3
=============================================================================
