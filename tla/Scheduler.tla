------------------------------ MODULE Scheduler ------------------------------
(***************************************************************************)
(* The pure part of kaartd: the card state of internal/domain and the      *)
(* functions of internal/scheduler that map a card state and a rating onto *)
(* the next card state and onto the row of the review log.                 *)
(*                                                                         *)
(* Time is a number of ticks, DayLength ticks to a day.  Stability and     *)
(* difficulty are left out: what they decide here is the next interval,    *)
(* and the interval is abstracted to one that is positive, days long in    *)
(* the review state, and ordered Hard < Good < Easy.                       *)
(***************************************************************************)
EXTENDS Integers

CONSTANT DayLength

ASSUME DayLengthAssumption == DayLength \in Nat \ {0}

-----------------------------------------------------------------------------
(* Ratings and states, numbered as they are persisted. *)

RatingAgain == 1
RatingHard  == 2
RatingGood  == 3
RatingEasy  == 4
Ratings     == RatingAgain..RatingEasy

StateNew        == 0
StateLearning   == 1
StateReview     == 2
StateRelearning == 3
States          == StateNew..StateRelearning

Never == -1      \* a nil LastReview

CardStates ==
  [due : Nat, state : States, steps : Nat, reps : Nat, lapses : Nat,
   scheduled : Nat, elapsed : Nat, last : Nat \cup {Never}]

(* Rating.Valid *)
Valid(rating) == rating >= RatingAgain /\ rating <= RatingEasy

NewCardState(now) ==
  [due |-> now, state |-> StateNew, steps |-> 0, reps |-> 0, lapses |-> 0,
   scheduled |-> 0, elapsed |-> 0, last |-> Never]

(* Mutant: the clamp against a clock that was set back is dropped. *)
ElapsedDaysUnclamped(last, now) == IF last = Never THEN 0 ELSE (now - last) \div DayLength

(* Whole days since the last review: zero for a card never reviewed and for *)
(* one whose last review lies ahead of a clock that was set back.           *)
ElapsedDays(last, now) ==
  IF last = Never \/ now < last THEN 0 ELSE (now - last) \div DayLength

-----------------------------------------------------------------------------
(* go-fsrs with its default step ladders: two learning steps, one           *)
(* relearning step.                                                         *)

LadderSteps(state) == IF state = StateRelearning THEN 1 ELSE 2

StepsLeft(st) ==
  IF st.state = StateNew THEN LadderSteps(StateLearning) ELSE st.steps

(* The rating takes the card off the ladder, or leaves it in review. *)
Graduates(st, rating) ==
  \/ st.state = StateReview /\ rating # RatingAgain
  \/ st.state # StateReview /\ rating = RatingEasy
  \/ st.state # StateReview /\ rating = RatingGood /\ StepsLeft(st) <= 1

(* Mutant: a card forgotten on the ladder lapses as well. *)
LapsesOnLadder(st, rating) == rating = RatingAgain

Lapses(st, rating) == st.state = StateReview /\ rating = RatingAgain

(* Mutant: a new card stays new until it graduates. *)
NextStateStaysNew(st, rating) ==
  CASE Graduates(st, rating) -> StateReview
    [] Lapses(st, rating)    -> StateRelearning
    [] OTHER                 -> st.state

NextState(st, rating) ==
  CASE Graduates(st, rating) -> StateReview
    [] Lapses(st, rating)    -> StateRelearning
    [] OTHER                 -> IF st.state = StateNew THEN StateLearning ELSE st.state

NextSteps(st, rating) ==
  IF Graduates(st, rating) THEN 0
  ELSE CASE rating = RatingGood -> StepsLeft(st) - 1
         [] rating = RatingHard -> StepsLeft(st)
         [] OTHER               -> LadderSteps(NextState(st, rating))

(* A tick on the ladder; days, more of them the better the rating, off it. *)
ScheduledDays(st, rating) ==
  IF NextState(st, rating) = StateReview THEN rating - 1 ELSE 0

Interval(st, rating) ==
  IF NextState(st, rating) = StateReview
  THEN ScheduledDays(st, rating) * DayLength ELSE 1

-----------------------------------------------------------------------------
(* FSRS.Apply: the engine's card, with the elapsed days fromFSRS adds. *)
Apply(before, rating, now) ==
  [due       |-> now + Interval(before, rating),
   state     |-> NextState(before, rating),
   steps     |-> NextSteps(before, rating),
   reps      |-> before.reps + 1,
   lapses    |-> IF Lapses(before, rating) THEN before.lapses + 1 ELSE before.lapses,
   scheduled |-> ScheduledDays(before, rating),
   elapsed   |-> ElapsedDays(before.last, now),
   last      |-> now]

(* FSRS.Preview: the projection of each of the four ratings. *)
Preview(state, now) == [rating \in Ratings |-> Apply(state, rating, now)]

(* The log row: the state as it was before the rating.  The caller fills in *)
(* the id, which is zero until the row is inserted.                          *)
ReviewFrom(card, before, rating, now) ==
  [id          |-> 0,
   card        |-> card,
   rating      |-> rating,
   state       |-> before.state,
   due         |-> before.due,
   elapsed     |-> ElapsedDays(before.last, now),
   lastElapsed |-> before.elapsed,
   scheduled   |-> before.scheduled,
   at          |-> now]

LogRows(Cards) ==
  [id : Nat, card : Cards, rating : Ratings, state : States, due : Nat,
   elapsed : Nat, lastElapsed : Nat, scheduled : Nat, at : Nat]
=============================================================================
