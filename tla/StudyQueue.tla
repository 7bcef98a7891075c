------------------------------ MODULE StudyQueue ------------------------------
(***************************************************************************)
(* GET /decks/{deckID}/queue: how handleQueue assembles a study session.   *)
(*                                                                         *)
(* The handler reads the clock once and then the database four times: the  *)
(* totals of the day, and one query each for the learning, the review and  *)
(* the new cards.  No transaction spans the four reads, so that reviews    *)
(* may commit, cards be suspended or deleted and time pass between them.   *)
(*                                                                         *)
(* The database is that of CardLedger, whose operations are atomic, down   *)
(* to the columns the four queries look at: a card joined with its         *)
(* schedule, and the log.                                                  *)
(*                                                                         *)
(* Instants are UTC.  The server's zone changes its offset once, so that   *)
(* local days are DayLength ticks, or one more or less.                    *)
(***************************************************************************)
EXTENDS Scheduler, Sequences, FiniteSets, Functions, FiniteSetsExt

CONSTANTS
  Cards,              \* card ids, numbers in the order of the UUIDs
  MaxTime,            \* bound: the clock stops here
  MaxReviews,         \* bound: rows in the log at a time
  LastCreation,       \* bound: no card is created after this instant
  RatingsGiven,       \* the ratings users give
  ZoneChange, OffsetBefore, OffsetAfter,   \* the server's time zone
  Lag,                \* a review commits at most this long after its stamp
  NewCardsPerDay, MaxReviewsPerDay,   \* the deck's settings
  Limit               \* ?limit= of the request

ASSUME QueueAssumption ==
  /\ Cards \subseteq Nat
  /\ MaxTime \in Nat /\ NewCardsPerDay \in Nat /\ MaxReviewsPerDay \in Nat
  /\ RatingsGiven \subseteq Ratings
  /\ Limit \in 1..500
  /\ Lag \in 0..DayLength - 1
  /\ ZoneChange \in Int /\ OffsetBefore \in Int /\ OffsetAfter \in Int

VARIABLES
  cards,     \* the deck's cards, each joined with its schedule
  reviews,   \* the log of their reviews
  used,      \* card ids handed out so far
  now,       \* the clock
  step,      \* what the handler does next
  at,        \* its now
  newBudget, reviewBudget,   \* what is left of its two allowances
  items,     \* the session so far
  racing,    \* history: cards introduced since the totals were read
  quiet      \* history: the database has not changed since the request came

db    == <<cards, reviews, used>>
build == <<step, at, newBudget, reviewBudget, items>>
vars  == <<db, now, build, racing, quiet>>

Times == 0..MaxTime

JoinedRows ==
  [suspended : BOOLEAN, created : Times, due : Nat, state : States, steps : Nat]
LogEntries == [id : Nat, card : used, wasNew : BOOLEAN, at : Times]

-----------------------------------------------------------------------------
(* The zone database: what the wall clock shows at an instant. *)
Offset(t)    == IF t < ZoneChange THEN OffsetBefore ELSE OffsetAfter
LocalTime(t) == t + Offset(t)
LocalDate(t) == LocalTime(t) \div DayLength

(* time.Date: the wall time is looked up as if it were UTC, and what that   *)
(* offset makes of it is looked up again.  A wall time that occurs twice is *)
(* one of the two; one that is skipped comes out before or after the gap.   *)
InstantOf(wall) == wall - Offset(wall - Offset(wall))

(* Mutant: days are those of UTC. *)
DayStartUTC(t) == (t \div DayLength) * DayLength

(* dayBounds: [start, end) around an instant.  AddDate(0, 0, 1) adds a day  *)
(* to the date that start shows, and keeps the time of day it shows.        *)
DayStart(t) == InstantOf(LocalDate(t) * DayLength)
DayEnd(t)   == InstantOf(LocalTime(DayStart(t)) + DayLength)

(* Mutant: the interval of the day is open at its start. *)
ReviewsTodayOpen(t) == {rv \in reviews : DayStart(t) < rv.at /\ rv.at < DayEnd(t)}

(* ReviewTotals: the rows of the day's reviews, and of those the ones of    *)
(* cards that were new.  Only cards of the deck are in the model.           *)
ReviewsToday(t) == {rv \in reviews : DayStart(t) <= rv.at /\ rv.at < DayEnd(t)}
NewToday(t)     == {rv \in ReviewsToday(t) : rv.wasNew}

(* Mutant: an allowance that was exceeded is taken as a debt. *)
RemainingInDebt(allowance, count) == allowance - count

Remaining(allowance, count) == IF allowance > count THEN allowance - count ELSE 0

(* ORDER BY due, created_at, id.  For a new card due is created_at.         *)
Before(c, d) ==
  \/ cards[c].due < cards[d].due
  \/ /\ cards[c].due = cards[d].due
     /\ \/ cards[c].created < cards[d].created
        \/ cards[c].created = cards[d].created /\ c < d

InOrder(ids) ==
  CHOOSE s \in [1..Cardinality(ids) -> ids] : \A i, j \in DOMAIN s : i < j => Before(s[i], s[j])

Matching(which) ==
  {c \in DOMAIN cards :
     ~cards[c].suspended /\ cards[c].state \in which /\ cards[c].due <= at}

(* One query: the first of the cards that match, as many as the budget and  *)
(* the limit leave room for.                                                *)
Batch(which, budget) ==
  LET sorted == InOrder(Matching(which))
      room   == Min({budget, Limit - Len(items), Len(sorted)})
  IN  [i \in 1..room |-> [card |-> sorted[i], state |-> cards[sorted[i]].state,
                          due |-> cards[sorted[i]].due]]

-----------------------------------------------------------------------------
Idle ==
  /\ step' = "idle" /\ at' = 0 /\ newBudget' = 0 /\ reviewBudget' = 0 /\ items' = << >>
  /\ racing' = 0 /\ quiet' = TRUE

Init ==
  /\ cards = << >> /\ reviews = {} /\ used = {}
  /\ now = 0
  /\ step = "idle" /\ at = 0 /\ newBudget = 0 /\ reviewBudget = 0 /\ items = << >>
  /\ racing = 0
  /\ quiet = TRUE

(* GetDeck finds the deck, and the handler looks at the clock. *)
Receive ==
  /\ step = "idle"
  /\ step' = "totals"
  /\ at' = now
  /\ UNCHANGED <<db, now, newBudget, reviewBudget, items, racing, quiet>>

ReadTotals ==
  /\ step = "totals"
  /\ newBudget' = Remaining(NewCardsPerDay, Cardinality(NewToday(at)))
  /\ reviewBudget' = Remaining(MaxReviewsPerDay, Cardinality(ReviewsToday(at)))
  /\ step' = "learning"
  /\ UNCHANGED <<db, now, at, items, racing, quiet>>

(* Mutant: the budget is charged with what was asked for. *)
ReadLearningOvercharged ==
  /\ step = "learning"
  /\ items' = items \o Batch({StateLearning, StateRelearning}, reviewBudget)
  /\ reviewBudget' = reviewBudget - Min({reviewBudget, Limit})
  /\ step' = "review"
  /\ UNCHANGED <<db, now, at, newBudget, racing, quiet>>

ReadLearning ==
  /\ step = "learning"
  /\ LET batch == Batch({StateLearning, StateRelearning}, reviewBudget) IN
     /\ items' = items \o batch
     /\ reviewBudget' = reviewBudget - Len(batch)
  /\ step' = "review"
  /\ UNCHANGED <<db, now, at, newBudget, racing, quiet>>

(* Mutant: what is due is asked by the clock at the time of the query. *)
ReadReviewByItsClock ==
  /\ step = "review"
  /\ LET due == {c \in DOMAIN cards : /\ ~cards[c].suspended /\ cards[c].due <= now
                                      /\ cards[c].state = StateReview}
         sorted == InOrder(due)
     IN  items' = items \o
           [i \in 1..Min({reviewBudget, Limit - Len(items), Len(sorted)}) |->
              [card |-> sorted[i], state |-> StateReview, due |-> cards[sorted[i]].due]]
  /\ step' = "new"
  /\ UNCHANGED <<db, now, at, newBudget, reviewBudget, racing, quiet>>

ReadReview ==
  /\ step = "review"
  /\ items' = items \o Batch({StateReview}, reviewBudget)
  /\ step' = "new"
  /\ UNCHANGED <<db, now, at, newBudget, reviewBudget, racing, quiet>>

ReadNew ==
  /\ step = "new"
  /\ items' = items \o Batch({StateNew}, newBudget)
  /\ step' = "done"
  /\ UNCHANGED <<db, now, at, newBudget, reviewBudget, racing, quiet>>

Respond == step = "done" /\ Idle /\ UNCHANGED <<db, now>>

(* A query fails: 500, and nothing is served. *)
Fail ==
  /\ step \in {"totals", "learning", "review", "new"}
  /\ Idle
  /\ UNCHANGED <<db, now>>

-----------------------------------------------------------------------------
(* What other requests commit, between any two reads.  Once the last query  *)
(* has been read the session is settled.                                    *)
Concurrently ==
  /\ step # "done"
  /\ quiet' = (step = "idle")
  /\ racing' = IF step \in {"idle", "totals"} THEN 0
               ELSE racing + Cardinality({rv \in reviews' \ reviews : rv.wasNew})
  /\ UNCHANGED <<build, now>>

NextId == 1 + Max({0} \cup {rv.id : rv \in reviews})

Review(c, rating, stamp) ==
  /\ Cardinality(reviews) < MaxReviews
  /\ c \in DOMAIN cards /\ ~cards[c].suspended
  /\ stamp <= now /\ now - stamp <= Lag
  /\ cards' = [cards EXCEPT ![c].due   = stamp + Interval(cards[c], rating),
                            ![c].state = NextState(cards[c], rating),
                            ![c].steps = NextSteps(cards[c], rating)]
  /\ reviews' = reviews \cup
       {[id |-> NextId, card |-> c, wasNew |-> cards[c].state = StateNew, at |-> stamp]}
  /\ UNCHANGED used
  /\ Concurrently

(* UUIDv7 ids grow with the time they are made at. *)
CreateCard(c) ==
  /\ now <= LastCreation
  /\ \A d \in used : d < c
  /\ used' = used \cup {c}
  /\ cards' = [x \in DOMAIN cards \cup {c} |->
       IF x = c THEN [suspended |-> FALSE, created |-> now,
                      due |-> now, state |-> StateNew, steps |-> 0]
       ELSE cards[x]]
  /\ UNCHANGED reviews
  /\ Concurrently

SetSuspended(c, value) ==
  /\ c \in DOMAIN cards /\ cards[c].suspended # value
  /\ cards' = [cards EXCEPT ![c].suspended = value]
  /\ UNCHANGED <<reviews, used>>
  /\ Concurrently

DeleteCard(c) ==
  /\ c \in DOMAIN cards
  /\ cards' = Restrict(cards, DOMAIN cards \ {c})
  /\ reviews' = {rv \in reviews : rv.card # c}
  /\ UNCHANGED used
  /\ Concurrently

Tick ==
  /\ now < MaxTime /\ step # "done"
  /\ now' = now + 1
  /\ UNCHANGED <<db, build, racing, quiet>>

Handle == ReadTotals \/ ReadLearning \/ ReadReview \/ ReadNew \/ Respond \/ Fail

Next ==
  \/ Receive \/ Handle
  \/ \E c \in Cards : CreateCard(c) \/ DeleteCard(c)
  \/ \E c \in Cards, value \in BOOLEAN : SetSuspended(c, value)
  \/ \E c \in Cards, rating \in RatingsGiven, stamp \in Times : Review(c, rating, stamp)
  \/ Tick

Spec == Init /\ [][Next]_vars

-----------------------------------------------------------------------------
Items == [card : Cards, state : States, due : Nat]

TypeOK ==
  /\ used \subseteq Cards /\ DOMAIN cards \subseteq used
  /\ \A c \in DOMAIN cards : cards[c] \in JoinedRows
  /\ reviews \subseteq LogEntries
  /\ now \in Times /\ at \in Times
  /\ step \in {"idle", "totals", "learning", "review", "new", "done"}
  /\ newBudget \in 0..NewCardsPerDay /\ reviewBudget \in 0..MaxReviewsPerDay
  /\ items \in Seq(Items) /\ Len(items) <= Limit

(* A session shows no card twice, although the three queries see three      *)
(* states of the database: a card that is reviewed on its way from one      *)
(* query's state to another's is no longer due by the handler's clock.      *)
NoCardTwice == \A i, j \in DOMAIN items : items[i].card = items[j].card => i = j

Served(which)   == {i \in DOMAIN items : items[i].state \in which}
Withheld(which) == Matching(which) \ {items[i].card : i \in DOMAIN items}
Full            == Len(items) = Limit
OffLadder       == {StateReview}
OnLadder        == {StateLearning, StateRelearning}

(* When nothing else happens meanwhile, a card that is due is left out only *)
(* because the session is full or the allowance it falls under is used up,  *)
(* learning cards before review cards and the sooner due before the later.  *)
NothingWithheld ==
  step = "done" /\ quiet =>
    /\ Withheld(OnLadder \cup OffLadder) # {} =>
         Full \/ Cardinality(Served(OnLadder \cup OffLadder))
                   = Remaining(MaxReviewsPerDay, Cardinality(ReviewsToday(at)))
    /\ Withheld({StateNew}) # {} =>
         Full \/ Cardinality(Served({StateNew}))
                   = Remaining(NewCardsPerDay, Cardinality(NewToday(at)))
    /\ Withheld(OnLadder) # {} => Served(OffLadder) = {}
    /\ \A which \in {OnLadder, OffLadder, {StateNew}} :
         \A c \in Withheld(which), i \in Served(which) : items[i].due <= cards[c].due

NewServed       == Cardinality(Served({StateNew}))
OnDate(t)       == {rv \in reviews : LocalDate(rv.at) = LocalDate(t)}
IntroducedOn(t) == Cardinality({rv \in OnDate(t) : rv.wasNew})

(* "The daily caps are counted against your local day": the allowances are  *)
(* charged with the reviews of the date on the wall, no more and no less,   *)
(* also on the day on which the clocks are changed.                         *)
AllowanceFollowsLocalDate ==
  step = "learning" /\ quiet =>
    /\ newBudget = Remaining(NewCardsPerDay, IntroducedOn(at))
    /\ reviewBudget = Remaining(MaxReviewsPerDay, Cardinality(OnDate(at)))

(* The new cards of a session and those introduced that day exceed the      *)
(* daily allowance by no more than were introduced while it was assembled.  *)
OverrunBounded ==
  step = "done" /\ NewServed > 0 =>
    NewServed + IntroducedOn(at) <= NewCardsPerDay + racing
=============================================================================
