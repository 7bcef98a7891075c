------------------------------ MODULE CardLedger ------------------------------
(***************************************************************************)
(* What kaartd's database promises its client: cards, one schedule per     *)
(* card and a log of reviews, changed by operations that are each atomic.  *)
(* A review reads the card's schedule, computes the next one and writes    *)
(* both the schedule and the log row in one indivisible step.              *)
(*                                                                         *)
(* ReviewService is the same database as its handlers really drive it, a   *)
(* statement at a time.                                                    *)
(***************************************************************************)
EXTENDS Scheduler, FiniteSets, Functions

CONSTANTS
  Cards,       \* the UUIDs cards are given; an id is never used twice
  Decks,       \* the UUIDs of decks
  Times,       \* the instants the clock may show, in any order
  MaxReviews   \* bound: reviews ever logged

ASSUME LedgerAssumption ==
  /\ Times \subseteq Nat
  /\ MaxReviews \in Nat

VARIABLES
  decks,     \* rows of table decks: the ids present
  cards,     \* rows of table cards: id -> deck, suspended, created
  states,    \* rows of table card_states: card id -> schedule
  reviews,   \* rows of table reviews
  nextId,    \* the next AUTOINCREMENT id of reviews
  used       \* card ids handed out so far

vars == <<decks, cards, states, reviews, nextId, used>>

CardRows == [deck : Decks, suspended : BOOLEAN, created : Nat]

NoRows == [x \in {} |-> x]      \* an empty table

RowsOf(c)      == {rv \in reviews : rv.card = c}
ForgottenOf(c) == {rv \in RowsOf(c) : rv.state = StateReview /\ rv.rating = RatingAgain}

-----------------------------------------------------------------------------
Init ==
  /\ decks = {}
  /\ cards = NoRows
  /\ states = NoRows
  /\ reviews = {}
  /\ nextId = 1
  /\ used = {}

CreateDeck(d) ==
  /\ d \notin decks
  /\ decks' = decks \cup {d}
  /\ UNCHANGED <<cards, states, reviews, nextId, used>>

CreateCard(c, d, at) ==
  /\ c \notin used
  /\ d \in decks
  /\ used' = used \cup {c}
  /\ cards' = [x \in DOMAIN cards \cup {c} |->
                 IF x = c THEN [deck |-> d, suspended |-> FALSE, created |-> at]
                          ELSE cards[x]]
  /\ states' = [x \in DOMAIN states \cup {c} |->
                  IF x = c THEN NewCardState(at) ELSE states[x]]
  /\ UNCHANGED <<decks, reviews, nextId>>

SetCardSuspended(c, suspended) ==
  /\ c \in DOMAIN cards
  /\ cards' = [cards EXCEPT ![c].suspended = suspended]
  /\ UNCHANGED <<decks, states, reviews, nextId, used>>

(* Mutant: the schedules are not taken along. *)
RemoveCardsOnly(gone) ==
  /\ cards' = Restrict(cards, DOMAIN cards \ gone)
  /\ reviews' = {rv \in reviews : rv.card \notin gone}
  /\ UNCHANGED states

(* DELETE FROM cards, with what ON DELETE CASCADE takes along. *)
RemoveCards(gone) ==
  /\ cards' = Restrict(cards, DOMAIN cards \ gone)
  /\ states' = Restrict(states, DOMAIN states \ gone)
  /\ reviews' = {rv \in reviews : rv.card \notin gone}

DeleteCard(c) ==
  /\ c \in DOMAIN cards
  /\ RemoveCards({c})
  /\ UNCHANGED <<decks, nextId, used>>

DeleteDeck(d) ==
  /\ d \in decks
  /\ decks' = decks \ {d}
  /\ RemoveCards({c \in DOMAIN cards : cards[c].deck = d})
  /\ UNCHANGED <<nextId, used>>

(* Mutant: a suspended card can be reviewed. *)
CanReviewSuspended(c) == c \in DOMAIN cards

CanReview(c) == c \in DOMAIN cards /\ ~cards[c].suspended

(* Mutant: the row records the state after the rating. *)
LogRowAfter(c, rating, at) ==
  [ReviewFrom(c, Apply(states[c], rating, at), rating, at) EXCEPT !.id = nextId]

(* Mutant: the id is the next free one, so that a deleted row's id returns. *)
LogRowFreeId(c, rating, at) ==
  [ReviewFrom(c, states[c], rating, at) EXCEPT !.id = Cardinality(reviews) + 1]

LogRow(c, rating, at) == [ReviewFrom(c, states[c], rating, at) EXCEPT !.id = nextId]

(* at is the instant the review is stamped with, which is not the instant   *)
(* it is committed.                                                         *)
Review(c, rating, at) ==
  /\ nextId <= MaxReviews
  /\ CanReview(c)
  /\ states' = [states EXCEPT ![c] = Apply(states[c], rating, at)]
  /\ reviews' = reviews \cup {LogRow(c, rating, at)}
  /\ nextId' = nextId + 1
  /\ UNCHANGED <<decks, cards, used>>

Next ==
  \/ \E d \in Decks : CreateDeck(d) \/ DeleteDeck(d)
  \/ \E c \in Cards, d \in Decks, at \in Times : CreateCard(c, d, at)
  \/ \E c \in Cards, suspended \in BOOLEAN : SetCardSuspended(c, suspended)
  \/ \E c \in Cards : DeleteCard(c)
  \/ \E c \in Cards, rating \in Ratings, at \in Times : Review(c, rating, at)

Spec == Init /\ [][Next]_vars

-----------------------------------------------------------------------------
(* Every row has the shape its table declares. *)
TypeOK ==
  /\ decks \subseteq Decks
  /\ used \subseteq Cards
  /\ nextId \in Nat
  /\ DOMAIN cards \subseteq used
  /\ cards \in [DOMAIN cards -> CardRows]
  /\ states \in [DOMAIN states -> CardStates]
  /\ reviews \subseteq LogRows(used)

(* A card never exists without a schedule, nor a schedule or a log row      *)
(* without its card, nor a card without its deck: the foreign keys, the     *)
(* create transaction and the cascades together.                            *)
ScheduleExists ==
  /\ DOMAIN states = DOMAIN cards
  /\ \A c \in DOMAIN cards : cards[c].deck \in decks
  /\ \A rv \in reviews : rv.card \in DOMAIN cards

(* card_states.reps is the total of a card's reviews, and lapses the number *)
(* of times it was forgotten: both agree with the log at all times.         *)
RepsCountReviews ==
  \A c \in DOMAIN cards :
    /\ states[c].reps = Cardinality(RowsOf(c))
    /\ states[c].lapses = Cardinality(ForgottenOf(c))

(* A card is introduced once: at most one of its rows was written while it  *)
(* was new, which is what lets ReviewTotals.NewCards count introductions.   *)
IntroducedOnce ==
  \A rv1, rv2 \in reviews :
    rv1.card = rv2.card /\ rv1.state = StateNew /\ rv2.state = StateNew => rv1 = rv2

(* The schedule of card c as replaying its log up to row n computes it.     *)
Replayed(c, n) ==
  LET step[k \in 0..n] ==
        IF k = 0 THEN NewCardState(cards[c].created)
        ELSE LET row == {rv \in RowsOf(c) : rv.id = k}
             IN  IF row = {} THEN step[k - 1]
                 ELSE LET rv == CHOOSE rv \in row : TRUE
                      IN  Apply(step[k - 1], rv.rating, rv.at)
  IN  step[n]

(* The log is complete and faithful: replaying it gives each card's present *)
(* schedule, and every row records the state the replay had just before it. *)
LogReplays ==
  /\ \A c \in DOMAIN cards : states[c] = Replayed(c, nextId - 1)
  /\ \A rv \in reviews :
       rv = [ReviewFrom(rv.card, Replayed(rv.card, rv.id - 1), rv.rating, rv.at)
               EXCEPT !.id = rv.id]

(* What the log of a card says of its schedule without replaying it.        *)
NewUntilReviewed ==
  \A c \in DOMAIN cards : states[c].state = StateNew <=> RowsOf(c) = {}

(* The inductive invariant of CardLedgerProofs: a row added is not already  *)
(* there, for its id is above every id in the log, and the log is finite,   *)
(* so that counting it is adding one.                                       *)
IInv ==
  /\ TypeOK
  /\ ScheduleExists
  /\ IsFiniteSet(reviews)
  /\ \A rv \in reviews : rv.id < nextId
  /\ RepsCountReviews
  /\ NewUntilReviewed
  /\ IntroducedOnce

-----------------------------------------------------------------------------
(* A suspended card keeps its schedule and its log until it is unsuspended  *)
(* or deleted.                                                              *)
SuspendedFrozen ==
  [][\A c \in DOMAIN cards :
       cards[c].suspended /\ c \in DOMAIN cards' =>
         /\ states'[c] = states[c]
         /\ {rv \in reviews' : rv.card = c} = RowsOf(c)]_vars

(* The log only grows, by rows with the next id, except for the rows of a   *)
(* card that is gone.                                                       *)
AppendOnly ==
  [][/\ \A rv \in reviews : rv.card \in DOMAIN cards' => rv \in reviews'
     /\ \A rv \in reviews' \ reviews : rv.id = nextId /\ nextId' = nextId + 1]_vars
=============================================================================
