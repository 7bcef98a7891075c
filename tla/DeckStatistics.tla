---------------------------- MODULE DeckStatistics ----------------------------
(***************************************************************************)
(* GET /decks/{deckID}/stats next to the study queue: handleStats reads    *)
(* the clock once and then the database four times, as handleQueue does,   *)
(* between the commits of other requests.  Both only read, so one reader   *)
(* at a time shows all that either can see.                                *)
(***************************************************************************)
EXTENDS StudyQueue

CONSTANTS
  Days,      \* ?days= of the request
  Nothing    \* no card comes up later

ASSUME StatisticsAssumption == Days \in 1..365 /\ Nothing \notin Nat

VARIABLES
  call,      \* what handleStats reads next
  asOf,      \* its now
  answer,    \* what it has read
  calm       \* history: the database has not changed since the request came

stats    == <<call, asOf, answer, calm>>
allVars  == <<vars, stats>>

Blank ==
  [total |-> 0, due |-> 0, new |-> 0, learning |-> 0, suspended |-> 0,
   reviewsToday |-> 0, newToday |-> 0, histogram |-> << >>, nextDue |-> Nothing]

-----------------------------------------------------------------------------
InDeck(which) == {c \in DOMAIN cards : cards[c].state \in which}
Active        == {c \in DOMAIN cards : ~cards[c].suspended}

(* The queries.  A card is due at the instant it is due, and comes up next  *)
(* only if that is later.                                                   *)
DueAt(t)    == {c \in Active : cards[c].due <= t}

(* Mutant: suspended cards come up, too. *)
NextDueOfAll(t) ==
  LET later == {cards[c].due : c \in DOMAIN cards} \ 0..t
  IN  IF later = {} THEN Nothing ELSE Min(later)

NextDue(t) ==
  LET later == {cards[c].due : c \in Active \ DueAt(t)}
  IN  IF later = {} THEN Nothing ELSE Min(later)

(* Mutant: the window ends where the day begins. *)
WindowUntilToday(t) ==
  {rv \in reviews : DayStart(t) - Days * DayLength <= rv.at /\ rv.at < DayStart(t)}

(* ReviewHistogram: the rows of as many times 24 hours as were asked for,   *)
(* up to the end of the local day, counted by the day they have in UTC.     *)
Window(t) == {rv \in reviews : DayEnd(t) - Days * DayLength <= rv.at /\ rv.at < DayEnd(t)}
UTCDay(t) == t \div DayLength
Histogram(t) ==
  [day \in {UTCDay(rv.at) : rv \in Window(t)} |->
     Cardinality({rv \in Window(t) : UTCDay(rv.at) = day})]

-----------------------------------------------------------------------------
StatsIdle == call' = "none" /\ asOf' = 0 /\ answer' = Blank /\ calm' = TRUE

StatsInit ==
  /\ Init
  /\ call = "none" /\ asOf = 0 /\ answer = Blank /\ calm = TRUE

Then(next) == call' = next /\ UNCHANGED <<vars, asOf, calm>>

ReceiveStats ==
  /\ call = "none" /\ step = "idle"
  /\ call' = "counts"
  /\ asOf' = now
  /\ UNCHANGED <<vars, answer, calm>>

ReadCounts ==
  /\ call = "counts"
  /\ answer' = [answer EXCEPT
       !.total     = Cardinality(DOMAIN cards),
       !.due       = Cardinality(DueAt(asOf)),
       !.new       = Cardinality(Active \cap InDeck({StateNew})),
       !.learning  = Cardinality(Active \cap InDeck({StateLearning, StateRelearning})),
       !.suspended = Cardinality(DOMAIN cards \ Active)]
  /\ Then("totals")

ReadStatsTotals ==
  /\ call = "totals"
  /\ answer' = [answer EXCEPT !.reviewsToday = Cardinality(ReviewsToday(asOf)),
                              !.newToday     = Cardinality(NewToday(asOf))]
  /\ Then("histogram")

ReadHistogram ==
  /\ call = "histogram"
  /\ answer' = [answer EXCEPT !.histogram = Histogram(asOf)]
  /\ Then("nextDue")

ReadNextDue ==
  /\ call = "nextDue"
  /\ answer' = [answer EXCEPT !.nextDue = NextDue(asOf)]
  /\ Then("done")

RespondStats == call = "done" /\ StatsIdle /\ UNCHANGED vars

(* A query fails: 500. *)
FailStats ==
  /\ call \in {"counts", "totals", "histogram", "nextDue"}
  /\ StatsIdle
  /\ UNCHANGED vars

(* The queue is asked for while no statistics are read; everything else     *)
(* goes on until they are complete.                                         *)
QueueStep ==
  /\ call = "none"
  /\ Receive \/ Handle
  /\ UNCHANGED stats

Meanwhile ==
  /\ call # "done"
  /\ \/ \E c \in Cards : CreateCard(c) \/ DeleteCard(c)
     \/ \E c \in Cards, value \in BOOLEAN : SetSuspended(c, value)
     \/ \E c \in Cards, rating \in RatingsGiven, stamp \in Times : Review(c, rating, stamp)
  /\ calm' = (call = "none")
  /\ UNCHANGED <<call, asOf, answer>>

Clock == call # "done" /\ Tick /\ UNCHANGED stats

StatsNext ==
  \/ ReceiveStats \/ ReadCounts \/ ReadStatsTotals \/ ReadHistogram \/ ReadNextDue
  \/ RespondStats \/ FailStats
  \/ QueueStep \/ Meanwhile \/ Clock

StatsSpec == StatsInit /\ [][StatsNext]_allVars

-----------------------------------------------------------------------------
StatsTypeOK ==
  /\ TypeOK
  /\ call \in {"none", "counts", "totals", "histogram", "nextDue", "done"}
  /\ asOf \in Times
  /\ calm \in BOOLEAN
  /\ DOMAIN answer = DOMAIN Blank
  /\ call = "none" \/ step = "idle"

Complete == call = "done" /\ calm

(* "next_due is the earliest due time strictly after now among the deck's   *)
(* unsuspended cards, or null when everything is already due": what two     *)
(* queries say accounts for every card, and leaves out exactly the          *)
(* suspended ones.                                                          *)
EveryCardAccounted ==
  Complete =>
    /\ answer.nextDue = Nothing <=> answer.due + answer.suspended = answer.total
    /\ answer.nextDue # Nothing =>
         /\ answer.nextDue > asOf
         /\ \E c \in Active : cards[c].due = answer.nextDue
         /\ \A c \in Active : cards[c].due <= asOf \/ cards[c].due >= answer.nextDue

(* The bars of the histogram, added up. *)
HeightOf(bars) == SumFunction(bars)

(* Local days are counted by UTC days: every review of today still is in    *)
(* some bar, unless today is longer than the window, as a day of 25 hours   *)
(* is than ?days=1; and the window spreads over one day more than asked at  *)
(* the most.                                                                *)
TodayIsCharted ==
  Complete =>
    /\ DayEnd(asOf) - DayStart(asOf) <= Days * DayLength
         => answer.reviewsToday <= HeightOf(answer.histogram)
    /\ Cardinality(DOMAIN answer.histogram) <= Days + 1
=============================================================================
