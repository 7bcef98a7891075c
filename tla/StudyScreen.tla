------------------------------ MODULE StudyScreen ------------------------------
(***************************************************************************)
(* The study screen (app/app/deck/[id]/study.tsx) around the session       *)
(* reducer (app/lib/session.ts): the cached queue the session is seeded    *)
(* from, the outbox the ratings are handed to, and the server that answers *)
(* the one and applies the other.                                          *)
(*                                                                         *)
(* Each mount of the screen makes an outbox of its own, which goes on      *)
(* submitting after the screen is left.  An outbox is a queue whose head   *)
(* reaches the server some time after it was handed over; ReviewOutbox     *)
(* says how.  A key press or a press on the screen and the renders and     *)
(* effects it causes are one action: React flushes them before the next    *)
(* event.  Leaving mid-session asks for confirmation, which changes        *)
(* nothing else and is left out.                                           *)
(***************************************************************************)
EXTENDS Scheduler, Sequences, FiniteSets

CONSTANTS
  Cards,          \* the deck's cards, numbers in queue order
  Studied,        \* those that were reviewed on the day before
  RatingsGiven,   \* the ratings the user gives
  AgeUnit,        \* how finely go-fsrs tells the time since a review, in ticks
  MaxDuration,    \* the server's cap on duration_ms, in ticks
  MaxTime,        \* bound: the clock stops here
  MaxMounts,      \* bound: times the screen is opened
  MaxSessions,    \* bound: sessions started
  MaxLost         \* bound: answers lost on the way back

ASSUME ScreenAssumption ==
  /\ Cards \subseteq Nat /\ IsFiniteSet(Cards) /\ Studied \subseteq Cards
  /\ AgeUnit \in Nat \ {0}
  /\ RatingsGiven \subseteq Ratings
  /\ MaxDuration \in Nat /\ MaxTime \in Nat /\ MaxMounts \in Nat /\ MaxSessions \in Nat
  /\ MaxLost \in Nat /\ DayLength <= MaxTime

VARIABLES
  now,       \* the clock
  states,    \* the server: each card's schedule
  cache,     \* the cached queue: NoQueue or the one last fetched
  fetch,     \* the queue request in flight: NoQueue, Asked or its answer
  isError,   \* the last fetch of the queue failed
  mount,     \* which opening of the screen this is; 0 when it is not open
  opened,    \* how often it was opened
  session,   \* the reducer's state
  started,   \* the session has been seeded
  outbox,    \* each mount's reviews waiting to reach the server
  failed,    \* each mount's reviews that were refused
  lost,      \* answers lost so far
  sessions,  \* history: sessions seeded so far
  fresh,     \* history: the latest was seeded with what the server has now
  handed     \* history: what the latest has handed to its outbox

screen  == <<mount, opened, session, started>>
queries == <<cache, fetch, isError>>
boxes   == <<outbox, failed, lost>>
history == <<sessions, fresh, handed>>
vars    == <<now, states, queries, screen, boxes, history>>

Schedule ==
  [due : Nat, state : States, steps : Nat, stability : Nat, last : Nat \cup {Never}]

(* A queue item: the card and what its buttons were labelled from, its      *)
(* schedule and the time since its last review.                             *)
Items   == [card : Cards, schedule : Schedule, age : Nat]
Queues  == [is : {"none", "asked", "here"}, items : Seq(Items)]

NoQueue      == [is |-> "none", items |-> << >>]
Asked        == [is |-> "asked", items |-> << >>]
Queue(items) == [is |-> "here", items |-> items]

-----------------------------------------------------------------------------
(* session.ts *)

StartSession(items) ==
  [items |-> items, index |-> 0, revealedAt |-> Never, results |-> << >>,
   phase |-> IF items = << >> THEN "summary" ELSE "question"]

EmptySession == StartSession(<< >>)

Revealed(s, at) ==
  IF s.phase # "question" THEN s
  ELSE [s EXCEPT !.phase = "answer", !.revealedAt = at]

(* Mutant: a clock set back is allowed for, a long pause is not. *)
Uncapped(d) == IF d < 0 THEN 0 ELSE d

Capped(d) == IF d < 0 THEN 0 ELSE IF d > MaxDuration THEN MaxDuration ELSE d

Rated(s, rating, at) ==
  IF s.phase # "answer" \/ s.index >= Len(s.items) THEN s
  ELSE LET current == s.items[s.index + 1]
           result  == [card |-> current.card, rating |-> rating,
                       duration |-> Capped(at - s.revealedAt)]
       IN  [s EXCEPT !.index = s.index + 1,
                     !.phase = IF s.index + 1 >= Len(s.items) THEN "summary" ELSE "question",
                     !.revealedAt = Never,
                     !.results = Append(s.results, result)]

-----------------------------------------------------------------------------
(* The scheduler, as far as a label tells *)

Age(st, at) == IF st.last = Never \/ at < st.last THEN 0 ELSE (at - st.last) \div AgeUnit

(* Stability and difficulty in one: the longer and the better a card was    *)
(* remembered, the more; what FSRS makes of it in numbers is abstracted.    *)
Stability(st, rating, age) ==
  IF st.state = StateNew THEN rating
  ELSE IF rating = RatingAgain THEN 1
  ELSE st.stability + age + rating

(* Minutes on the ladder, whatever is remembered; off it, what is. *)
IntervalOf(st, rating, age) ==
  IF NextState(st, rating) = StateReview THEN Stability(st, rating, age) * DayLength ELSE 1

ApplyAt(st, rating, at) ==
  LET age == Age(st, at)
  IN  [due       |-> at + IntervalOf(st, rating, age),
       state     |-> NextState(st, rating),
       steps     |-> NextSteps(st, rating),
       stability |-> Stability(st, rating, age),
       last      |-> at]

NewSchedule == [due |-> 0, state |-> StateNew, steps |-> 0, stability |-> 0, last |-> Never]
DueSchedule ==
  [due |-> DayLength, state |-> StateReview, steps |-> 0, stability |-> 1, last |-> 0]

-----------------------------------------------------------------------------
(* The server *)

InOrder(ids) ==
  CHOOSE s \in [1..Cardinality(ids) -> ids] : \A i, j \in DOMAIN s : i < j => s[i] < s[j]

DueItems ==
  LET due == InOrder({c \in Cards : states[c].due <= now})
  IN  [i \in DOMAIN due |-> [card |-> due[i], schedule |-> states[due[i]],
                             age |-> Age(states[due[i]], now)]]

(* The card has not been reviewed since its buttons were labelled. *)
InStep(item) == item.schedule = states[item.card]

(* The day after some of the cards were studied for the first time. *)
Init ==
  /\ now = DayLength
  /\ states = [c \in Cards |-> IF c \in Studied THEN DueSchedule ELSE NewSchedule]
  /\ cache = NoQueue /\ fetch = NoQueue /\ isError = FALSE
  /\ mount = 0 /\ opened = 0
  /\ session = EmptySession /\ started = FALSE
  /\ outbox = [m \in 1..MaxMounts |-> << >>]
  /\ failed = [m \in 1..MaxMounts |-> << >>]
  /\ lost = 0
  /\ sessions = 0 /\ fresh = FALSE /\ handed = << >>

(* The effect that seeds the session from the cached queue. *)
Seed(items) ==
  /\ sessions < MaxSessions
  /\ session' = StartSession(items)
  /\ started' = TRUE
  /\ sessions' = sessions + 1
  /\ fresh' = /\ \A i \in DOMAIN items : InStep(items[i])
              /\ \A m \in 1..MaxMounts : outbox[m] = << >>
  /\ handed' = << >>

(* The screen opens: a new outbox, a fetch whatever is cached, and a session*)
(* at once if something is.                                                 *)
Open ==
  /\ mount = 0 /\ opened < MaxMounts
  /\ opened' = opened + 1 /\ mount' = opened + 1
  /\ fetch' = Asked
  /\ IF cache = NoQueue THEN UNCHANGED <<session, started, history>> ELSE Seed(cache.items)
  /\ UNCHANGED <<now, states, cache, isError, boxes>>

QueueAnswered ==
  /\ fetch = Asked
  /\ fetch' = Queue(DueItems)
  /\ UNCHANGED <<now, states, cache, isError, screen, boxes, history>>

(* Mutant: whatever arrives becomes the session. *)
QueueArrivesReseeding ==
  /\ fetch.is = "here"
  /\ cache' = fetch /\ isError' = FALSE /\ fetch' = NoQueue
  /\ session' = StartSession(fetch.items) /\ started' = TRUE
  /\ UNCHANGED <<now, states, mount, opened, boxes, history>>

(* An empty session is over as it begins: the decks, and with them the      *)
(* queue, are invalidated and fetched again.                                *)
QueueArrives ==
  /\ fetch.is = "here"
  /\ cache' = fetch
  /\ isError' = FALSE
  /\ IF started
     THEN fetch' = NoQueue /\ UNCHANGED <<session, started, history>>
     ELSE Seed(fetch.items) /\ fetch' = IF fetch.items = << >> THEN Asked ELSE NoQueue
  /\ UNCHANGED <<now, states, mount, opened, boxes>>

QueueFails ==
  /\ fetch # NoQueue
  /\ fetch' = NoQueue
  /\ isError' = TRUE
  /\ UNCHANGED <<now, states, cache, screen, boxes, history>>

(* The error screen's retry button. *)
Retry ==
  /\ mount # 0 /\ isError /\ fetch = NoQueue
  /\ fetch' = Asked
  /\ UNCHANGED <<now, states, cache, isError, screen, boxes, history>>

Reveal ==
  /\ mount # 0 /\ session.phase = "question"
  /\ session' = Revealed(session, now)
  /\ UNCHANGED <<now, states, queries, mount, opened, started, boxes, history>>

HandOver(rating) ==
  LET item   == session.items[session.index + 1]
      review == [card |-> item.card, rating |-> rating,
                 duration |-> now - session.revealedAt,
                 shown |-> item, session |-> sessions, again |-> FALSE]
  IN  /\ outbox' = [outbox EXCEPT ![mount] = Append(@, review)]
      /\ handed' = Append(handed, [card |-> item.card, rating |-> rating])

(* Mutant: the guard of the callback is left to the reducer. *)
RateUnguarded(rating) ==
  /\ mount # 0 /\ session.index < Len(session.items)
  /\ session' = Rated(session, rating, now)
  /\ HandOver(rating)
  /\ fetch' = IF session'.phase = "summary" THEN Asked ELSE fetch
  /\ UNCHANGED <<now, states, cache, isError, mount, opened, started, failed, lost,
                 sessions, fresh>>

(* rate: advance first, submit second.  The effect at the end of a session  *)
(* invalidates the decks, and with them the queue, which is fetched again.  *)
Rate(rating) ==
  /\ mount # 0
  /\ session.index < Len(session.items) /\ session.phase = "answer"
  /\ session' = Rated(session, rating, now)
  /\ HandOver(rating)
  /\ fetch' = IF session'.phase = "summary" THEN Asked ELSE fetch
  /\ UNCHANGED <<now, states, cache, isError, mount, opened, started, failed, lost,
                 sessions, fresh>>

(* The summary with its two buttons; a session without results shows the    *)
(* "Nothing due" screen instead, which has neither.                         *)
SummaryShown == /\ mount # 0 /\ started /\ ~isError
                /\ session.phase = "summary" /\ session.results # << >>

(* restart: fetch the queue again, and seed a session from what is cached.  *)
StudyAgain ==
  /\ SummaryShown
  /\ Seed(cache.items)
  /\ fetch' = Asked
  /\ UNCHANGED <<now, states, cache, isError, mount, opened, boxes>>

RetryFailed ==
  /\ SummaryShown
  /\ failed[mount] # << >>
  /\ outbox' = [outbox EXCEPT ![mount] = @ \o failed[mount]]
  /\ failed' = [failed EXCEPT ![mount] = << >>]
  /\ UNCHANGED <<now, states, lost, queries, screen, history>>

(* The screen is left: its fetch is cancelled, its outbox is not. *)
Leave ==
  /\ mount # 0
  /\ mount' = 0
  /\ session' = EmptySession /\ started' = FALSE
  /\ fetch' = NoQueue
  /\ UNCHANGED <<now, states, cache, isError, opened, boxes, history>>

(* A query nobody observes is dropped from the cache after a while. *)
CacheExpires ==
  /\ mount = 0 /\ cache # NoQueue
  /\ cache' = NoQueue
  /\ UNCHANGED <<now, states, fetch, isError, screen, boxes, history>>

(* Mutant: a schedule that was not found counts as a new card's. *)
AppliedToNew(review) == ApplyAt(NewSchedule, review.rating, now)

Applied(review) == ApplyAt(states[review.card], review.rating, now)

Accepts(review) == review.duration \in 0..MaxDuration

(* The head of an outbox reaches handleReview.  When the answer to a review *)
(* that was applied is lost, it stays at the head and is submitted again.   *)
Deliver(m) ==
  /\ outbox[m] # << >>
  /\ LET review == Head(outbox[m]) IN
     IF Accepts(review)
     THEN /\ states' = [states EXCEPT ![review.card] = Applied(review)]
          /\ \/ outbox' = [outbox EXCEPT ![m] = Tail(@)] /\ UNCHANGED lost
             \/ lost < MaxLost /\ lost' = lost + 1
                /\ outbox' = [outbox EXCEPT ![m][1].again = TRUE]
          /\ UNCHANGED failed
     ELSE /\ outbox' = [outbox EXCEPT ![m] = Tail(@)]
          /\ failed' = [failed EXCEPT ![m] = Append(@, review)]
          /\ UNCHANGED <<states, lost>>
  /\ UNCHANGED <<now, queries, screen, history>>

Tick ==
  /\ now < MaxTime
  /\ now' = now + 1
  /\ UNCHANGED <<states, queries, screen, boxes, history>>

Next ==
  \/ Open \/ Leave \/ QueueAnswered \/ QueueArrives \/ QueueFails \/ Retry \/ CacheExpires
  \/ Reveal \/ StudyAgain \/ RetryFailed
  \/ \E rating \in RatingsGiven : Rate(rating)
  \/ \E m \in 1..MaxMounts : Deliver(m)
  \/ Tick

Spec == Init /\ [][Next]_vars

-----------------------------------------------------------------------------
Reviews ==
  [card : Cards, rating : RatingsGiven, duration : 0..MaxTime, shown : Items,
   session : 1..MaxSessions, again : BOOLEAN]
Results == [card : Cards, rating : RatingsGiven, duration : 0..MaxDuration]
Sessions ==
  [items : Seq(Items), index : Nat, revealedAt : 0..MaxTime \cup {Never},
   results : Seq(Results), phase : {"question", "answer", "summary"}]

TypeOK ==
  /\ now \in 0..MaxTime
  /\ states \in [Cards -> Schedule]
  /\ cache \in Queues /\ fetch \in Queues /\ cache # Asked
  /\ isError \in BOOLEAN /\ started \in BOOLEAN /\ fresh \in BOOLEAN
  /\ opened \in 0..MaxMounts /\ mount \in {0, opened}
  /\ session \in Sessions /\ handed \in Seq([card : Cards, rating : RatingsGiven])
  /\ outbox \in [1..MaxMounts -> Seq(Reviews)] /\ failed \in [1..MaxMounts -> Seq(Reviews)]
  /\ lost \in 0..MaxLost /\ sessions \in 0..MaxSessions

(* The reducer and the outbox agree on what the user did: the results are   *)
(* the ratings handed over, in order, one for each card shown so far, and   *)
(* the summary appears with the last one.                                   *)
ResultsWereSubmitted ==
  mount # 0 /\ started =>
    /\ Len(session.results) = session.index /\ Len(handed) = session.index
    /\ \A i \in 1..session.index :
         /\ session.results[i].card = session.items[i].card
         /\ session.results[i].card = handed[i].card
         /\ session.results[i].rating = handed[i].rating
    /\ session.phase = "summary" <=> session.index = Len(session.items)

(* "Refetching mid-session would reshuffle the cards under the user's       *)
(* hands": the cards of a session stay until its last one is rated, though  *)
(* the queue is fetched on opening and by every invalidation.               *)
NotReshuffled ==
  [][mount # 0 /\ mount' = mount /\ started /\ session.phase # "summary"
       => session'.items = session.items]_vars

(* The step that first applies a review writes the interval of the button   *)
(* the user pressed.                                                        *)
WritesTheLabel(m) ==
  LET review == Head(outbox[m])
  IN  states'[review.card].due =
        now + IntervalOf(review.shown.schedule, review.rating, review.shown.age)

(* The card is as old to the scheduler as it was when the label was made.   *)
SameAge(item) == item.age = Age(item.schedule, now)

FirstApplying(m) ==
  /\ outbox[m] # << >> /\ Accepts(Head(outbox[m])) /\ ~Head(outbox[m]).again
  /\ outbox'[m] # << >> => Head(outbox'[m]) # Head(outbox[m])
  /\ Len(outbox'[m]) <= Len(outbox[m])

(* "Pressing Good writes exactly the interval the button promised": the     *)
(* label was computed from the schedule the server then applies it to.      *)
PromiseKept == [][\A m \in 1..MaxMounts : FirstApplying(m) => WritesTheLabel(m)]_vars

(* The promise is kept by a session whose cards are as the server has them, *)
(* with nothing left in any outbox, until another session is begun: lost    *)
(* answers, fetches and older outboxes do not come between.  Only time may: *)
(* a review that reaches the server so late that the card has aged.         *)
FreshSessionKeepsPromise ==
  [][\A m \in 1..MaxMounts :
       FirstApplying(m) /\ fresh /\ Head(outbox[m]).session = sessions
         /\ SameAge(Head(outbox[m]).shown)
         => WritesTheLabel(m)]_vars

(* "One hour, matching the server's cap on duration_ms": the server refuses *)
(* no review for the time the user took.                                    *)
DurationsAccepted == \A m \in 1..MaxMounts : failed[m] = << >>
=============================================================================
