# A verification project for Kaart

Kaart is a flashcard program: a Go daemon (`kaartd`) that keeps decks, cards,
schedules and a review log in SQLite and schedules reviews with FSRS, and an
Expo/React Native client that studies a deck, hands ratings to an outbox and
submits them in the background. This directory holds TLA+ models of both,
translated from the source, the TLC configurations that check them, and TLAPS
proofs of the invariants that matter most. `PROJECT.json` lists, for machines,
the runs, the source lines behind every definition, the hazards and the
theorems. Paths below are relative to `src/`.

    tlc -workers 2 -config Outbox.cfg MCReviewOutbox     # one run
    tlapm CardLedgerProofs.tla                           # one module's proofs

## The system

| Part | State | Operations | Meets |
|---|---|---|---|
| **Domain and scheduler** `internal/domain`, `internal/scheduler` | none: a card's schedule goes in, the next comes out | `Preview`, `Apply`, `ReviewFrom`, `ElapsedDays`; go-fsrs does the arithmetic | called by the review and queue handlers |
| **Database** `internal/store/sqlite`, `migrations` | tables `decks`, `cards`, `card_states`, `reviews`; one pooled connection | `CreateDeck`, `CreateCard`, `UpdateCard`, `UpdateDeck`, `SetCardSuspended`, `DeleteCard`, `DeleteDeck`, `ApplyReview`, the reads; `withTx` | every handler; foreign keys cascade |
| **Handlers** `internal/api` | what one request has read so far | review, create, edit, suspend, delete, queue, stats | one goroutine per request over the shared connection; errors become statuses (`errors.go`), panics 500 (`middleware.go`) |
| **Study queue** `handleQueue`, `DueQueue` | the daily totals, two budgets, the items so far | four reads without a transaction around them | the commits of other requests between them |
| **Statistics** `handleStats`, `DeckCounts`, `NextDue`, `ReviewHistogram` | none | four reads | shown by the deck and study screens |
| **Daemon** `cmd/kaartd`, `internal/config`, `internal/clock` | the listening server, the open store | start, migrate, serve, shut down within a grace period | signals; `Close` of the store |
| **API client** `app/lib/api` | none | one function per endpoint; classifies errors | the outbox asks `retryable` |
| **Review outbox** `app/lib/reviewQueue.ts` | `queue`, `failed`, `busy`, retry timer, callers of `drain` | `enqueue`, `drain`, `retryFailed`, `flush` | server, proxy, network; the study screen holds one per mount |
| **Session reducer and study screen** `app/lib/session.ts`, `app/app/deck/[id]/study.tsx` | phase, index, results, `revealedAt`; `started` | start, reveal, rate, study again, leave | seeded from the query cache, hands ratings to the outbox |
| **Query hooks and caches** `app/lib/queries.ts` | cached answers by key, optimistic card rows | queries, mutations, invalidations | all screens |
| **Other screens, components** `app/app`, `app/components` | the fields of a form | rendering | the hooks |
| **Deployment** `deploy` | none | nginx in front of `kaartd`, systemd unit | nginx answers 502 while the daemon is down |

What makes each of them correct, and what makes that hard:

* **Database and handlers.** A card has exactly one schedule and it is the
  outcome of the last row of its log; the log is append-only and replayable; a
  suspended card does not move; a client is told what happened. Hard because a
  handler checks in one call and writes in another, because transactions fail
  half way and the process can be killed, because deletions cascade under
  requests that hold what they read, and because everybody waits for one
  connection. PATCH handlers read, edit and write whole rows.
* **Study queue.** No card twice, nothing due withheld, the daily allowance
  respected. Hard because the database moves between the four reads.
* **Outbox.** Every rating is delivered, in order, and nobody waits for ever.
  Hard because requests and answers are lost, a retry can overlap the request it
  repeats, and errors must be sorted into those worth retrying and those not.
* **Study screen.** What the user rated is what is submitted, the cards do not
  change under their hands, and a button does what its label says. Hard because
  the session, the cached queue, several outboxes and the server each have their
  own idea of a card's schedule.
* **Statistics.** Every card is due, suspended or still to come, and today's
  reviews are in the histogram. Hard because instants, local days and UTC days
  meet in one answer, and because the clocks change.
* **Caches.** What is on the screen comes to be what the server has; a rolled
  back optimistic row takes nothing else with it and leaves nothing behind. Hard
  because fetches, two creations and a change overlap and each restores, replaces
  or invalidates the whole list.
* **Daemon.** A signal ends it, whatever the requests do; the store that `Close`
  takes from under the handlers left over is consistent, and no client is told
  something else.

## The modules

| Module | Models | Size of an instance |
|---|---|---|
| `Scheduler` | domain types and the scheduler as operators | no variables |
| `CardLedger` | the database with atomic operations: the abstract specification | two cards, three instants, three reviews |
| `ReviewService` | the handlers over SQLite, one store call per step | two workers |
| `ContentEdit` | PATCH of a card and of a deck against each other, suspensions and deletions | two workers, two fields per row |
| `StudyQueue` | the four reads of `GET /queue` between other requests' commits, local days | two cards, five instants |
| `DeckStatistics` | the four reads of `GET /stats` next to the queue, over the same database | as the queue |
| `Delivery` | at-least-once delivery: the abstract specification of the outbox | as the outbox |
| `ReviewOutbox` | `createReviewQueue` with network, proxy and server | two or three reviews |
| `StudyScreen` | reducer, screen, cached queue, the outboxes of two mounts, the server | two cards, two mounts, two sessions |
| `CardCache` | the cached card lists of the app with the server they are fetched from | one list, one old and two new cards |
| `SchedulerProofs` | lemmas about the scheduler's operators, numbers and orders | any |
| `CardLedgerProofs`, `ReviewServiceProofs`, `ContentEditProofs` | theorems about the database and its handlers | any |
| `DeckStatisticsProofs` | theorems about the queue and the statistics | any |
| `ReviewOutboxProofs`, `StudyScreenProofs`, `CardCacheProofs` | theorems about the client | any |
| `MC*` | instances for TLC | |

```
Scheduler <-- CardLedger <== ReviewService        (<== : implements)
    ^-------- StudyQueue, StudyScreen, ReviewService
                  ^-- DeckStatistics
Delivery  <== ReviewOutbox            ContentEdit    CardCache
```

**Scheduler.** `States`, `Ratings` and `CardStates` are the types of
`domain.go`; `Apply`, `ReviewFrom`, `ElapsedDays` and `Preview` the functions
of `internal/scheduler`. What go-fsrs computes is external: the ladder of
learning and relearning steps is kept exactly (two steps and one, the library's
defaults), because state, lapses and remaining steps depend on it; stability,
difficulty, weights and retention are dropped, and the intervals off the ladder
are Hard < Good < Easy in whole days. `ElapsedDays` keeps its clamp: the clock
may have been set back.

**CardLedger.** The variables are the tables. An operation is one step, a review
reads, schedules and logs at once. `RemoveCards` is the cascade of
`001_init.sql`, `nextId` the AUTOINCREMENT, `used` the fact that a UUID is never
given twice. The clock of each step is any member of `Times`, in any order.

**ReviewService.** `pc[w]` is the store call a request makes next, `local[w]`
the handler's variables. `GetCard`, `GetDeck`, `GetCardState` are the reads of
`handleReview`, `ComputeReview` its work in memory, `BeginTx` … `Commit` the
statements of `withTx`/`ApplyReview`/`CreateCard` on the transaction's view
`tx`; `Rollback` is the error path of `withTx` with the status `storeError`
makes of it, `Fail` any failing call (SQL error, panic, a client that went
away). `conn` is the pool's single connection; a read is a statement that finds
it free. `Overlap` says whether clients may have two reviews of one card in
flight. `phase` is where `run` of `main.go` is: `Signal` starts `Shutdown`, which
ends by `Drained` (every handler is done) or `GraceExpires`; the latter, like
`ListenerFails`, returns from `run`, whose deferred `Close` leaves the pool with
nothing to hand out (`ConnectionFree`) while the handlers that are left go on
until `Exit`. `database/sql` lets a transaction that has its connection finish.
`Crash` is a kill, `Start` the next start.

**ContentEdit.** One card and its deck. A request carries the set of fields its
body has; a value is the stamp of the request that chose it. `Read`, `Edit`,
`Update` are the handler's three steps; `Written` is the difference between
`UpdateCard` (content columns) and `UpdateDeck` (all of them).

**StudyQueue.** `Receive`, `ReadTotals`, `ReadLearning`, `ReadReview`, `ReadNew`
and `Respond` are `handleQueue`; `Matching`, `InOrder` and `Batch` the WHERE,
ORDER BY and LIMIT of `DueQueue`. Between two steps other requests review,
create, suspend and delete. A review carries the handler's `now`, which may be up
to `Lag` behind the commit. `DayStart`/`DayEnd` are `dayBounds`: instants are
UTC, `Offset` is a zone that changes its offset once, `InstantOf` is what
`time.Date` makes of a wall time (two lookups of the offset), so that local days
are of unequal length.

**DeckStatistics** extends it by `handleStats`: `ReadCounts`, `ReadStatsTotals`,
`ReadHistogram` and `ReadNextDue` are `DeckCounts`, `ReviewTotals`,
`ReviewHistogram` and `NextDue`, with their WHERE clauses in `DueAt`, `Window`
and `NextDue`. A queue and a statistics request are not read at the same time:
neither writes, so that one reader at a time sees all there is to see.

**ReviewOutbox.** `queue`, `failed`, `busy` and `waiters` are the closure's
variables, `timer` says that a retry is scheduled. `Flush` is the part of `flush` before its `await`;
`SubmitOk`, `SubmitRefused` and `SubmitRetryable` the three ways on after it.
`call` follows the one submission through server, proxy and network; an
abandoned submission stays in `stray` and may still be applied. `Poisoned`
reviews make the server answer 500 each time. `Reload` is a reload of the page:
the outbox lives in memory, and `forgotten` records what it held.

**StudyScreen.** `Seed`, `QueueArrives`, `Reveal`, `Rate`, `StudyAgain`,
`RetryFailed`, `Leave` are the screen's effects and callbacks, `StartSession`,
`Revealed`, `Rated` and `Capped` the reducer. `cache`, `fetch`, `isError` are
what TanStack Query keeps for the queue's key. The outbox is reduced to what
`ReviewOutbox` shows it to be: it submits in order, may submit again what was
applied, and sets aside what is refused.

The labels are computed by `Preview` from a card's whole state when the queue is
read (`review.go:76`), the schedule by `Apply` from the card's state when the review
arrives (`review.go:172`). A queue item therefore carries all of `Schedule`, with a
`stability` that every review changes, and the `age` go-fsrs was told; `ApplyAt` and
`IntervalOf` take the state, the steps, the stability and the age. What FSRS makes of
stability and difficulty in numbers is one number here, larger the longer and the
better a card was remembered. `Studied` cards begin as cards in Review that are
due, so that reviews, lapses and cards rated before they age are all in the instance;
`AgeUnit` is the unit in which go-fsrs counts the time since the last review.

**CardCache.** `list`, `stale`, `isError` and `fetch` are what TanStack Query keeps
per key. `Save`, `CreateSucceeds` and `CreateFails` are `onMutate`, `onSettled`
and `onError` of `useCreateCard`; `AskChange` … `ChangeFails` suspension, deletion
and editing (`useUpdateCard`), which invalidate on success only; an edit changes the
text of a row, which the model does not tell, and the lists are fetched for it all
the same. The query library is modelled from
how the hooks use it: `cancelQueries` returns a query to what it was before its
fetch, `setQueryData` makes it fresh, `invalidateQueries` marks what is cached and
fetches what is watched again, except for a first load, which goes on
(`Continued`). A request whose client gave up may still reach the server
(`StrayCreation`, `StrayChange`); `missed` marks lists that nothing told.

## What the runs show

A run that passes is exhaustive for its instance; a run marked *violated* finds
a behaviour of the code that contradicts what a document or comment says of it.

| Run | Question | Answer |
|---|---|---|
| `ledger` | Are the abstract operations consistent: a schedule for each card, counters that agree with the log, cards introduced once, a log that can be replayed, suspended cards frozen? | yes |
| `service_overlap` | What survives two handlers interleaved call by call, both reviewing the same card if they like, with failures, crashes, shutdowns and a clock that is set? | schedule and log stay together (`StateIsLastRow`), suspended cards are frozen although the handler looked earlier, answers are truthful |
| `service_serial` | With one review per card in flight, do the handlers implement `CardLedger`, is everyone answered, and does a signal end the process? | yes |
| `service_lost_update` | Does `reps` count the reviews in any case? | *violated*: two reviews in flight at once |
| `edit` | What does a PATCH change? | only what it was asked to, unless the row was written in between; never a card's suspension; 200 means written, an error means not |
| `queue` | Are the queue and the statistics right although the database moves between their reads and the clocks change? | no card twice, nothing due withheld, overrun bounded by what raced, allowances counted by the date on the wall; every card accounted for, today's reviews charted but for a day longer than the window |
| `card_cache` | Do the cached lists agree with the server in the end? | yes, unless a change reached the server that nothing told the list of; no late fetch hides a new row; a list on the screen settles |
| `outbox` | Is every review delivered, in order, and does every wait end, also with a review the server can never handle and a reload? | yes, under the fairness below, except what a reload forgets and what waits behind the poisoned review |
| `outbox_outage` | Does killing `kaartd` never cost a review? | *violated*: nginx's 502 is taken for a permanent refusal |
| `screen` | Are results and submissions the same; do cards stay; does a session seeded from a current queue keep the buttons' promise, for new cards and for cards in review? | yes, unless a review arrives so late that its card has aged |
| `screen_promise` | Does every session keep it? | *violated*: sessions seeded from the cached queue |
| `screen_duration` | Does the server accept every review for its duration? | *violated*: the time handed to the outbox is not capped |

### The findings

1. **Lost update** (`internal/api/review.go:162`). `ApplyReview` checks
   existence and suspension again inside its transaction, not the schedule.
   A retry of a submission whose first request is still being handled, or the
   outboxes of two mounts, put two reviews of a card in flight; both rows are
   logged, one schedule survives. What still holds then is `StateIsLastRow`.
2. **A proxy's answer sets reviews aside** (`app/lib/api/client.ts:73`). The
   user can still press *Try again* on the summary; leaving the screen loses
   the review.
3. **Stale previews** (`app/app/deck/[id]/study.tsx:76`). The seeding effect
   takes what is cached although a refetch is under way.
   `FreshSessionKeepsPromise` says when the promise holds.
4. **Uncapped duration** (`app/app/deck/[id]/study.tsx:107`). A review that
   took more than an hour can never be submitted.

Limits the passing runs state rather than refute:

* **The allowance of new cards can be overrun** (`internal/api/review.go:47`): a
  new card reviewed between the totals and the third query is counted in neither.
  `OverrunBounded` says by how much at most.
* **Days without a midnight, or with two** (`internal/api/server.go:158`).
  `AllowanceFollowsLocalDate` holds on the instance of `Queue.cfg`, a day one hour
  longer with one midnight, and on one whose skipped midnight `time.Date` moves
  forward. It does not hold with `OffsetBefore` -1, `OffsetAfter` 0 and the change
  at midnight: west of Greenwich a skipped midnight comes out one hour early, and
  the last hour of the eve counts for the next date. Nor where midnight
  occurs twice east of Greenwich. A .cfg has no negative numbers, so that the
  first is not a run.
* **A day longer than the window** (`internal/api/review.go:222`). The histogram
  goes back whole UTC days from the end of today. With `?days=1`, on the day of 25
  hours, it does not reach today's beginning: the reviews of the first hour are in
  `reviews_today` and in no bar. `TodayIsCharted` excepts just this.
* **A list the server changed behind** (`app/lib/queries.ts:210`). A suspension or
  deletion whose answer is lost, or a creation that was given up and applied
  later, is not invalidated for; nor does a first load start again after one.
  These are the `missed` lists of `QuietListIsServers`; the next fetch repairs
  them. For the same reason the add screen's "The card was removed from the list"
  may be contradicted by the next fetch.
* **A review that arrives late.** `Apply` counts the days since the last review when
  the review is applied (`internal/api/review.go:172`), the label counted them when
  the queue was read (`internal/api/review.go:76`). A review that waited in the outbox
  until the card was older to go-fsrs writes another interval, in any session.
  `FreshSessionKeepsPromise` excepts just this (`SameAge`). It is about one client
  and fixed settings: a change of the deck's retention or weights, or another
  client's review, would also come between.
* **Two PATCHes of one row.** Each writes back what it read over the columns its body
  does not name (`internal/api/cards.go:141`, `internal/api/decks.go:139`), so that of
  two at once the first one's change can be undone, an archiving too.
  `docs/api.md:12` says that an omitted field is left alone. `OnlyWhatWasAsked` is about
  copies that are not `stale` and does not deny this; a card's suspension survives
  in any case (`EditKeepsSuspension`).
* **A reload forgets the outbox.** `NothingLost` and `Delivery` have `forgotten`
  for it; what was in flight may still be applied.

The comment at `app/lib/reviewQueue.ts:12` calls submission strictly ordered.
`retryFailed` puts what was set aside behind everything else, so the order holds
until the first retry, which is what `OrderUntilRetried` states.

### Bounds, and why they are enough

* **Cards, decks, workers.** Requests about different cards share only the
  connection and, through cascades, the deck: two workers and one or two cards
  show every pair of handlers on one row. The ledger has two cards so that one's
  deletion can disturb the other's rows, counters and ids.
* **Reviews.** Two of one card are enough to lose an update; three take a card
  from New over the ladder to Review and into a lapse (Easy, Again, and one more
  on the ladder), which `LogReplays` and `RepsCountReviews` need. In the outbox
  three reviews give one in flight, one behind it and one set aside.
* **Times.** Two or three instants in any order give a clock that advances and
  one that is set back. `service_serial` keeps the clock still: what it asks
  does not depend on it, and `service_overlap` moves it. `Queue.cfg` has five
  instants and days of two, one of them of three, so that the queue is assembled
  across midnight and across the change of the clocks; its clock is monotone and
  `Lag < DayLength`. Cards are created at the first instant only
  (`LastCreation`), which still puts a creation between any two reads.
* **Outbox.** One poisoned review among three stands first, in the middle or
  last; one reload shows what a second would. `outbox_outage` needs neither.
* **Cache.** Two creations overlap in either order of answers, one card is also edited,
  suspended and deleted, and one list is watched or not. Lists interact only by
  the loops over all keys, which treat each alike.
* **Screen.** Two mounts and two sessions are the least in which an older
  outbox, a cached queue or a lost answer can interfere (`MaxMounts`,
  `MaxSessions`, `MaxLost`). One card is new, so that one Good leaves it on the
  ladder, the other in review and due; with a day of two ticks and an `AgeUnit` of
  two, between instants 2 and 4, the card in review ages while a review of it waits;
  rated Again it is soon due again, rated Good it comes back from the cached queue
  only, with the label of its old stability.
* **Edits.** Three stamps: two PATCHes and a suspension, or three PATCHes.

`CHECK_DEADLOCK FALSE` stands where a bound stops the system (counters used up,
every review given) or where an idle system is simply done.

### Fairness

* `ReviewService`: strong fairness of each worker's `Handle`. The pool gives the
  freed connection to one of those waiting, in order; a goroutine whose call can
  run again and again is not passed over for ever. Weak fairness of the end of the
  grace period, which is a timer, and of `Exit`: `main` returns. Clients, failures,
  crashes, signals and the clock are under no obligation.
* `ReviewOutbox`: weak fairness of the retry timer and of the settling of the
  promise in flight (the event loop and the network stack: every fetch settles,
  at the latest when its connection fails). Strong fairness that attempts made
  for ever are some day handled by a `kaartd` that is back, and some answer gets
  through, while no poisoned review stands first. Without the last two nothing
  can be promised: the client retries a failing server without limit.
  `EventuallySettled` and `DrainResolves` except a poisoned review that stands
  first for ever, `DrainResolves` also a user who presses *Try again* for ever on a
  review that is refused each time.
* `CardCache`: weak fairness of the fetches, which are answered or fail. Mutations
  and the user are under no obligation.
* The other runs check safety only.

## What is proved

TLAPS checks the following for all values of the constants.

`CardLedgerProofs`, under `LedgerAssumption` (instants are natural numbers) and
`DayLengthAssumption` (a day is a positive length): `TypeCorrect`,
`ScheduleAlwaysExists`, `RepsAlwaysCountReviews`, `AlwaysIntroducedOnce`,
`LogIsAppendOnly`, `SuspendedStayFrozen`. The argument is the inductive
invariant `IInv`. That `reps` counts log rows is not inductive by itself: a
review adds one to the counter and one row to a *set*, so the row must be new,
which needs ids below `nextId`, and the set must be finite for its cardinality to
grow by one. That a card is introduced once needs `NewUntilReviewed`: a schedule
is New just while its card has no rows, and `Apply` never returns to New
(`ApplyType`, in `SchedulerProofs`). One lemma per operation shows that it keeps
`IInv`; the two action properties follow from it step by step.

`ReviewServiceProofs`, under `ServiceAssumption` (finitely many workers, instants
are natural numbers): `TypeCorrect`, `ScheduleAlwaysExists`, `StateAlwaysLastRow`,
`SuspendedStayFrozen`, `AnswersAreTruthful` for any interleaving, and, when no two
reviews of a card overlap (`~Overlap`), `HandlersImplementLedger` and
`RepsAlwaysCountReviews`. What a commit publishes was assembled over several steps,
so `IInv` says at each `pc` what a handler holds (`ReviewOK`, `CreateOK`) and what
its transaction sees: the committed tables with what it has written so far
(`ReviewView`, `CreateView`). That view stays right because only the owner of the
connection writes. A schedule read outside the transaction stays right only without
overlap: `Current` is that hypothesis, `ComputedFrom` what the computed schedule
then is worth, and `CommitIsLedgerStep` turns it into the one step of the ledger. A
card that was deleted does not come back because ids are `used` once; two creations
never share one (`Apart`). `StateAlwaysLastRow` needs no such hypothesis: the
schedule and the row that are written belong together whatever they were computed
from (`OutcomeOf`, which needs at most two remaining steps). `LocalStep` is the
frame: a step that leaves the database alone can only spoil its own worker's
part. `RepsAlwaysCountReviews` is not proved again: it follows from the refinement
and the theorem of the same name about the ledger.

`ReviewOutboxProofs`, under `OutboxAssumption` (poisoned reviews are reviews,
`MaxReloads` a number): `TypeCorrect`, `OutboxNeverStalls`, `DrainsOnlyAwaitWork`,
`NothingIsLost`, `AcceptedWereApplied`, `OrderHoldsUntilRetried`,
`OutboxImplementsDelivery`. `IInv` adds to the invariants that the review in
flight is still the head of the queue and, once the server has applied one, that
very review: `SubmitOk` settles `Head(queue)`, and only that makes it safe.
`NothingLost` carries the injectivity of both queues, without which removing the
head could leave a copy behind. Lemmas about `Head`, `Tail`, `Append` and
concatenation of injective sequences come first. The refinement maps each review
to where it is (`Fate`); each action has a lemma that names the step of
`Delivery` it is, and needs `StrayWasRated` for a submission that is applied after
its client gave up. The order needs `InOrder`: until the first retry the queue is
the end of `rated`, and nothing behind its head has been submitted.

`ContentEditProofs`, under `EditAssumption`: `TypeCorrect`,
`CardEditsKeepSuspension`, `EditsChangeWhatWasAsked`, `EditAnswersAreTruthful`.
That a suspension survives an edit follows from the columns `UpdateCard` writes,
step by step. That an edit changes only what it names is an invariant of the copy:
a worker that is not `stale` holds the row as it is and, once it has edited, the
row as it is with its request applied (`CopyIsCurrent`); that a 200 means what was
asked for rests on a copy about to be written having the values of its request
(`CopyIsEdited`).

`DeckStatisticsProofs`, under `QueueAssumption` and `StatisticsAssumption` (card ids
are ordered, numbers are numbers, a request lags less than a day), is about
`StatsSpec`, the queue with the statistics next to it. `StatisticsOnlyRead` shows that
`handleStats` is a stutter to the queue, so that what is proved of `Spec` carries
over.

* `NoCardIsServedTwice` rests on `SessionInv`. No query knows what the one before it
  found; what keeps a card from being found again is its *state*. A review only
  takes a card away from New, and from the ladder's states to Review with a due date
  behind the request's `now` (`Rescheduled`, one lemma per commit), so that whatever
  an earlier query returned fails the later queries' WHERE clause, deleted or not
  (`ServedInv`). `InOrderFacts` shows that sorting by `due, created_at, id` is
  possible and lists each row once, `BatchFacts` what `Batch` keeps of it.
* `AllowanceIsKept` and `AllowanceIsByLocalDate` need `DayIsADate`: the interval of
  `dayBounds` is exactly one local date. That is not so of every zone (see *Limits*
  above), and `ChangeWithinADay` is the hypothesis under which it is: the offset
  does not change, or changes neither at midnight nor onto another date. A change
  between one and three in the morning, as in nearly all of Europe and North America,
  is like this, one at midnight, as in the Azores, is not; `Queue.cfg` satisfies it. `BudgetInv` then says that the budget a request still has, the cards
  introduced on its date and those that raced it add up to no more than the
  allowance.
* `NoDueCardIsWithheld` keeps, query by query and while nothing else is committed,
  what has been left out and why (`LearningRead`, `ReviewsRead`, `NewRead` in
  `FairInv`): the budget of review cards is spent by two queries and is a limit of
  both.
* `StatisticsTypeCorrect`, `StatisticsAddUp` and `TodayIsInTheBars` rest on `StatInv`:
  while nothing is committed each read is the database's. That due, suspended and
  coming cards are the whole deck is a count of three disjoint sets; that the bars hold
  today's reviews is a fact about `SumFunction`, which is itself defined by recursion
  (`SumExists`, `BarsAddUp`); that they are few (`BarsAreFew`) one about UTC days.
  These two theorems, and `NoCardIsServedTwice`, need no hypothesis about the zone.

`StudyScreenProofs`, under `ScreenAssumption`: `ScreenTypeCorrect`,
`SummaryIsWhatWasSubmitted`, `SessionKeepsItsCards`, `FreshPromiseIsKept`. The first
three rest on how far a session is: index, phase, results and what was handed over
keep pace (`ProgressInv`), so that a key pressed once more after the last card finds
a phase in which it does nothing; a press and the render that follows it are one step
of the model. The promise needs
`FreshInv`: from the seeding on, a review on its way that the server will accept was
labelled from its card's present schedule, the whole of it, there is no second such
review of that card, in any outbox, and the cards yet to be shown are as the server
has them. The schedule being the same and the age too (`SameAge`), so is the interval,
whatever FSRS computes: of `Stability` and `IntervalOf` the proof uses only that they
are functions to the natural numbers. Reviews
the server will refuse do not count, which is why `RefusedInv` must say that what
was refused once is refused again: *Try again* puts them back into an outbox.

`CardCacheProofs`, under `CacheAssumption`: `CacheTypeCorrect`,
`QuietListsAreTheServers`, `AddedRowsStay`. `CurrentInv` holds only while no
mutation owes the lists an invalidation (`NothingOwed`), and says of answers in
flight what it says of the lists; every mutation ends by invalidating whatever it
may have made wrong, or by marking it `missed`. `KnowsInv` is the order of
`onMutate`: the cancellation comes before the row, so that a fetch in flight was
sent after every creation that has begun.

**Replaying the log.** `LogAlwaysReplays` completes `CardLedgerProofs`. `Replayed`
recurs over the ids of the log, and the library's induction theorems cannot be
applied by the provers installed; what is needed of it (there is exactly one
replay of each length, a later row does not change it, none leaves the first
schedule) is proved instead by taking the *least* id for which it would not hold
(`LeastOf`). `ReplayInv` is then inductive with `IInv`: a review adds the last row,
whose replay is the schedule it was applied to; a deletion takes all rows of a
card; a suspension does not touch what a replay starts from. The sums of the
histogram and the existence of an order are proved in the same way.

Only model-checked: liveness (`EventuallySettled`, `DrainResolves`,
`RequestAnswered`, `StopsWhenTold`, `ListSettles`), which rests on fairness and on
ENABLED and is out of TLAPS's reach here. Every safety property of a passing run is
proved.

## What is left out

* The numbers of FSRS: stability, difficulty, weights and retention. `Scheduler` and
  what builds on it keep only the order of the intervals, which is all that their
  properties tell apart; `StudyScreen`, whose labels depend on them, keeps one number
  for stability and difficulty and the time since the last review. Fuzz is off in
  the code.
* Text: JSON, validation, timestamps as text, labels, layout. A request is
  refused or not. Timestamps are instants; that their fixed-width layout orders
  like time is taken from `sqlite.go`.
* The length of the outbox's backoff: any delay is possible.
* A proxy that answers 2xx in `kaartd`'s place.
* The confirmation asked before leaving a session that has begun: `Leave` is
  what follows a yes.
* Two key presses before the next render: React flushes the first before it handles
  the second, and the model takes both for granted in that order.
* Search and paging of the card lists, the totals shown, and the order of rows.
* The forms of the editors, the text of a card in the lists; the caches of decks, single cards and statistics.
* `ListDecks`, `GetDeck`, `GetCard` as endpoints, which read one row or one table;
  flags and the environment file; scripts under `deploy`.

## Plan

Done, in this order: `Scheduler`, `CardLedger` with its proofs; `ReviewService`;
`Delivery`, `ReviewOutbox` with its proofs; `StudyQueue`; `StudyScreen`;
`ContentEdit`; then reloads and poisoned reviews in the outbox, its refinement
and order proved; the daemon's shutdown in `ReviewService`; local days and
`DeckStatistics`; `CardCache`; the proofs of `ContentEdit` and of
`ReviewService`, with its refinement; the proofs of `StudyQueue` and
`DeckStatistics`, of `StudyScreen` and of `CardCache`, and that of the replayed log.

To model next: `EndToEnd`, the outbox over `ReviewService`, with retries that
overlap and mounts that do; at-least-once application against
`RepsCountReviews`.

To prove next: that `RepsAlwaysCountReviews` carries over to that composition when
no two mounts study the same deck.
