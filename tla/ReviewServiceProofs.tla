-------------------------- MODULE ReviewServiceProofs --------------------------
(* Proofs about ReviewService for any number of workers, cards and decks.   *)
EXTENDS ReviewService, SchedulerProofs, FiniteSetTheorems

Proved == INSTANCE CardLedgerProofs      \* the ledger, with its theorems

-----------------------------------------------------------------------------
(* What a request in flight holds. *)
Reviewing(w) == req[w].op = "review"
Creating(w)  == req[w].op = "create"

ReviewCalls == {"getCard", "getDeck", "getState", "apply",
                "begin", "check", "upsert", "append", "commit", "respond"}
CreateCalls == {"begin", "deckExists", "insertCard", "upsert", "commit", "respond"}
Computed    == {"begin", "check", "upsert", "append", "commit"}

(* The schedule and the row were computed from the schedule the card has.   *)
ComputedFrom(w, st) ==
  \E at \in Times :
    /\ local[w].after = Apply(st, req[w].rating, at)
    /\ local[w].logRow = [ReviewFrom(req[w].card, st, req[w].rating, at)
                            EXCEPT !.id = local[w].logRow.id]

(* Nobody else has changed the schedule, when nobody else may. *)
Current(c) == ~Overlap /\ c \in DOMAIN states

ReviewOK(w) ==
  LET c == req[w].card IN
  /\ req[w] \in [op : {"review"}, card : Cards, rating : SubmitRatings]
  /\ pc[w] \in ReviewCalls
  /\ pc[w] # "respond" => req[w].rating \in Ratings
  /\ pc[w] \notin {"getCard", "respond"} => c \in used
  /\ pc[w] = "apply" =>
       /\ local[w].before \in CardStates
       /\ local[w].before.steps \in 0..2
       /\ Current(c) => local[w].before = states[c]
  /\ pc[w] \in Computed =>
       /\ local[w] \in [after : CardStates, logRow : LogRows(used)]
       /\ local[w].after.steps \in 0..2
       /\ local[w].logRow.card = c
       /\ OutcomeOf(local[w].after, local[w].logRow)
       /\ Current(c) => ComputedFrom(w, states[c])

CreateOK(w) ==
  /\ req[w] \in [op : {"create"}, card : Cards, deck : Decks]
  /\ pc[w] \in CreateCalls
  /\ pc[w] # "respond" =>
       /\ req[w].card \notin used
       /\ local[w].at \in Times
       /\ local[w].after = NewCardState(local[w].at)

RequestOK(w) ==
  \/ pc[w] = "idle" /\ req[w] = NoRequest
  \/ ReviewOK(w)
  \/ CreateOK(w)

(* The transaction's view: what is committed, with what was written so far. *)
Put(f, c, v) == [x \in DOMAIN f \cup {c} |-> IF x = c THEN v ELSE f[x]]

ReviewView(w) ==
  LET c == req[w].card IN
  /\ tx = [cards   |-> cards,
           states  |-> IF pc[w] \in {"append", "commit"}
                       THEN Put(states, c, local[w].after) ELSE states,
           reviews |-> IF pc[w] = "commit" THEN reviews \cup {local[w].logRow} ELSE reviews,
           nextId  |-> IF pc[w] = "commit" THEN nextId + 1 ELSE nextId]
  /\ pc[w] # "check" => c \in DOMAIN cards /\ ~cards[c].suspended
  /\ pc[w] = "commit" => local[w].logRow.id = nextId

NewRow(w) == [deck |-> req[w].deck, suspended |-> FALSE, created |-> local[w].at]

CreateView(w) ==
  LET c == req[w].card IN
  /\ tx = [cards   |-> IF pc[w] \in {"upsert", "commit"}
                       THEN Put(cards, c, NewRow(w)) ELSE cards,
           states  |-> IF pc[w] = "commit" THEN Put(states, c, local[w].after) ELSE states,
           reviews |-> reviews,
           nextId  |-> nextId]
  /\ pc[w] # "deckExists" => req[w].deck \in decks

ViewOK(w) == conn = w => IF Reviewing(w) THEN ReviewView(w) ELSE CreateView(w)

(* Requests in flight at once are about different cards, as far as that is  *)
(* promised.                                                                *)
Apart ==
  \A v, w \in Workers : v # w =>
    /\ Creating(v) /\ Creating(w) => req[v].card # req[w].card
    /\ ~Overlap /\ Reviewing(v) /\ Reviewing(w) => req[v].card # req[w].card

(* The tables, and the log with the schedules. *)
StoreOK ==
  /\ Ledger!TypeOK
  /\ Ledger!ScheduleExists
  /\ \A c \in DOMAIN states : states[c].steps \in 0..2
  /\ \A rv \in reviews : rv.id < nextId
  /\ StateIsLastRow

(* What each call may rely on when its turn comes. *)
HandlersOK ==
  /\ TypeOK
  /\ req = [w \in Workers |-> req[w]]
  /\ local = [w \in Workers |-> local[w]]
  /\ \A w \in Workers : RequestOK(w) /\ ViewOK(w)
  /\ Apart

IInv == StoreOK /\ HandlersOK

(* Reviews not committed yet, with those that are, stay within the bound. *)
Unlogged == {w \in Workers : Reviewing(w) /\ pc[w] # "respond"}
WithinBound == nextId + Cardinality(Unlogged) <= MaxReviews + 1
-----------------------------------------------------------------------------
(* The ledger is an instance, with its own copies of the scheduler's        *)
(* operators: they are the same operators.                                  *)
LEMMA SameNumbers ==
  /\ Ledger!Ratings = Ratings
  /\ Ledger!RatingAgain = RatingAgain /\ Ledger!RatingHard = RatingHard
  /\ Ledger!RatingGood = RatingGood /\ Ledger!RatingEasy = RatingEasy
  /\ Ledger!States = States
  /\ Ledger!StateNew = StateNew /\ Ledger!StateLearning = StateLearning
  /\ Ledger!StateReview = StateReview /\ Ledger!StateRelearning = StateRelearning
  /\ Ledger!Never = Never
  /\ Ledger!CardStates = CardStates
  /\ \A S : Ledger!LogRows(S) = LogRows(S)
BY DEF Ledger!Ratings, Ratings, Ledger!RatingAgain, RatingAgain, Ledger!RatingHard, RatingHard,
   Ledger!RatingGood, RatingGood, Ledger!RatingEasy, RatingEasy, Ledger!States, States,
   Ledger!StateNew, StateNew, Ledger!StateLearning, StateLearning, Ledger!StateReview,
   StateReview, Ledger!StateRelearning, StateRelearning, Ledger!Never, Never,
   Ledger!CardStates, CardStates, Ledger!LogRows, LogRows

LEMMA SameElapsed ==
  ASSUME NEW last, NEW at PROVE Ledger!ElapsedDays(last, at) = ElapsedDays(last, at)
  BY SameNumbers DEF Ledger!ElapsedDays, ElapsedDays

LEMMA SameApply ==
  ASSUME NEW st, NEW rating, NEW at
  PROVE  /\ Ledger!NewCardState(at) = NewCardState(at)
         /\ Ledger!Apply(st, rating, at) = Apply(st, rating, at)
         /\ \A c : Ledger!ReviewFrom(c, st, rating, at) = ReviewFrom(c, st, rating, at)
<1>1. Ledger!StepsLeft(st) = StepsLeft(st)
  BY SameNumbers DEF Ledger!StepsLeft, StepsLeft, Ledger!LadderSteps, LadderSteps
<1>2. /\ Ledger!Graduates(st, rating) <=> Graduates(st, rating)
      /\ Ledger!Lapses(st, rating) <=> Lapses(st, rating)
  BY <1>1, SameNumbers DEF Ledger!Graduates, Graduates, Ledger!Lapses, Lapses
<1>3. Ledger!NextState(st, rating) = NextState(st, rating)
  BY <1>2, SameNumbers DEF Ledger!NextState, NextState
<1>4. Ledger!NextSteps(st, rating) = NextSteps(st, rating)
  BY <1>1, <1>2, <1>3, SameNumbers
  DEF Ledger!NextSteps, NextSteps, Ledger!LadderSteps, LadderSteps
<1>5. Ledger!ScheduledDays(st, rating) = ScheduledDays(st, rating)
  BY <1>3, SameNumbers DEF Ledger!ScheduledDays, ScheduledDays
<1>6. Ledger!Interval(st, rating) = Interval(st, rating)
  BY <1>3, <1>5, SameNumbers DEF Ledger!Interval, Interval
<1> QED
  BY <1>2, <1>3, <1>4, <1>5, <1>6, SameElapsed, SameNumbers
  DEF Ledger!NewCardState, NewCardState, Ledger!Apply, Apply, Ledger!ReviewFrom, ReviewFrom

Tables ==
  /\ decks \subseteq Decks
  /\ used \subseteq Cards
  /\ nextId \in Nat
  /\ DOMAIN cards \subseteq used
  /\ cards \in [DOMAIN cards -> [deck : Decks, suspended : BOOLEAN, created : Nat]]
  /\ states \in [DOMAIN states -> CardStates]
  /\ reviews \subseteq LogRows(used)

LEMMA LedgerTypes ==
  (Ledger!TypeOK <=> Tables) /\ (Ledger!TypeOK' <=> Tables')
BY SameNumbers DEF Ledger!TypeOK, Ledger!CardRows, Tables

(* What Apply makes of a schedule, with the row logged for it, is what      *)
(* StateIsLastRow says of a schedule and its last row.                      *)
LEMMA ApplyOutcome ==
  ASSUME NEW c, NEW st \in CardStates, st.steps \in 0..2, NEW rating \in Ratings,
         NEW at \in Nat
  PROVE  /\ Apply(st, rating, at).steps \in 0..2
         /\ OutcomeOf(Apply(st, rating, at), ReviewFrom(c, st, rating, at))
<1> DEFINE before == [state |-> st.state, steps |-> st.steps]
<1>1. /\ NextState(before, rating) = NextState(st, rating)
      /\ Interval(before, rating) = Interval(st, rating)
  BY DEF NextState, Interval, ScheduledDays, Graduates, Lapses, StepsLeft
<1>2. NextSteps(st, rating) \in 0..2
  BY DEF NextSteps, Graduates, StepsLeft, LadderSteps, Ratings, RatingAgain, RatingGood,
     RatingHard, RatingEasy
<1> QED
  BY <1>1, <1>2 DEF OutcomeOf, Apply, ReviewFrom

(* The request of a worker that does not move stays as good as it was.      *)
LEMMA RequestKept ==
  ASSUME NEW v \in Workers, RequestOK(v), used \subseteq used',
         pc'[v] = pc[v], req'[v] = req[v], local'[v] = local[v],
         Creating(v) /\ pc[v] # "respond" => req[v].card \notin used',
         Reviewing(v) /\ req[v].card \in used /\ Current(req[v].card)' =>
           Current(req[v].card) /\ states'[req[v].card] = states[req[v].card]
  PROVE  RequestOK(v)'
<1>1. CASE pc[v] = "idle" /\ req[v] = NoRequest
  BY <1>1 DEF RequestOK
<1>2. CASE ReviewOK(v)
  <2>1. Reviewing(v)
    BY <1>2 DEF ReviewOK, Reviewing
  <2>2. LogRows(used) \subseteq LogRows(used')
    BY DEF LogRows
  <2>3. ReviewOK(v)'
    BY <1>2, <2>1, <2>2 DEF ReviewOK, ComputedFrom, OutcomeOf, Computed
  <2> QED
    BY <2>3 DEF RequestOK
<1>3. CASE CreateOK(v)
  BY <1>3 DEF RequestOK, CreateOK, Creating
<1> QED
  BY <1>1, <1>2, <1>3 DEF RequestOK

-----------------------------------------------------------------------------
(* A step of one worker that leaves the committed database alone: it moves, *)
(* it takes the connection when that is free, or keeps or frees its own.    *)
MovesOnly(w) ==
  /\ UNCHANGED <<db, env>>
  /\ phase # "down"
  /\ \E call \in Calls \cup {"idle", "respond"} : pc' = [pc EXCEPT ![w] = call]
  /\ UNCHANGED req \/ \E r : req' = [req EXCEPT ![w] = r]
  /\ UNCHANGED local \/ \E l : local' = [local EXCEPT ![w] = l]
  /\ status' \in [Workers -> {0, 200, 201, 400, 404, 409, 500}]
  /\ \/ UNCHANGED <<conn, tx>>
     \/ conn \in {w, NoWorker} /\ conn' = w
     \/ conn = w /\ Release
  /\ conn' = w <=> pc'[w] \in TxCalls

(* Such a step keeps the invariant when it keeps the worker's own part.     *)
LEMMA LocalStep ==
  ASSUME IInv, NEW w \in Workers, MovesOnly(w), RequestOK(w)', ViewOK(w)', Apart'
  PROVE  IInv'
<1>1. StoreOK'
  <2>1. StoreOK /\ UNCHANGED db
    BY DEF IInv, MovesOnly
  <2> QED
    BY <2>1 DEF db, StoreOK, Ledger!TypeOK, Ledger!ScheduleExists, StateIsLastRow
<1>2. \A v \in Workers \ {w} :
        /\ pc'[v] = pc[v] /\ req'[v] = req[v] /\ local'[v] = local[v]
        /\ conn' = v <=> conn = v
        /\ conn = v => tx' = tx
  <2>1. pc \in [Workers -> Calls \cup {"idle", "respond"}]
    BY DEF IInv, HandlersOK, TypeOK
  <2>2. req = [v \in Workers |-> req[v]]
    BY DEF IInv, HandlersOK
  <2>3. local = [v \in Workers |-> local[v]]
    BY DEF IInv, HandlersOK
  <2>4. \A v \in Workers \ {w} : pc'[v] = pc[v]
    BY <2>1 DEF MovesOnly
  <2>5. \A v \in Workers \ {w} : req'[v] = req[v]
    BY <2>2 DEF MovesOnly
  <2>6. \A v \in Workers \ {w} : local'[v] = local[v]
    BY <2>3 DEF MovesOnly
  <2>7. \A v \in Workers \ {w} : conn' = v <=> conn = v
    BY ServiceAssumption DEF MovesOnly, Release
  <2>8. \A v \in Workers \ {w} : conn = v => tx' = tx
    BY ServiceAssumption DEF MovesOnly, Release
  <2> QED
    BY <2>4, <2>5, <2>6, <2>7, <2>8
<1>3. ASSUME NEW v \in Workers \ {w} PROVE RequestOK(v)'
  <2>1. RequestOK(v) /\ UNCHANGED db
    BY DEF IInv, HandlersOK, MovesOnly
  <2>2. Creating(v) /\ pc[v] # "respond" => req[v].card \notin used
    BY <2>1 DEF RequestOK, ReviewOK, CreateOK, Creating, NoRequest
  <2> QED
    BY <1>2, <2>1, <2>2, RequestKept DEF db, Current
<1>4. ASSUME NEW v \in Workers \ {w} PROVE ViewOK(v)'
  <2>1. ViewOK(v) /\ UNCHANGED db
    BY DEF IInv, HandlersOK, MovesOnly
  <2> QED
    BY <1>2, <2>1 DEF db, ViewOK, ReviewView, CreateView, Reviewing, NewRow
<1>5. TypeOK'
  <2>1. Ledger!TypeOK' /\ now' \in Times /\ phase' = phase /\ phase # "down"
    BY <1>1 DEF StoreOK, MovesOnly, env, IInv, HandlersOK, TypeOK
  <2>2. pc' \in [Workers -> Calls \cup {"idle", "respond"}]
    BY DEF MovesOnly, IInv, HandlersOK, TypeOK
  <2>3. \A v \in Workers : conn' = v <=> pc'[v] \in TxCalls
    BY <1>2 DEF MovesOnly, IInv, HandlersOK, TypeOK
  <2>4. conn' = NoWorker => tx' = NoTx
    BY ServiceAssumption DEF MovesOnly, Release, IInv, HandlersOK, TypeOK
  <2>5. status' \in [Workers -> {0, 200, 201, 400, 404, 409, 500}]
    BY DEF MovesOnly
  <2>6. conn' \in Workers \cup {NoWorker}
    BY DEF MovesOnly, Release, IInv, HandlersOK, TypeOK
  <2> QED
    BY <2>1, <2>2, <2>3, <2>4, <2>5, <2>6 DEF TypeOK, IInv, HandlersOK
<1>6. /\ req' = [v \in Workers |-> req'[v]]
      /\ local' = [v \in Workers |-> local'[v]]
  BY DEF MovesOnly, IInv, HandlersOK
<1> QED
  BY <1>1, <1>3, <1>4, <1>5, <1>6 DEF IInv, HandlersOK

(* A request in flight keeps the process up. *)
LEMMA InFlight ==
  ASSUME IInv, NEW w \in Workers, pc[w] # "idle"
  PROVE  /\ phase # "down"
         /\ \/ ReviewOK(w) /\ Reviewing(w)
            \/ CreateOK(w) /\ Creating(w) /\ ~Reviewing(w)
         /\ conn = w <=> pc[w] \in TxCalls
         /\ ViewOK(w)
<1>1. phase # "down" /\ (conn = w <=> pc[w] \in TxCalls) /\ ViewOK(w)
  BY DEF IInv, HandlersOK, TypeOK, Busy
<1>2. ReviewOK(w) \/ CreateOK(w)
  BY DEF IInv, HandlersOK, RequestOK
<1>3. ReviewOK(w) => Reviewing(w)
  BY DEF ReviewOK, Reviewing
<1>4. CreateOK(w) => Creating(w) /\ ~Reviewing(w)
  BY DEF CreateOK, Creating, Reviewing
<1> QED
  BY <1>1, <1>2, <1>3, <1>4

(* Giving an answer, with the transaction rolled back if there was one.     *)
LEMMA AnswerStep ==
  ASSUME IInv, NEW w \in Workers, pc[w] \in Calls,
         NEW code \in {0, 200, 201, 400, 404, 409, 500}, Answer(w, code),
         UNCHANGED <<db, req, local, env>>,
         (conn = w /\ Release) \/ (conn # w /\ UNCHANGED <<conn, tx>>)
  PROVE  IInv'
<1>1. pc[w] # "idle" /\ pc'[w] = "respond" /\ conn' # w
  BY ServiceAssumption DEF Answer, Goto, Calls, TxCalls, IInv, HandlersOK, TypeOK, Release
<1>2. MovesOnly(w)
  <2>1. phase # "down"
    BY <1>1, InFlight
  <2>2. conn' = w <=> pc'[w] \in TxCalls
    BY <1>1 DEF TxCalls
  <2>3. \E call \in Calls \cup {"idle", "respond"} : pc' = [pc EXCEPT ![w] = call]
    BY DEF Answer, Goto
  <2>4. status' \in [Workers -> {0, 200, 201, 400, 404, 409, 500}]
    BY DEF Answer, IInv, HandlersOK, TypeOK
  <2>5. \/ UNCHANGED <<conn, tx>>
        \/ conn \in {w, NoWorker} /\ conn' = w
        \/ conn = w /\ Release
    OBVIOUS
  <2>6. UNCHANGED <<db, env>> /\ UNCHANGED req /\ UNCHANGED local
    OBVIOUS
  <2> QED
    BY <2>1, <2>2, <2>3, <2>4, <2>5, <2>6 DEF MovesOnly
<1>3. RequestOK(w)'
  BY <1>1, InFlight DEF RequestOK, ReviewOK, CreateOK, ReviewCalls, CreateCalls, Computed
<1>4. ViewOK(w)'
  BY <1>1 DEF ViewOK
<1>5. Apart'
  BY DEF IInv, HandlersOK, Apart, Creating, Reviewing
<1> QED
  BY <1>2, <1>3, <1>4, <1>5, LocalStep

LEMMA GetCardStep ==
  ASSUME IInv, NEW w \in Workers, GetCard(w)
  PROVE  IInv'
<1> DEFINE c == req[w].card
<1>1. /\ pc[w] = "getCard" /\ pc[w] \in Calls /\ conn # w
      /\ UNCHANGED <<db, conn, tx, req, env>>
  BY ServiceAssumption DEF GetCard, Read, ConnectionFree, Calls
<1>2. ReviewOK(w) /\ Reviewing(w) /\ phase # "down"
  BY <1>1, InFlight DEF CreateOK, CreateCalls
<1>3. ASSUME NEW code \in {404, 409}, Answer(w, code), UNCHANGED local PROVE IInv'
  BY <1>1, <1>3, AnswerStep
<1>4. ASSUME c \in DOMAIN cards, NEW l, local' = [local EXCEPT ![w] = l],
             Goto(w, "getDeck"), UNCHANGED status
      PROVE  IInv'
  <2>1. MovesOnly(w)
    BY <1>1, <1>2, <1>4 DEF MovesOnly, Goto, Calls, TxCalls, IInv, HandlersOK, TypeOK
  <2>2. pc'[w] = "getDeck" /\ c \in used
    BY <1>4, LedgerTypes DEF Tables, Goto, IInv, HandlersOK, TypeOK
  <2>3. RequestOK(w)'
    BY <1>1, <1>2, <2>2 DEF db, RequestOK, ReviewOK, ReviewCalls, Computed
  <2>4. ViewOK(w)' /\ Apart'
    BY <1>1 DEF ViewOK, IInv, HandlersOK, Apart, Creating, Reviewing
  <2> QED
    BY <2>1, <2>3, <2>4, LocalStep
<1> QED
  BY <1>3, <1>4 DEF GetCard

LEMMA GetDeckStep ==
  ASSUME IInv, NEW w \in Workers, GetDeck(w)
  PROVE  IInv'
<1>1. /\ pc[w] = "getDeck" /\ pc[w] \in Calls /\ conn # w
      /\ UNCHANGED <<db, conn, tx, req, local, env>>
  BY ServiceAssumption DEF GetDeck, Read, ConnectionFree, Calls
<1>2. ReviewOK(w) /\ Reviewing(w) /\ phase # "down"
  BY <1>1, InFlight DEF CreateOK, CreateCalls
<1>3. CASE Answer(w, 404)
  BY <1>1, <1>3, AnswerStep
<1>4. CASE Goto(w, "getState") /\ UNCHANGED status
  <2>1. MovesOnly(w)
    BY <1>1, <1>2, <1>4 DEF MovesOnly, Goto, Calls, TxCalls, IInv, HandlersOK, TypeOK
  <2>2. pc'[w] = "getState"
    BY <1>4 DEF Goto, IInv, HandlersOK, TypeOK
  <2>3. RequestOK(w)'
    BY <1>1, <1>2, <2>2 DEF db, RequestOK, ReviewOK, ReviewCalls, Computed
  <2>4. ViewOK(w)' /\ Apart'
    BY <1>1 DEF ViewOK, IInv, HandlersOK, Apart, Creating, Reviewing
  <2> QED
    BY <2>1, <2>3, <2>4, LocalStep
<1> QED
  BY <1>3, <1>4 DEF GetDeck

LEMMA GetCardStateStep ==
  ASSUME IInv, NEW w \in Workers, GetCardState(w)
  PROVE  IInv'
<1> DEFINE c == req[w].card
<1>1. /\ pc[w] = "getState" /\ pc[w] \in Calls /\ conn # w
      /\ UNCHANGED <<db, conn, tx, req, env>>
  BY ServiceAssumption DEF GetCardState, Read, ConnectionFree, Calls
<1>2. ReviewOK(w) /\ Reviewing(w) /\ phase # "down"
  BY <1>1, InFlight DEF CreateOK, CreateCalls
<1>3. CASE Answer(w, 404) /\ UNCHANGED local
  BY <1>1, <1>3, AnswerStep
<1>4. CASE /\ c \in DOMAIN states
           /\ local' = [local EXCEPT ![w] = [before |-> states[c]]]
           /\ Goto(w, "apply")
           /\ UNCHANGED status
  <2>1. MovesOnly(w)
    BY <1>1, <1>2, <1>4 DEF MovesOnly, Goto, Calls, TxCalls, IInv, HandlersOK, TypeOK
  <2>2. pc'[w] = "apply" /\ local'[w] = [before |-> states[c]]
    BY <1>4 DEF Goto, IInv, HandlersOK, TypeOK
  <2>3. states[c] \in CardStates /\ states[c].steps \in 0..2
    BY <1>4, LedgerTypes DEF Tables, IInv, StoreOK
  <2>4. RequestOK(w)'
    BY <1>1, <1>2, <2>2, <2>3 DEF db, RequestOK, ReviewOK, ReviewCalls, Computed, Current
  <2>5. ViewOK(w)' /\ Apart'
    BY <1>1 DEF ViewOK, IInv, HandlersOK, Apart, Creating, Reviewing
  <2> QED
    BY <2>1, <2>4, <2>5, LocalStep
<1> QED
  BY <1>3, <1>4 DEF GetCardState

LEMMA ComputeReviewStep ==
  ASSUME IInv, NEW w \in Workers, ComputeReview(w)
  PROVE  IInv'
<1> DEFINE c      == req[w].card
           before == local[w].before
           after  == Apply(before, req[w].rating, now)
           row    == ReviewFrom(c, before, req[w].rating, now)
<1>1. /\ pc[w] = "apply" /\ conn # w
      /\ UNCHANGED <<db, conn, tx, req, status, env>>
  BY ServiceAssumption DEF ComputeReview, IInv, HandlersOK, TypeOK, TxCalls
<1>2. ReviewOK(w) /\ Reviewing(w) /\ phase # "down"
  BY <1>1, InFlight DEF CreateOK, CreateCalls
<1>3. /\ before \in CardStates /\ before.steps \in 0..2
      /\ req[w].rating \in Ratings /\ c \in used
      /\ Current(c) => before = states[c]
  BY <1>1, <1>2 DEF ReviewOK
<1>4. now \in Times /\ now \in Nat
  BY ServiceAssumption DEF IInv, HandlersOK, TypeOK
<1>5. after \in CardStates
  BY <1>3, <1>4, ApplyType
<1>6. after.steps \in 0..2 /\ OutcomeOf(after, row)
  BY <1>3, <1>4, ApplyOutcome
<1>7. row \in LogRows(used) /\ row.card = c
  BY <1>3, <1>4, ElapsedDaysNat DEF ReviewFrom, LogRows, CardStates
<1>9. /\ local' = [local EXCEPT ![w] = [after |-> after, logRow |-> row]]
      /\ Goto(w, "begin")
  BY DEF ComputeReview
<1>8. row = [row EXCEPT !.id = row.id]
  BY DEF ReviewFrom
<1> HIDE DEF c, before, after, row
<1>10. pc'[w] = "begin" /\ local'[w] = [after |-> after, logRow |-> row]
  BY <1>9 DEF Goto, IInv, HandlersOK, TypeOK
<1>11. MovesOnly(w)
  BY <1>1, <1>2, <1>9 DEF MovesOnly, Goto, Calls, TxCalls, IInv, HandlersOK, TypeOK
<1>12. Current(c)' => ComputedFrom(w, states[c])'
  <2>1. after = Apply(before, req[w].rating, now)
    BY DEF after
  <2>2. row = [ReviewFrom(req[w].card, before, req[w].rating, now) EXCEPT !.id = row.id]
    BY <1>8 DEF row, c
  <2>3. c' = c /\ req' = req /\ states' = states /\ Current(c)' = Current(c)
    BY <1>1 DEF db, Current, c
  <2> QED
    BY <1>3, <1>4, <1>10, <2>1, <2>2, <2>3 DEF ComputedFrom
<1>13. RequestOK(w)'
  <2>1. req' = req /\ used' = used /\ c = req[w].card
    BY <1>1 DEF db, c
  <2>2. local'[w] \in [after : CardStates, logRow : LogRows(used)]
    BY <1>5, <1>7, <1>10
  <2>3. local'[w].after = after /\ local'[w].logRow = row
    BY <1>10
  <2>4. ReviewOK(w)'
    BY <1>1, <1>2, <1>3, <1>6, <1>7, <1>10, <1>12, <2>1, <2>2, <2>3
    DEF ReviewOK, ReviewCalls, Computed, OutcomeOf, c
  <2> QED
    BY <2>4 DEF RequestOK
<1>14. ViewOK(w)' /\ Apart'
  BY <1>1 DEF ViewOK, IInv, HandlersOK, Apart, Creating, Reviewing
<1> QED
  BY <1>11, <1>13, <1>14, LocalStep

LEMMA ReceiveReviewStep ==
  ASSUME IInv, NEW w \in Workers, NEW c \in Cards, NEW rating \in SubmitRatings,
         NEW durationOk \in BOOLEAN, ReceiveReview(w, c, rating, durationOk)
  PROVE  IInv'
<1> DEFINE r == [op |-> "review", card |-> c, rating |-> rating]
<1>1. /\ pc[w] = "idle" /\ conn # w /\ phase # "down"
      /\ UNCHANGED <<db, conn, tx, local, env>>
      /\ req' = [req EXCEPT ![w] = r]
      /\ Overlap \/ \A v \in ReviewsInFlight : req[v].card # c
  BY ServiceAssumption DEF ReceiveReview, Accepting, IInv, HandlersOK, TypeOK, TxCalls, Calls
<1>2. req'[w] = r /\ \A v \in Workers \ {w} : req'[v] = req[v]
  <2>1. req = [v \in Workers |-> req[v]]
    BY DEF IInv, HandlersOK
  <2> QED
    BY <1>1, <2>1
<1>3. \/ pc' = [pc EXCEPT ![w] = "getCard"] /\ Valid(rating) /\ UNCHANGED status
      \/ pc' = [pc EXCEPT ![w] = "respond"] /\ status' = [status EXCEPT ![w] = 400]
  BY DEF ReceiveReview, Answer, Goto
<1>4. /\ pc'[w] \in {"getCard", "respond"}
      /\ pc'[w] = "getCard" => Valid(rating)
      /\ \E call \in Calls \cup {"idle", "respond"} : pc' = [pc EXCEPT ![w] = call]
  BY <1>3 DEF IInv, HandlersOK, TypeOK, Calls
<1>5. status' \in [Workers -> {0, 200, 201, 400, 404, 409, 500}]
  BY <1>3 DEF IInv, HandlersOK, TypeOK
<1> HIDE DEF r
<1>6. MovesOnly(w)
  BY <1>1, <1>4, <1>5 DEF MovesOnly, TxCalls
<1>7. Valid(rating) => rating \in Ratings
  BY ServiceAssumption DEF Valid, Ratings, RatingAgain, RatingEasy
<1>8. RequestOK(w)'
  BY <1>2, <1>4, <1>7 DEF RequestOK, ReviewOK, ReviewCalls, Computed, r
<1>9. ViewOK(w)'
  BY <1>1 DEF ViewOK
<1>10. Apart'
  <2>1. r.op = "review" /\ r.card = c
    BY DEF r
  <2>2. Apart
    BY DEF IInv, HandlersOK
  <2> QED
    BY <1>1, <1>2, <2>1, <2>2, ServiceAssumption
    DEF Apart, Creating, Reviewing, ReviewsInFlight
<1> QED
  BY <1>6, <1>8, <1>9, <1>10, LocalStep

LEMMA ReceiveCreateStep ==
  ASSUME IInv, NEW w \in Workers, NEW c \in Cards, NEW d \in Decks, ReceiveCreate(w, c, d)
  PROVE  IInv'
<1> DEFINE r == [op |-> "create", card |-> c, deck |-> d]
           l == [at |-> now, after |-> NewCardState(now)]
<1>1. /\ pc[w] = "idle" /\ conn # w /\ phase # "down" /\ c \notin used
      /\ UNCHANGED <<db, conn, tx, status, env>>
      /\ req' = [req EXCEPT ![w] = r]
      /\ local' = [local EXCEPT ![w] = l]
      /\ pc' = [pc EXCEPT ![w] = "begin"]
      /\ \A v \in Workers : req[v].op = "create" => req[v].card # c
  BY ServiceAssumption
  DEF ReceiveCreate, Accepting, Goto, IInv, HandlersOK, TypeOK, TxCalls, Calls
<1>2. req'[w] = r /\ \A v \in Workers \ {w} : req'[v] = req[v]
  <2>1. req = [v \in Workers |-> req[v]]
    BY DEF IInv, HandlersOK
  <2> QED
    BY <1>1, <2>1
<1>3. local'[w] = l
  <2>1. local = [v \in Workers |-> local[v]]
    BY DEF IInv, HandlersOK
  <2> QED
    BY <1>1, <2>1
<1>4. pc'[w] = "begin" /\ now \in Times
  BY <1>1 DEF IInv, HandlersOK, TypeOK
<1>5. status' \in [Workers -> {0, 200, 201, 400, 404, 409, 500}]
  BY <1>1 DEF IInv, HandlersOK, TypeOK
<1> HIDE DEF r, l
<1>6. MovesOnly(w)
  BY <1>1, <1>4, <1>5 DEF MovesOnly, TxCalls, Calls
<1>7. RequestOK(w)'
  BY <1>1, <1>2, <1>3, <1>4 DEF RequestOK, CreateOK, CreateCalls, r, l, db
<1>8. ViewOK(w)'
  BY <1>1 DEF ViewOK
<1>9. Apart'
  <2>1. r.op = "create" /\ r.card = c
    BY DEF r
  <2>2. Apart
    BY DEF IInv, HandlersOK
  <2> QED
    BY <1>1, <1>2, <2>1, <2>2 DEF Apart, Creating, Reviewing
<1> QED
  BY <1>6, <1>7, <1>8, <1>9, LocalStep

LEMMA RespondStep ==
  ASSUME IInv, NEW w \in Workers, Respond(w)
  PROVE  IInv'
<1>1. /\ pc[w] = "respond" /\ conn # w
      /\ UNCHANGED <<db, conn, tx, env>>
      /\ req' = [req EXCEPT ![w] = NoRequest]
      /\ local' = [local EXCEPT ![w] = Blank]
      /\ pc' = [pc EXCEPT ![w] = "idle"]
      /\ status' = [status EXCEPT ![w] = 0]
  BY ServiceAssumption DEF Respond, Goto, IInv, HandlersOK, TypeOK, TxCalls
<1>2. phase # "down"
  BY <1>1, InFlight
<1>3. req'[w] = NoRequest /\ \A v \in Workers \ {w} : req'[v] = req[v]
  <2>1. req = [v \in Workers |-> req[v]]
    BY DEF IInv, HandlersOK
  <2> QED
    BY <1>1, <2>1
<1>4. pc'[w] = "idle"
  BY <1>1 DEF IInv, HandlersOK, TypeOK
<1>5. status' \in [Workers -> {0, 200, 201, 400, 404, 409, 500}]
  BY <1>1 DEF IInv, HandlersOK, TypeOK
<1>6. MovesOnly(w)
  BY <1>1, <1>2, <1>4, <1>5 DEF MovesOnly, TxCalls
<1>7. RequestOK(w)' /\ ViewOK(w)'
  BY <1>1, <1>3, <1>4 DEF RequestOK, ViewOK
<1>8. Apart'
  BY <1>3 DEF IInv, HandlersOK, Apart, Creating, Reviewing, NoRequest
<1> QED
  BY <1>6, <1>7, <1>8, LocalStep

(* Any call that fails, and the transactions' own rollbacks. *)
LEMMA FailStep ==
  ASSUME IInv, NEW w \in Workers, Fail(w)
  PROVE  IInv'
<1>1. /\ pc[w] \in Calls /\ Answer(w, 500) /\ UNCHANGED <<db, req, local, env>>
      /\ (conn = w /\ Release) \/ (conn # w /\ UNCHANGED <<conn, tx>>)
  BY DEF Fail
<1> QED
  BY <1>1, AnswerStep

LEMMA RollbackStep ==
  ASSUME IInv, NEW w \in Workers, pc[w] \in Calls, NEW code \in {404, 409}, Rollback(w, code)
  PROVE  IInv'
BY AnswerStep DEF Rollback

(* The transaction starts from what is committed. *)
LEMMA BeginTxStep ==
  ASSUME IInv, NEW w \in Workers, BeginTx(w)
  PROVE  IInv'
<1>1. /\ pc[w] = "begin" /\ conn = NoWorker /\ conn' = w /\ tx' = CommittedView
      /\ pc' = [pc EXCEPT ![w] = IF Reviewing(w) THEN "check" ELSE "deckExists"]
      /\ UNCHANGED <<db, req, local, status, env>>
  BY DEF BeginTx, ConnectionFree, Goto, Reviewing
<1>2. /\ phase # "down"
      /\ (ReviewOK(w) /\ Reviewing(w)) \/ (CreateOK(w) /\ ~Reviewing(w))
  BY <1>1, InFlight
<1>3. pc'[w] = IF Reviewing(w) THEN "check" ELSE "deckExists"
  BY <1>1 DEF IInv, HandlersOK, TypeOK
<1>4. status' \in [Workers -> {0, 200, 201, 400, 404, 409, 500}]
  BY <1>1 DEF IInv, HandlersOK, TypeOK
<1>5. MovesOnly(w)
  <2>1. pc'[w] \in TxCalls /\ pc'[w] \in Calls
    BY <1>3 DEF TxCalls, Calls
  <2>2. pc' = [pc EXCEPT ![w] = pc'[w]]
    BY <1>1, <1>3
  <2> QED
    BY <1>1, <1>2, <1>4, <2>1, <2>2 DEF MovesOnly
<1>6. RequestOK(w)'
  <2>1. CASE ReviewOK(w) /\ Reviewing(w)
    BY <1>1, <1>3, <2>1
    DEF db, RequestOK, ReviewOK, ReviewCalls, Computed, Current, ComputedFrom, OutcomeOf
  <2>2. CASE CreateOK(w) /\ ~Reviewing(w)
    BY <1>1, <1>3, <2>2 DEF db, RequestOK, CreateOK, CreateCalls
  <2> QED
    BY <1>2, <2>1, <2>2
<1>7. ViewOK(w)'
  BY <1>1, <1>3 DEF ViewOK, ReviewView, CreateView, CommittedView, db, Reviewing
<1>8. Apart'
  BY <1>1 DEF IInv, HandlersOK, Apart, Creating, Reviewing
<1> QED
  BY <1>5, <1>6, <1>7, <1>8, LocalStep

(* A statement of an open transaction that succeeds: where the worker is.   *)
LEMMA StatementStep ==
  ASSUME IInv, NEW w \in Workers, pc[w] \in TxCalls, InTx(w), UNCHANGED status,
         NEW call \in TxCalls, Goto(w, call),
         UNCHANGED local \/ \E l : local' = [local EXCEPT ![w] = l],
         RequestOK(w)', ViewOK(w)'
  PROVE  IInv'
<1>1. /\ conn = w /\ UNCHANGED <<db, conn, req, env>>
      /\ pc' = [pc EXCEPT ![w] = call]
  BY DEF InTx, Goto
<1>2. pc[w] # "idle" /\ pc'[w] = call /\ call \in Calls
  BY <1>1 DEF TxCalls, Calls, IInv, HandlersOK, TypeOK
<1>3. phase # "down"
  BY <1>2, InFlight
<1>4. status' \in [Workers -> {0, 200, 201, 400, 404, 409, 500}]
  BY DEF IInv, HandlersOK, TypeOK
<1>5. MovesOnly(w)
  BY <1>1, <1>2, <1>3, <1>4 DEF MovesOnly
<1>6. Apart'
  BY <1>1 DEF IInv, HandlersOK, Apart, Creating, Reviewing
<1> QED
  BY <1>5, <1>6, LocalStep

LEMMA CheckCardStep ==
  ASSUME IInv, NEW w \in Workers, CheckCard(w)
  PROVE  IInv'
<1> DEFINE c == req[w].card
<1>1. pc[w] = "check" /\ pc[w] \in Calls /\ pc[w] \in TxCalls
  BY DEF CheckCard, Calls, TxCalls
<1>2. ASSUME NEW code \in {404, 409}, Rollback(w, code) PROVE IInv'
  BY <1>1, <1>2, RollbackStep
<1>3. CASE /\ c \in DOMAIN tx.cards /\ ~tx.cards[c].suspended
           /\ InTx(w) /\ Goto(w, "upsert") /\ UNCHANGED <<tx, local, status>>
  <2>1. ReviewOK(w) /\ Reviewing(w) /\ conn = w /\ ReviewView(w)
    BY <1>1, InFlight DEF CreateOK, CreateCalls, ViewOK
  <2>2. pc'[w] = "upsert" /\ UNCHANGED <<db, conn, tx, req, local>>
    BY <1>3 DEF InTx, Goto, IInv, HandlersOK, TypeOK
  <2>3. RequestOK(w)'
    BY <1>1, <2>1, <2>2
    DEF db, RequestOK, ReviewOK, ReviewCalls, Computed, Current, ComputedFrom, OutcomeOf
  <2>4. tx.cards = cards
    BY <1>1, <2>1 DEF ReviewView
  <2>5. ReviewView(w)'
    BY <1>1, <1>3, <2>1, <2>2, <2>4 DEF ReviewView, db
  <2>6. ViewOK(w)'
    BY <2>1, <2>2, <2>5 DEF ViewOK, Reviewing
  <2> QED
    BY <1>1, <1>3, <2>3, <2>6, StatementStep DEF TxCalls
<1> QED
  BY <1>2, <1>3 DEF CheckCard

LEMMA CheckDeckStep ==
  ASSUME IInv, NEW w \in Workers, CheckDeck(w)
  PROVE  IInv'
<1>1. pc[w] = "deckExists" /\ pc[w] \in Calls /\ pc[w] \in TxCalls
  BY DEF CheckDeck, Calls, TxCalls
<1>2. CASE Rollback(w, 404)
  BY <1>1, <1>2, RollbackStep
<1>3. CASE /\ req[w].deck \in decks
           /\ InTx(w) /\ Goto(w, "insertCard") /\ UNCHANGED <<tx, local, status>>
  <2>1. CreateOK(w) /\ ~Reviewing(w) /\ conn = w /\ CreateView(w)
    BY <1>1, InFlight DEF ReviewOK, ReviewCalls, ViewOK
  <2>2. pc'[w] = "insertCard" /\ UNCHANGED <<db, conn, tx, req, local>>
    BY <1>3 DEF InTx, Goto, IInv, HandlersOK, TypeOK
  <2>3. RequestOK(w)'
    BY <1>1, <2>1, <2>2 DEF db, RequestOK, CreateOK, CreateCalls
  <2>4. CreateView(w)'
    BY <1>1, <1>3, <2>1, <2>2 DEF CreateView, db
  <2>5. ViewOK(w)'
    BY <2>1, <2>2, <2>4 DEF ViewOK, Reviewing
  <2> QED
    BY <1>1, <1>3, <2>3, <2>5, StatementStep DEF TxCalls
<1> QED
  BY <1>2, <1>3 DEF CheckDeck

LEMMA InsertCardStep ==
  ASSUME IInv, NEW w \in Workers, InsertCard(w)
  PROVE  IInv'
<1>1. /\ pc[w] = "insertCard" /\ pc[w] \in TxCalls
      /\ InTx(w) /\ Goto(w, "upsert") /\ UNCHANGED <<local, status>>
      /\ tx' = [tx EXCEPT !.cards = Put(@, req[w].card, NewRow(w))]
  BY DEF InsertCard, TxCalls, Put, NewRow
<1>2. CreateOK(w) /\ ~Reviewing(w) /\ conn = w /\ CreateView(w)
  BY <1>1, InFlight DEF ReviewOK, ReviewCalls, ViewOK, TxCalls
<1>3. pc'[w] = "upsert" /\ UNCHANGED <<db, conn, req, local>>
  BY <1>1 DEF InTx, Goto, IInv, HandlersOK, TypeOK
<1>4. RequestOK(w)'
  BY <1>1, <1>2, <1>3 DEF db, RequestOK, CreateOK, CreateCalls
<1>5. NewRow(w)' = NewRow(w)
  BY <1>3 DEF NewRow
<1>6. tx = CommittedView /\ req[w].deck \in decks
  BY <1>1, <1>2 DEF CreateView, CommittedView
<1>7. tx' = [cards |-> Put(cards, req[w].card, NewRow(w)), states |-> states,
             reviews |-> reviews, nextId |-> nextId]
  BY <1>1, <1>6 DEF CommittedView
<1>8. CreateView(w)'
  BY <1>3, <1>5, <1>6, <1>7 DEF CreateView, db, Put
<1>9. ViewOK(w)'
  BY <1>2, <1>3, <1>8 DEF ViewOK, Reviewing
<1> QED
  BY <1>1, <1>4, <1>9, StatementStep DEF TxCalls

LEMMA UpsertStateStep ==
  ASSUME IInv, NEW w \in Workers, UpsertState(w)
  PROVE  IInv'
<1> DEFINE c == req[w].card
           call == IF Reviewing(w) THEN "append" ELSE "commit"
<1>1. /\ pc[w] = "upsert" /\ pc[w] \in TxCalls
      /\ InTx(w) /\ Goto(w, call) /\ UNCHANGED <<local, status>>
      /\ tx' = [tx EXCEPT !.states = Put(@, c, local[w].after)]
  BY DEF UpsertState, TxCalls, Put, Reviewing
<1>2. pc'[w] = call /\ UNCHANGED <<db, conn, req, local>> /\ conn = w
  BY <1>1 DEF InTx, Goto, IInv, HandlersOK, TypeOK
<1>3. RequestOK(w)' /\ ViewOK(w)'
  <2>1. CASE ReviewOK(w) /\ Reviewing(w)
    <3>1. ReviewView(w) /\ call = "append"
      BY <1>1, <1>2, <2>1, InFlight DEF ViewOK
    <3>2. RequestOK(w)'
      BY <1>1, <1>2, <2>1, <3>1
      DEF db, RequestOK, ReviewOK, ReviewCalls, Computed, Current, ComputedFrom, OutcomeOf
    <3>3. tx = CommittedView /\ c \in DOMAIN cards /\ ~cards[c].suspended
      BY <1>1, <3>1 DEF ReviewView, CommittedView
    <3>4. tx' = [cards |-> cards, states |-> Put(states, c, local[w].after),
                 reviews |-> reviews, nextId |-> nextId]
      BY <1>1, <3>3 DEF CommittedView
    <3>5. ReviewView(w)'
      BY <1>2, <3>1, <3>3, <3>4 DEF ReviewView, db, Put
    <3> QED
      BY <1>2, <2>1, <3>2, <3>5 DEF ViewOK, Reviewing
  <2>2. CASE CreateOK(w) /\ ~Reviewing(w)
    <3>1. CreateView(w) /\ call = "commit"
      BY <1>1, <1>2, <2>2, InFlight DEF ViewOK
    <3>2. RequestOK(w)'
      BY <1>1, <1>2, <2>2, <3>1 DEF db, RequestOK, CreateOK, CreateCalls
    <3>3. /\ tx = [cards |-> Put(cards, c, NewRow(w)), states |-> states,
                   reviews |-> reviews, nextId |-> nextId]
          /\ req[w].deck \in decks
      BY <1>1, <3>1 DEF CreateView
    <3>4. tx' = [cards |-> Put(cards, c, NewRow(w)),
                 states |-> Put(states, c, local[w].after),
                 reviews |-> reviews, nextId |-> nextId]
      BY <1>1, <3>3
    <3>5. NewRow(w)' = NewRow(w)
      BY <1>2 DEF NewRow
    <3>6. CreateView(w)'
      BY <1>2, <3>1, <3>3, <3>4, <3>5 DEF CreateView, db, Put
    <3> QED
      BY <1>2, <2>2, <3>2, <3>6 DEF ViewOK, Reviewing
  <2> QED
    BY <1>1, <2>1, <2>2, InFlight
<1>4. call \in TxCalls
  BY DEF TxCalls
<1> QED
  BY <1>1, <1>3, <1>4, StatementStep

LEMMA AppendReviewStep ==
  ASSUME IInv, NEW w \in Workers, AppendReview(w)
  PROVE  IInv'
<1> DEFINE c   == req[w].card
           row == [local[w].logRow EXCEPT !.id = tx.nextId]
<1>1. /\ pc[w] = "append" /\ pc[w] \in TxCalls
      /\ InTx(w) /\ Goto(w, "commit") /\ UNCHANGED status
      /\ tx' = [tx EXCEPT !.reviews = @ \cup {row}, !.nextId = @ + 1]
      /\ local' = [local EXCEPT ![w].logRow = row]
  BY DEF AppendReview, TxCalls
<1>2. ReviewOK(w) /\ Reviewing(w) /\ conn = w /\ ReviewView(w)
  BY <1>1, InFlight DEF CreateOK, CreateCalls, ViewOK
<1>3. pc'[w] = "commit" /\ UNCHANGED <<db, conn, req>>
  BY <1>1 DEF InTx, Goto, IInv, HandlersOK, TypeOK
<1>4. /\ tx = [cards |-> cards, states |-> Put(states, c, local[w].after),
               reviews |-> reviews, nextId |-> nextId]
      /\ c \in DOMAIN cards /\ ~cards[c].suspended
  BY <1>1, <1>2 DEF ReviewView
<1>5. /\ local[w] \in [after : CardStates, logRow : LogRows(used)]
      /\ local[w].after.steps \in 0..2
      /\ local[w].logRow.card = c
      /\ OutcomeOf(local[w].after, local[w].logRow)
      /\ Current(c) => ComputedFrom(w, states[c])
      /\ req[w].rating \in Ratings /\ c \in used
  BY <1>1, <1>2 DEF ReviewOK, Computed
<1>6. nextId \in Nat /\ tx.nextId = nextId
  BY <1>4, LedgerTypes DEF Tables, IInv, StoreOK
<1>7. /\ row \in LogRows(used) /\ row.id = nextId /\ row.card = c
      /\ OutcomeOf(local[w].after, row)
  BY <1>5, <1>6 DEF LogRows, OutcomeOf
<1>8. local'[w] = [after |-> local[w].after, logRow |-> row]
  <2>1. local = [v \in Workers |-> local[v]]
    BY DEF IInv, HandlersOK
  <2>2. local'[w] = [local[w] EXCEPT !.logRow = row]
    BY <1>1, <2>1
  <2> QED
    BY <1>5, <2>2
<1>9. Current(c) => ComputedFrom(w, states[c])'
  <2> SUFFICES ASSUME Current(c) PROVE ComputedFrom(w, states[c])'
    OBVIOUS
  <2>1. PICK at \in Times :
          /\ local[w].after = Apply(states[c], req[w].rating, at)
          /\ local[w].logRow = [ReviewFrom(req[w].card, states[c], req[w].rating, at)
                                  EXCEPT !.id = local[w].logRow.id]
    BY <1>5 DEF ComputedFrom
  <2>2. row = [ReviewFrom(req[w].card, states[c], req[w].rating, at) EXCEPT !.id = row.id]
    BY <2>1, <1>7 DEF ReviewFrom
  <2> QED
    BY <1>3, <1>8, <2>1, <2>2 DEF ComputedFrom, db
<1> HIDE DEF row
<1>10. RequestOK(w)'
  <2>1. req' = req /\ used' = used /\ Current(c)' = Current(c)
    BY <1>3 DEF db, Current
  <2>2. local'[w].after = local[w].after /\ local'[w].logRow = row
    BY <1>8
  <2>3. local'[w] \in [after : CardStates, logRow : LogRows(used)]
    BY <1>5, <1>7, <1>8
  <2>4. OutcomeOf(local'[w].after, local'[w].logRow)
    BY <1>7, <2>2
  <2>5. ReviewOK(w)'
    BY <1>2, <1>3, <1>5, <1>7, <1>9, <2>1, <2>2, <2>3, <2>4
    DEF ReviewOK, ReviewCalls, Computed, OutcomeOf
  <2> QED
    BY <2>5 DEF RequestOK
<1>11. ViewOK(w)'
  <2>1. local'[w].after = local[w].after /\ local'[w].logRow = row
    BY <1>8
  <2>2. tx' = [cards |-> cards, states |-> Put(states, c, local[w].after),
               reviews |-> reviews \cup {row}, nextId |-> nextId + 1]
    BY <1>1, <1>4
  <2>3. ReviewView(w)'
    BY <1>2, <1>3, <1>4, <1>7, <2>1, <2>2 DEF ReviewView, db, Put
  <2> QED
    BY <1>2, <1>3, <2>3 DEF ViewOK, Reviewing
<1>12. \E l : local' = [local EXCEPT ![w] = l]
  BY <1>1
<1> QED
  BY <1>1, <1>10, <1>11, <1>12, StatementStep DEF TxCalls

-----------------------------------------------------------------------------
(* What a commit does to the database. *)

Row(w)   == local[w].logRow
After(w) == local[w].after

ReviewWritten(w, c) ==
  /\ c \in DOMAIN cards /\ ~cards[c].suspended
  /\ states' = Put(states, c, After(w))
  /\ reviews' = reviews \cup {Row(w)}
  /\ Row(w).id = nextId /\ Row(w).card = c
  /\ nextId' = nextId + 1
  /\ UNCHANGED <<decks, cards, used>>

CardWritten(w, c) ==
  /\ c \notin used /\ req[w].deck \in decks
  /\ cards' = Put(cards, c, NewRow(w))
  /\ states' = Put(states, c, After(w))
  /\ used' = used \cup {c}
  /\ UNCHANGED <<decks, reviews, nextId>>

LEMMA CommitWrites ==
  ASSUME IInv, NEW w \in Workers, Commit(w)
  PROVE  /\ pc[w] = "commit"
         /\ \/ ReviewOK(w) /\ Reviewing(w) /\ ReviewWritten(w, req[w].card)
            \/ CreateOK(w) /\ Creating(w) /\ CardWritten(w, req[w].card)
<1>1. pc[w] = "commit" /\ conn = w /\ Publish /\ DOMAIN cards \subseteq used
  BY LedgerTypes DEF Tables, Commit, IInv, StoreOK
<1>2. CASE ReviewOK(w) /\ Reviewing(w)
  <2>1. ReviewView(w)
    BY <1>1, <1>2, InFlight DEF ViewOK
  <2>2. Row(w).card = req[w].card
    BY <1>1, <1>2 DEF ReviewOK, Computed, Row
  <2>3. /\ tx.cards = cards /\ tx.states = Put(states, req[w].card, After(w))
        /\ tx.reviews = reviews \cup {Row(w)} /\ tx.nextId = nextId + 1
        /\ req[w].card \in DOMAIN cards /\ ~cards[req[w].card].suspended
        /\ Row(w).id = nextId
    BY <1>1, <2>1 DEF ReviewView, Row, After
  <2> QED
    BY <1>1, <1>2, <2>2, <2>3 DEF Publish, ReviewWritten
<1>3. CASE CreateOK(w) /\ Creating(w) /\ ~Reviewing(w)
  <2>1. CreateView(w) /\ req[w].card \notin used
    BY <1>1, <1>3, InFlight DEF ViewOK, CreateOK
  <2>2. /\ tx.cards = Put(cards, req[w].card, NewRow(w))
        /\ tx.states = Put(states, req[w].card, After(w))
        /\ tx.reviews = reviews /\ tx.nextId = nextId /\ req[w].deck \in decks
    BY <1>1, <2>1 DEF CreateView, After
  <2>3. used' = used \cup {req[w].card}
    BY <1>1, <2>2 DEF Publish, Put
  <2> QED
    BY <1>1, <1>3, <2>1, <2>2, <2>3 DEF Publish, CardWritten
<1> QED
  BY <1>1, <1>2, <1>3, InFlight

(* The row that is appended becomes the last row of its card.               *)
LEMMA ReviewKeepsStore ==
  ASSUME StoreOK, NEW w, NEW c, ReviewWritten(w, c),
         After(w) \in CardStates, After(w).steps \in 0..2,
         Row(w) \in LogRows(used), OutcomeOf(After(w), Row(w))
  PROVE  StoreOK'
<1>1. /\ UNCHANGED <<decks, cards, used>>
      /\ c \in DOMAIN cards
      /\ states' = Put(states, c, After(w))
      /\ reviews' = reviews \cup {Row(w)}
      /\ Row(w).id = nextId /\ Row(w).card = c
      /\ nextId' = nextId + 1
  BY DEF ReviewWritten
<1>2. /\ nextId \in Nat
      /\ states \in [DOMAIN states -> CardStates]
      /\ reviews \subseteq LogRows(used)
      /\ DOMAIN states = DOMAIN cards
      /\ \A rv \in reviews : rv.id < nextId /\ rv.id \in Nat
  BY LedgerTypes DEF Tables, StoreOK, Ledger!ScheduleExists, LogRows
<1>3. DOMAIN states' = DOMAIN cards /\ states'[c] = After(w)
  BY <1>1, <1>2 DEF Put
<1>4. \A x \in DOMAIN cards \ {c} : states'[x] = states[x]
  BY <1>1, <1>2 DEF Put
<1>5. states' \in [DOMAIN states' -> CardStates]
  BY <1>1, <1>2 DEF Put
<1>6. Ledger!TypeOK'
  BY <1>1, <1>2, <1>5, LedgerTypes DEF Tables, StoreOK, LogRows
<1>7. Ledger!ScheduleExists'
  BY <1>1, <1>3 DEF StoreOK, Ledger!ScheduleExists
<1>8. \A x \in DOMAIN states' : states'[x].steps \in 0..2
  BY <1>1, <1>2, <1>3, <1>4 DEF StoreOK
<1>9. \A rv \in reviews' : rv.id < nextId'
  BY <1>1, <1>2
<1>10. StateIsLastRow'
  <2> SUFFICES ASSUME NEW x \in DOMAIN cards
      PROVE LET rows == {rv \in reviews' : rv.card = x} IN
            IF rows = {} THEN states'[x] = NewCardState(cards[x].created)
            ELSE OutcomeOf(states'[x],
                   CHOOSE rv \in rows : \A other \in rows : other.id <= rv.id)
    BY <1>1 DEF StateIsLastRow
  <2>1. CASE x # c
    <3>1. {rv \in reviews' : rv.card = x} = {rv \in reviews : rv.card = x}
      BY <1>1, <2>1
    <3>2. states'[x] = states[x]
      BY <1>4, <2>1
    <3> QED
      BY <3>1, <3>2 DEF StoreOK, StateIsLastRow
  <2>2. CASE x = c
    <3> DEFINE rows == {rv \in reviews' : rv.card = x}
    <3>1. Row(w) \in rows
      BY <1>1, <2>2
    <3>2. \A other \in rows : other.id <= Row(w).id
      BY <1>1, <1>2
    <3>3. \A rv \in rows : rv # Row(w) => ~(Row(w).id <= rv.id)
      BY <1>1, <1>2
    <3>4. (CHOOSE rv \in rows : \A other \in rows : other.id <= rv.id) = Row(w)
      <4> HIDE DEF rows
      <4> QED
        BY <3>1, <3>2, <3>3
    <3> QED
      BY <1>3, <2>2, <3>1, <3>4
  <2> QED
    BY <2>1, <2>2
<1> QED
  BY <1>6, <1>7, <1>8, <1>9, <1>10 DEF StoreOK

(* A card that is created has a schedule and no rows. *)
LEMMA CreateKeepsStore ==
  ASSUME StoreOK, NEW w, NEW c \in Cards, CardWritten(w, c), req[w].deck \in Decks,
         local[w].at \in Times, After(w) = NewCardState(local[w].at)
  PROVE  StoreOK'
<1>1. /\ c \notin used /\ req[w].deck \in decks
      /\ cards' = Put(cards, c, NewRow(w))
      /\ states' = Put(states, c, After(w))
      /\ used' = used \cup {c}
      /\ UNCHANGED <<decks, reviews, nextId>>
  BY DEF CardWritten
<1>2. /\ used \subseteq Cards
      /\ DOMAIN cards \subseteq used
      /\ cards \in [DOMAIN cards -> [deck : Decks, suspended : BOOLEAN, created : Nat]]
      /\ states \in [DOMAIN states -> CardStates]
      /\ reviews \subseteq LogRows(used)
      /\ DOMAIN states = DOMAIN cards
  BY LedgerTypes DEF Tables, StoreOK, Ledger!ScheduleExists
<1>3. /\ local[w].at \in Nat
      /\ NewRow(w) \in [deck : Decks, suspended : BOOLEAN, created : Nat]
      /\ NewRow(w).deck = req[w].deck /\ NewRow(w).created = local[w].at
  BY ServiceAssumption DEF NewRow
<1>4. After(w) \in CardStates /\ After(w).steps \in 0..2
  BY <1>3, NewCardStateType DEF NewCardState
<1>5. /\ DOMAIN cards' = DOMAIN cards \cup {c} /\ DOMAIN states' = DOMAIN cards \cup {c}
      /\ cards'[c] = NewRow(w) /\ states'[c] = After(w)
  BY <1>1, <1>2 DEF Put
<1>6. \A x \in DOMAIN cards : x # c /\ cards'[x] = cards[x] /\ states'[x] = states[x]
  BY <1>1, <1>2 DEF Put
<1>7. Ledger!TypeOK'
  <2>1. cards' \in [DOMAIN cards' -> [deck : Decks, suspended : BOOLEAN, created : Nat]]
    BY <1>1, <1>2, <1>3 DEF Put
  <2>2. states' \in [DOMAIN states' -> CardStates]
    BY <1>1, <1>2, <1>4 DEF Put
  <2>3. reviews' \subseteq LogRows(used')
    BY <1>1, <1>2 DEF LogRows
  <2> QED
    BY <1>1, <1>2, <1>5, <2>1, <2>2, <2>3, LedgerTypes DEF Tables, StoreOK
<1>8. \A rv \in reviews : rv.card \in DOMAIN cards /\ rv.card # c
  BY <1>1, <1>2 DEF StoreOK, Ledger!ScheduleExists
<1>9. Ledger!ScheduleExists'
  BY <1>1, <1>2, <1>3, <1>5, <1>6, <1>8 DEF StoreOK, Ledger!ScheduleExists
<1>10. \A x \in DOMAIN states' : states'[x].steps \in 0..2
  BY <1>2, <1>4, <1>5, <1>6 DEF StoreOK
<1>11. StateIsLastRow'
  <2>1. ASSUME NEW x \in DOMAIN cards
        PROVE  /\ cards'[x] = cards[x] /\ states'[x] = states[x]
               /\ {rv \in reviews' : rv.card = x} = {rv \in reviews : rv.card = x}
    BY <1>1, <1>6
  <2>2. {rv \in reviews' : rv.card = c} = {}
    BY <1>1, <1>8
  <2>3. states'[c] = NewCardState(cards'[c].created)
    BY <1>3, <1>5
  <2>4. StateIsLastRow
    BY DEF StoreOK
  <2> SUFFICES ASSUME NEW x \in DOMAIN cards \cup {c}
      PROVE LET rows == {rv \in reviews' : rv.card = x} IN
            IF rows = {} THEN states'[x] = NewCardState(cards'[x].created)
            ELSE OutcomeOf(states'[x],
                   CHOOSE rv \in rows : \A other \in rows : other.id <= rv.id)
    BY <1>5 DEF StateIsLastRow
  <2>5. CASE x = c
    BY <2>2, <2>3, <2>5
  <2>6. CASE x \in DOMAIN cards
    BY <2>1, <2>4, <2>6 DEF StateIsLastRow
  <2> QED
    BY <2>5, <2>6
<1> QED
  BY <1>1, <1>7, <1>9, <1>10, <1>11 DEF StoreOK

LEMMA CommitStep ==
  ASSUME IInv, NEW w \in Workers, Commit(w)
  PROVE  IInv'
<1> DEFINE c    == req[w].card
           code == IF req[w].op = "review" THEN 200 ELSE 201
<1>1. /\ pc[w] = "commit" /\ conn = w /\ conn' = NoWorker /\ tx' = NoTx
      /\ pc' = [pc EXCEPT ![w] = "respond"]
      /\ status' = [status EXCEPT ![w] = code]
      /\ UNCHANGED <<req, local, env>>
  BY DEF Commit, Release, Answer, Goto
<1>2. phase # "down"
  BY <1>1, InFlight
<1>3. /\ pc'[w] = "respond" /\ \A v \in Workers \ {w} : pc'[v] = pc[v]
      /\ pc' \in [Workers -> Calls \cup {"idle", "respond"}]
  BY <1>1 DEF IInv, HandlersOK, TypeOK
<1>4. status' \in [Workers -> {0, 200, 201, 400, 404, 409, 500}]
  BY <1>1 DEF IInv, HandlersOK, TypeOK
<1>5. \A v \in Workers \ {w} :
        RequestOK(v) /\ (Creating(v) /\ pc[v] # "respond" => req[v].card \notin used)
  BY DEF IInv, HandlersOK, RequestOK, ReviewOK, CreateOK, Creating, NoRequest
<1>6. Apart /\ DOMAIN states = DOMAIN cards
  BY DEF IInv, HandlersOK, StoreOK, Ledger!ScheduleExists
<1>7. ASSUME ReviewOK(w), Reviewing(w), ReviewWritten(w, c)
      PROVE  StoreOK' /\ RequestOK(w)' /\ \A v \in Workers \ {w} : RequestOK(v)'
  <2>1. StoreOK'
    <3>1. /\ After(w) \in CardStates /\ After(w).steps \in 0..2
          /\ Row(w) \in LogRows(used) /\ OutcomeOf(After(w), Row(w))
      BY <1>1, <1>7 DEF ReviewOK, Computed, After, Row
    <3> QED
      BY <1>7, <3>1, ReviewKeepsStore DEF IInv
  <2>2. ASSUME NEW v \in Workers \ {w} PROVE RequestOK(v)'
    <3>1. used' = used
      BY <1>7 DEF ReviewWritten
    <3>2. ASSUME Reviewing(v), Current(req[v].card)'
          PROVE  Current(req[v].card) /\ states'[req[v].card] = states[req[v].card]
      <4>1. ~Overlap /\ req'[v] = req[v] /\ req[v].card \in DOMAIN states'
        BY <1>1, <3>2 DEF Current
      <4>2. req[v].card # c
        BY <1>6, <1>7, <3>2, <4>1 DEF Apart
      <4> QED
        BY <1>7, <4>1, <4>2 DEF ReviewWritten, Put, Current
    <3> QED
      BY <1>1, <1>3, <1>5, <3>1, <3>2, RequestKept
  <2>3. RequestOK(w)'
    BY <1>1, <1>3, <1>7 DEF RequestOK, ReviewOK, ReviewCalls, Computed
  <2> QED
    BY <2>1, <2>2, <2>3
<1>8. ASSUME CreateOK(w), Creating(w), CardWritten(w, c)
      PROVE  StoreOK' /\ RequestOK(w)' /\ \A v \in Workers \ {w} : RequestOK(v)'
  <2>1. StoreOK'
    <3>1. /\ c \in Cards /\ req[w].deck \in Decks
          /\ local[w].at \in Times /\ After(w) = NewCardState(local[w].at)
      BY <1>1, <1>8 DEF CreateOK, After
    <3> QED
      BY <1>8, <3>1, CreateKeepsStore DEF IInv
  <2>2. ASSUME NEW v \in Workers \ {w} PROVE RequestOK(v)'
    <3>1. used' = used \cup {c} /\ c \notin used
      BY <1>8 DEF CardWritten
    <3>2. Creating(v) /\ pc[v] # "respond" => req[v].card \notin used'
      BY <1>5, <1>6, <1>8, <3>1 DEF Apart
    <3>3. ASSUME Reviewing(v), req[v].card \in used, Current(req[v].card)'
          PROVE  Current(req[v].card) /\ states'[req[v].card] = states[req[v].card]
      BY <1>1, <1>8, <3>1, <3>3 DEF Current, CardWritten, Put
    <3> QED
      BY <1>1, <1>3, <1>5, <3>1, <3>2, <3>3, RequestKept
  <2>3. RequestOK(w)'
    BY <1>1, <1>3, <1>8 DEF RequestOK, CreateOK, CreateCalls
  <2> QED
    BY <2>1, <2>2, <2>3
<1>9. StoreOK' /\ \A v \in Workers : RequestOK(v)'
  <2>1. StoreOK' /\ RequestOK(w)' /\ \A v \in Workers \ {w} : RequestOK(v)'
    BY <1>7, <1>8, CommitWrites
  <2> QED
    BY <2>1
<1>10. \A v \in Workers : ViewOK(v)'
  BY <1>1, ServiceAssumption DEF ViewOK
<1>11. TypeOK'
  <2>1. \A v \in Workers : conn' = v <=> pc'[v] \in TxCalls
    BY <1>1, <1>3, ServiceAssumption DEF IInv, HandlersOK, TypeOK, TxCalls
  <2>2. Ledger!TypeOK' /\ now' \in Times /\ phase' = phase
    BY <1>1, <1>9 DEF StoreOK, env, IInv, HandlersOK, TypeOK
  <2> QED
    BY <1>1, <1>2, <1>3, <1>4, <2>1, <2>2 DEF TypeOK, IInv, HandlersOK
<1>12. Apart'
  BY <1>1, <1>6 DEF Apart, Creating, Reviewing
<1>13. req' = [v \in Workers |-> req'[v]] /\ local' = [v \in Workers |-> local'[v]]
  BY <1>1 DEF IInv, HandlersOK
<1> QED
  BY <1>9, <1>10, <1>11, <1>12, <1>13 DEF IInv, HandlersOK

-----------------------------------------------------------------------------
(* A statement on its own leaves every schedule that remains as it is.      *)
LEMMA StatementKeeps ==
  ASSUME IInv, Statement, StoreOK', used' = used,
         \A c \in DOMAIN states' : c \in DOMAIN states /\ states'[c] = states[c]
  PROVE  IInv'
<1>1. /\ conn = NoWorker /\ UNCHANGED <<conn, tx, pc, req, local, status, env>>
  BY DEF Statement
<1>2. ASSUME NEW v \in Workers PROVE RequestOK(v)'
  <2>1. RequestOK(v) /\ (Creating(v) /\ pc[v] # "respond" => req[v].card \notin used)
    BY DEF IInv, HandlersOK, RequestOK, ReviewOK, CreateOK, Creating, NoRequest
  <2>2. ASSUME Current(req[v].card)'
        PROVE  Current(req[v].card) /\ states'[req[v].card] = states[req[v].card]
    BY <1>1, <2>2 DEF Current
  <2> QED
    BY <1>1, <2>1, <2>2, RequestKept
<1>3. \A v \in Workers : ViewOK(v)'
  BY <1>1, ServiceAssumption DEF ViewOK
<1>4. TypeOK'
  BY <1>1 DEF IInv, HandlersOK, StoreOK, TypeOK, env, Busy
<1>5. Apart'
  BY <1>1 DEF IInv, HandlersOK, Apart, Creating, Reviewing
<1>6. req' = [v \in Workers |-> req'[v]] /\ local' = [v \in Workers |-> local'[v]]
  BY <1>1 DEF IInv, HandlersOK
<1> QED
  BY <1>2, <1>3, <1>4, <1>5, <1>6 DEF IInv, HandlersOK

LEMMA CreateDeckStep ==
  ASSUME IInv, NEW d \in Decks, CreateDeck(d)
  PROVE  IInv'
<1>1. Statement /\ decks' = decks \cup {d} /\ UNCHANGED <<cards, states, reviews, nextId, used>>
  BY DEF CreateDeck, Ledger!CreateDeck
<1>2. Ledger!TypeOK'
  BY <1>1, LedgerTypes DEF Tables, IInv, StoreOK
<1>3. Ledger!ScheduleExists'
  BY <1>1 DEF IInv, StoreOK, Ledger!ScheduleExists
<1>4. StateIsLastRow'
  BY <1>1 DEF IInv, StoreOK, StateIsLastRow
<1>5. StoreOK'
  BY <1>1, <1>2, <1>3, <1>4 DEF IInv, StoreOK
<1> QED
  BY <1>1, <1>5, StatementKeeps

LEMMA SetSuspendedStep ==
  ASSUME IInv, NEW c \in Cards, NEW value \in BOOLEAN, SetSuspended(c, value)
  PROVE  IInv'
<1>1. /\ Statement /\ c \in DOMAIN cards /\ cards' = [cards EXCEPT ![c].suspended = value]
      /\ UNCHANGED <<decks, states, reviews, nextId, used>>
  BY DEF SetSuspended, Ledger!SetCardSuspended
<1>2. cards \in [DOMAIN cards -> [deck : Decks, suspended : BOOLEAN, created : Nat]]
  BY LedgerTypes DEF Tables, IInv, StoreOK
<1>3. /\ cards' \in [DOMAIN cards -> [deck : Decks, suspended : BOOLEAN, created : Nat]]
      /\ DOMAIN cards' = DOMAIN cards
      /\ \A x \in DOMAIN cards : /\ cards'[x].deck = cards[x].deck
                                 /\ cards'[x].created = cards[x].created
  BY <1>1, <1>2
<1>4. Ledger!TypeOK'
  BY <1>1, <1>3, LedgerTypes DEF Tables, IInv, StoreOK
<1>5. Ledger!ScheduleExists'
  BY <1>1, <1>3 DEF IInv, StoreOK, Ledger!ScheduleExists
<1>6. StateIsLastRow'
  <2> SUFFICES ASSUME NEW x \in DOMAIN cards
      PROVE LET rows == {rv \in reviews : rv.card = x} IN
            IF rows = {} THEN states[x] = NewCardState(cards'[x].created)
            ELSE OutcomeOf(states[x],
                   CHOOSE rv \in rows : \A other \in rows : other.id <= rv.id)
    BY <1>1, <1>3 DEF StateIsLastRow
  <2>1. StateIsLastRow
    BY DEF IInv, StoreOK
  <2> QED
    BY <1>3, <2>1 DEF StateIsLastRow
<1>7. StoreOK'
  BY <1>1, <1>4, <1>5, <1>6 DEF IInv, StoreOK
<1> QED
  BY <1>1, <1>7, StatementKeeps

(* DeleteCard and DeleteDeck: a card leaves with its schedule and its rows. *)
LEMMA RemoveCardsStep ==
  ASSUME IInv, NEW gone, Statement, Ledger!RemoveCards(gone), UNCHANGED <<nextId, used>>,
         decks' \subseteq decks,
         \A x \in DOMAIN cards \ gone : cards[x].deck \in decks'
  PROVE  IInv'
<1>1. /\ cards' = [x \in DOMAIN cards \ gone |-> cards[x]]
      /\ states' = [x \in DOMAIN states \ gone |-> states[x]]
      /\ reviews' = {rv \in reviews : rv.card \notin gone}
  BY DEF Ledger!RemoveCards, Ledger!Restrict
<1>2. Tables /\ Ledger!ScheduleExists /\ StateIsLastRow
  BY LedgerTypes DEF IInv, StoreOK
<1>3. Ledger!TypeOK'
  BY <1>1, <1>2, LedgerTypes DEF Tables
<1>4. Ledger!ScheduleExists'
  BY <1>1, <1>2 DEF Ledger!ScheduleExists
<1>5. StateIsLastRow'
  <2> SUFFICES ASSUME NEW x \in DOMAIN cards \ gone
      PROVE LET rows == {rv \in reviews' : rv.card = x} IN
            IF rows = {} THEN states'[x] = NewCardState(cards'[x].created)
            ELSE OutcomeOf(states'[x],
                   CHOOSE rv \in rows : \A other \in rows : other.id <= rv.id)
    BY <1>1 DEF StateIsLastRow
  <2>1. {rv \in reviews' : rv.card = x} = {rv \in reviews : rv.card = x}
    BY <1>1
  <2>2. cards'[x] = cards[x] /\ states'[x] = states[x]
    BY <1>1, <1>2 DEF Ledger!ScheduleExists
  <2> QED
    BY <1>2, <2>1, <2>2 DEF StateIsLastRow
<1>6. StoreOK'
  BY <1>1, <1>3, <1>4, <1>5 DEF IInv, StoreOK
<1> QED
  BY <1>1, <1>6, StatementKeeps

LEMMA DeleteStep ==
  ASSUME IInv, (\E d \in Decks : DeleteDeck(d)) \/ (\E c \in Cards : DeleteCard(c))
  PROVE  IInv'
<1>1. ASSUME NEW d \in Decks, DeleteDeck(d) PROVE IInv'
  <2>1. \A x \in DOMAIN cards : cards[x].deck \in decks
    BY DEF IInv, StoreOK, Ledger!ScheduleExists
  <2> QED
    BY <1>1, <2>1, RemoveCardsStep DEF DeleteDeck, Ledger!DeleteDeck
<1>2. ASSUME NEW c \in Cards, DeleteCard(c) PROVE IInv'
  <2>1. \A x \in DOMAIN cards : cards[x].deck \in decks
    BY DEF IInv, StoreOK, Ledger!ScheduleExists
  <2> QED
    BY <1>2, <2>1, RemoveCardsStep DEF DeleteCard, Ledger!DeleteCard
<1> QED
  BY <1>1, <1>2

-----------------------------------------------------------------------------
(* The process and the clock leave the database alone. *)
LEMMA DbUnchanged ==
  ASSUME StoreOK, UNCHANGED db
  PROVE  StoreOK'
BY DEF db, StoreOK, Ledger!TypeOK, Ledger!ScheduleExists, StateIsLastRow

LEMMA EndStep ==
  ASSUME IInv, End
  PROVE  IInv'
<1>1. /\ conn' = NoWorker /\ tx' = NoTx /\ phase' = "down" /\ UNCHANGED <<db, now>>
      /\ pc' = [w \in Workers |-> "idle"]
      /\ req' = [w \in Workers |-> NoRequest]
      /\ local' = [w \in Workers |-> Blank]
      /\ status' = [w \in Workers |-> 0]
  BY DEF End, Release
<1>2. StoreOK'
  BY <1>1, DbUnchanged DEF IInv
<1>3. \A w \in Workers : RequestOK(w)' /\ ViewOK(w)'
  BY <1>1, ServiceAssumption DEF RequestOK, ViewOK
<1>4. TypeOK'
  BY <1>1, <1>2, ServiceAssumption DEF TypeOK, StoreOK, Busy, TxCalls, IInv, HandlersOK
<1>5. Apart'
  BY <1>1 DEF Apart, Creating, Reviewing, NoRequest
<1> QED
  BY <1>1, <1>2, <1>3, <1>4, <1>5 DEF IInv, HandlersOK

LEMMA QuietStep ==
  ASSUME IInv, UNCHANGED <<db, conn, tx, pc, req, local, status>>,
         now' \in Times, phase' \in {"serving", "draining", "closed", "down"},
         phase' = "down" => phase = "down"
  PROVE  IInv'
<1>1. StoreOK'
  BY DbUnchanged DEF IInv
<1>2. ASSUME NEW v \in Workers PROVE RequestOK(v)' /\ ViewOK(v)'
  <2>1. RequestOK(v) /\ ViewOK(v) /\ (Creating(v) /\ pc[v] # "respond" => req[v].card \notin used)
    BY DEF IInv, HandlersOK, RequestOK, ReviewOK, CreateOK, Creating, NoRequest
  <2>2. RequestOK(v)'
    BY <2>1, RequestKept DEF db, Current
  <2>3. ViewOK(v)'
    BY <2>1 DEF db, ViewOK, ReviewView, CreateView, Reviewing, NewRow
  <2> QED
    BY <2>2, <2>3
<1>3. TypeOK'
  BY <1>1 DEF IInv, HandlersOK, StoreOK, TypeOK, Busy
<1>4. Apart'
  BY DEF IInv, HandlersOK, Apart, Creating, Reviewing
<1> QED
  BY <1>1, <1>2, <1>3, <1>4 DEF IInv, HandlersOK

LEMMA InitIInv == Init => IInv
<1> SUFFICES ASSUME Init PROVE IInv
  OBVIOUS
<1>1. /\ decks = {} /\ DOMAIN cards = {} /\ DOMAIN states = {} /\ reviews = {}
      /\ nextId = 1 /\ used = {}
      /\ cards = [x \in {} |-> x] /\ states = [x \in {} |-> x]
  BY DEF Init, Ledger!Init, Ledger!NoRows
<1>2. Ledger!TypeOK
  BY <1>1, LedgerTypes DEF Tables
<1>3. StoreOK
  BY <1>1, <1>2 DEF StoreOK, Ledger!ScheduleExists, StateIsLastRow
<1>4. TypeOK
  BY <1>2, ServiceAssumption DEF Init, TypeOK, Busy, TxCalls
<1>5. \A w \in Workers : RequestOK(w) /\ ViewOK(w)
  BY ServiceAssumption DEF Init, RequestOK, ViewOK
<1>6. Apart
  BY DEF Init, Apart, Creating, Reviewing, NoRequest
<1> QED
  BY <1>3, <1>4, <1>5, <1>6 DEF Init, IInv, HandlersOK

LEMMA HandleStep ==
  ASSUME IInv, NEW w \in Workers, Handle(w)
  PROVE  IInv'
BY GetCardStep, GetDeckStep, GetCardStateStep, ComputeReviewStep, BeginTxStep, CheckCardStep,
   CheckDeckStep, InsertCardStep, UpsertStateStep, AppendReviewStep, CommitStep, RespondStep
DEF Handle

LEMMA ReceiveStep ==
  ASSUME IInv, NEW w \in Workers, Receive(w)
  PROVE  IInv'
BY ReceiveReviewStep, ReceiveCreateStep DEF Receive

LEMMA ProcessStep ==
  ASSUME IInv,
         \/ Crash \/ Signal \/ Drained \/ GraceExpires \/ ListenerFails \/ Exit \/ Start
         \/ \E t \in Times : SetClock(t)
  PROVE  IInv'
<1>1. CASE End
  BY <1>1, EndStep
<1>2. ASSUME NEW from, NEW to \in {"serving", "draining", "closed"}, Move(from, to)
      PROVE  IInv'
  BY <1>2, QuietStep DEF Move, IInv, HandlersOK, TypeOK
<1>3. ASSUME NEW t \in Times, SetClock(t) PROVE IInv'
  BY <1>3, QuietStep DEF SetClock, IInv, HandlersOK, TypeOK
<1> QED
  BY <1>1, <1>2, <1>3
  DEF Crash, Signal, Drained, GraceExpires, ListenerFails, Exit, Start

LEMMA NextIInv == IInv /\ [Next]_vars => IInv'
<1> SUFFICES ASSUME IInv, [Next]_vars PROVE IInv'
  OBVIOUS
<1>1. ASSUME NEW w \in Workers, Receive(w) \/ Handle(w) \/ Fail(w) PROVE IInv'
  BY <1>1, ReceiveStep, HandleStep, FailStep
<1>2. ASSUME NEW d \in Decks, CreateDeck(d) \/ DeleteDeck(d) PROVE IInv'
  BY <1>2, CreateDeckStep, DeleteStep
<1>3. ASSUME NEW c \in Cards, DeleteCard(c) \/ \E value \in BOOLEAN : SetSuspended(c, value)
      PROVE  IInv'
  BY <1>3, DeleteStep, SetSuspendedStep
<1>4. CASE UNCHANGED vars
  <2>1. UNCHANGED <<db, conn, tx, pc, req, local, status, now, phase>>
    BY <1>4 DEF vars, env
  <2> QED
    BY <2>1, QuietStep DEF IInv, HandlersOK, TypeOK
<1> QED
  BY <1>1, <1>2, <1>3, <1>4, ProcessStep DEF Next

LEMMA Invariance == Spec => []IInv
BY InitIInv, NextIInv, PTL DEF Spec

(* Whatever the handlers, their failures, kills and the clock do, each      *)
(* variable keeps its shape and the connection belongs to whoever is in a   *)
(* transaction.                                                             *)
THEOREM TypeCorrect == Spec => []TypeOK
BY Invariance, PTL DEF IInv, HandlersOK

(* CreateCard's transaction and the cascades: no card is committed without  *)
(* its schedule, and nothing outlives it, for any number of workers.        *)
THEOREM ScheduleAlwaysExists == Spec => []ScheduleExists
BY Invariance, PTL DEF IInv, StoreOK, ScheduleExists

(* The schedule and the log row are written together (ApplyReview): the     *)
(* schedule of a card is the outcome of its last row also when reviews of   *)
(* it overlap and one of them is lost.                                      *)
THEOREM StateAlwaysLastRow == Spec => []StateIsLastRow
BY Invariance, PTL DEF IInv, StoreOK

-----------------------------------------------------------------------------
(* Only a commit changes the database on behalf of a worker. *)
LEMMA WorkerWritesAtCommit ==
  ASSUME NEW w \in Workers, Receive(w) \/ Handle(w) \/ Fail(w)
  PROVE  UNCHANGED db \/ Commit(w)
BY DEF Receive, Handle, Fail, ReceiveReview, ReceiveCreate, GetCard, GetDeck, GetCardState,
   Read, ComputeReview, BeginTx, CheckCard, CheckDeck, InsertCard, UpsertState, AppendReview,
   InTx, Rollback, Respond

(* What a step of the service can be, as a step of the database. *)
DbStep ==
  \/ UNCHANGED db
  \/ \E w \in Workers : Commit(w)
  \/ \E d \in Decks : Ledger!CreateDeck(d) \/ Ledger!DeleteDeck(d)
  \/ \E c \in Cards : \/ Ledger!DeleteCard(c)
                      \/ \E value \in BOOLEAN : Ledger!SetCardSuspended(c, value)

LEMMA StepsOfDb ==
  ASSUME [Next]_vars
  PROVE  DbStep
<1>1. ASSUME NEW w \in Workers, Receive(w) \/ Handle(w) \/ Fail(w) PROVE DbStep
  BY <1>1, WorkerWritesAtCommit DEF DbStep
<1>2. ASSUME NEW d \in Decks, CreateDeck(d) \/ DeleteDeck(d) PROVE DbStep
  BY <1>2 DEF DbStep, CreateDeck, DeleteDeck
<1>3. ASSUME NEW c \in Cards, DeleteCard(c) \/ \E value \in BOOLEAN : SetSuspended(c, value)
      PROVE  DbStep
  BY <1>3 DEF DbStep, DeleteCard, SetSuspended
<1>4. ASSUME \/ Crash \/ Signal \/ Drained \/ GraceExpires \/ ListenerFails \/ Exit \/ Start
             \/ \E t \in Times : SetClock(t)
      PROVE  DbStep
  BY <1>4 DEF DbStep, Crash, Signal, Drained, GraceExpires, ListenerFails, Exit, Start,
     End, Move, SetClock
<1>5. CASE UNCHANGED vars
  BY <1>5 DEF vars, DbStep
<1> QED
  BY <1>1, <1>2, <1>3, <1>4, <1>5 DEF Next

(* The schedule and the log of a card found suspended by a commit are left  *)
(* alone, although the handler saw it unsuspended (CheckCard in the         *)
(* transaction of ApplyReview).                                             *)
THEOREM SuspendedStayFrozen == Spec => SuspendedFrozen
<1> DEFINE A == \A c \in DOMAIN cards :
                  cards[c].suspended /\ c \in DOMAIN cards' =>
                    /\ states'[c] = states[c]
                    /\ {rv \in reviews' : rv.card = c} = {rv \in reviews : rv.card = c}
<1>1. ASSUME IInv, [Next]_vars PROVE A
  <2>1. DOMAIN states = DOMAIN cards /\ DOMAIN cards \subseteq used
    BY <1>1, LedgerTypes DEF IInv, StoreOK, Ledger!ScheduleExists, Tables
  <2>2. ASSUME NEW w \in Workers, NEW c, ReviewWritten(w, c) PROVE A
    BY <2>1, <2>2 DEF ReviewWritten, Put
  <2>3. ASSUME NEW w \in Workers, NEW c, CardWritten(w, c) PROVE A
    BY <2>1, <2>3 DEF CardWritten, Put
  <2>4. ASSUME NEW gone, Ledger!RemoveCards(gone) PROVE A
    BY <2>1, <2>4 DEF Ledger!RemoveCards, Ledger!Restrict
  <2>5. ASSUME UNCHANGED <<states, reviews>> PROVE A
    BY <2>5
  <2> HIDE DEF A
  <2>6. ASSUME NEW w \in Workers, Commit(w) PROVE A
    BY <1>1, <2>2, <2>3, <2>6, CommitWrites
  <2>7. CASE UNCHANGED db
    BY <2>5, <2>7 DEF db
  <2> QED
    BY <1>1, <2>4, <2>5, <2>6, <2>7, StepsOfDb
    DEF DbStep, Ledger!CreateDeck, Ledger!DeleteDeck, Ledger!DeleteCard,
        Ledger!SetCardSuspended
<1>2. [][A]_Ledger!vars <=> SuspendedFrozen
  BY DEF SuspendedFrozen, Ledger!SuspendedFrozen, Ledger!RowsOf
<1> HIDE DEF A
<1> QED
  BY <1>1, <1>2, Invariance, PTL DEF Spec

(* 200 means that the row is in the log now and was not before, any other   *)
(* answer that the request has written nothing (handleReview, withTx).      *)
THEOREM AnswersAreTruthful == Spec => AnswersTruthful
<1> DEFINE Told(w) == pc[w] # "respond" /\ pc'[w] = "respond" /\ req[w].op = "review" =>
                        IF status'[w] = 200
                        THEN local'[w].logRow \in reviews' \ reviews
                        ELSE reviews' = reviews /\ states' = states
           A == \A w \in Workers : Told(w)
<1>1. ASSUME IInv, [Next]_vars PROVE A
  <2>1. pc \in [Workers -> Calls \cup {"idle", "respond"}]
    BY <1>1 DEF IInv, HandlersOK, TypeOK
  <2>2. status \in [Workers -> {0, 200, 201, 400, 404, 409, 500}]
    BY <1>1 DEF IInv, HandlersOK, TypeOK
  <2>3. ASSUME NEW w \in Workers, UNCHANGED pc \/ pc'[w] = pc[w] \/ pc'[w] # "respond"
        PROVE  Told(w)
    BY <2>3
  <2>4. ASSUME NEW w \in Workers, NEW code \in {400, 404, 409, 500}, Answer(w, code),
               UNCHANGED db
        PROVE  Told(w)
    <3>1. status'[w] = code
      BY <2>2, <2>4 DEF Answer
    <3> QED
      BY <2>4, <3>1 DEF db
  <2>5. ASSUME NEW w \in Workers, Commit(w), req[w].op = "review" PROVE Told(w)
    <3>1. ReviewWritten(w, req[w].card) /\ UNCHANGED local
      BY <1>1, <2>5, CommitWrites DEF CreateOK, Commit
    <3>2. status'[w] = 200
      BY <2>2, <2>5 DEF Commit, Answer
    <3>3. Row(w) \in reviews' \ reviews
      <4>1. nextId \in Nat /\ \A rv \in reviews : rv.id < nextId
        BY <1>1, LedgerTypes DEF Tables, IInv, StoreOK
      <4> QED
        BY <3>1, <4>1 DEF ReviewWritten
    <3> QED
      BY <3>1, <3>2, <3>3 DEF Row
  <2>6. ASSUME NEW w \in Workers, Receive(w) \/ Handle(w) \/ Fail(w) PROVE Told(w)
    <3>1. CASE Receive(w)
      <4>1. pc[w] = "idle"
        BY <3>1 DEF Receive, ReceiveReview, ReceiveCreate
      <4>2. req[w] = NoRequest
        BY <1>1, <4>1 DEF IInv, HandlersOK, RequestOK, ReviewOK, CreateOK, ReviewCalls, CreateCalls
      <4> QED
        BY <4>2 DEF NoRequest
    <3>2. CASE Commit(w)
      BY <2>5, <3>2
    <3>3. CASE Fail(w)
      BY <2>4, <3>3 DEF Fail
    <3>4. CASE GetCard(w) \/ GetDeck(w) \/ GetCardState(w)
      <4>1. UNCHANGED db
        BY <3>4 DEF GetCard, GetDeck, GetCardState, Read
      <4>2. \/ Answer(w, 404) \/ Answer(w, 409)
            \/ Goto(w, "getDeck") \/ Goto(w, "getState") \/ Goto(w, "apply")
        BY <3>4 DEF GetCard, GetDeck, GetCardState
      <4>3. ASSUME NEW call \in {"getDeck", "getState", "apply"}, Goto(w, call)
            PROVE  pc'[w] # "respond"
        BY <2>1, <4>3 DEF Goto
      <4> QED
        BY <2>3, <2>4, <4>1, <4>2, <4>3
    <3>5. CASE CheckCard(w) \/ CheckDeck(w)
      <4>1. UNCHANGED db
        BY <3>5 DEF CheckCard, CheckDeck, InTx, Rollback
      <4>2. \/ Answer(w, 404) \/ Answer(w, 409)
            \/ Goto(w, "upsert") \/ Goto(w, "insertCard")
        BY <3>5 DEF CheckCard, CheckDeck, Rollback
      <4>3. ASSUME NEW call \in {"upsert", "insertCard"}, Goto(w, call)
            PROVE  pc'[w] # "respond"
        BY <2>1, <4>3 DEF Goto
      <4> QED
        BY <2>3, <2>4, <4>1, <4>2, <4>3
    <3>6. CASE \/ ComputeReview(w) \/ BeginTx(w) \/ InsertCard(w) \/ UpsertState(w)
               \/ AppendReview(w) \/ Respond(w)
      <4>1. \E call \in {"begin", "check", "deckExists", "upsert", "append", "commit", "idle"} :
              Goto(w, call)
        BY <3>6 DEF ComputeReview, BeginTx, InsertCard, UpsertState, AppendReview, Respond
      <4>2. pc'[w] # "respond"
        BY <2>1, <4>1 DEF Goto
      <4> QED
        BY <2>3, <4>2
    <3> QED
      BY <2>6, <3>1, <3>2, <3>3, <3>4, <3>5, <3>6 DEF Handle
  <2>7. ASSUME NEW w \in Workers, Receive(w) \/ Handle(w) \/ Fail(w) PROVE A
    <3>1. \E call : Goto(w, call)
      BY <2>7 DEF Receive, Handle, Fail, ReceiveReview, ReceiveCreate, GetCard, GetDeck,
         GetCardState, ComputeReview, BeginTx, CheckCard, CheckDeck, InsertCard, UpsertState,
         AppendReview, Commit, Rollback, Answer, Respond
    <3>2. \A v \in Workers \ {w} : pc'[v] = pc[v]
      BY <2>1, <3>1 DEF Goto
    <3>3. ASSUME NEW v \in Workers \ {w} PROVE Told(v)
      BY <3>2, <2>3, <3>3
    <3>4. Told(w)
      BY <2>6, <2>7
    <3> QED
      BY <3>3, <3>4
  <2>8. CASE UNCHANGED pc
    BY <2>3, <2>8
  <2>9. CASE End
    BY <2>3, <2>9 DEF End
  <2> HIDE DEF A
  <2> QED
    BY <1>1, <2>7, <2>8, <2>9
    DEF Next, vars, CreateDeck, DeleteDeck, DeleteCard, SetSuspended, Statement, Crash,
        Signal, Drained, GraceExpires, ListenerFails, Exit, Start, Move, SetClock
<1>2. [][A]_vars <=> AnswersTruthful
  BY DEF AnswersTruthful
<1> HIDE DEF A
<1> QED
  BY <1>1, <1>2, Invariance, PTL DEF Spec

-----------------------------------------------------------------------------
(* The bound on the log: what a client may submit is limited so that the    *)
(* ledger's own bound never stands in the way of a commit.                  *)

LEMMA UnloggedFinite ==
  /\ IsFiniteSet(Unlogged) /\ IsFiniteSet(ReviewsInFlight)
  /\ Cardinality(Unlogged) \in Nat
  /\ Cardinality(Unlogged) <= Cardinality(ReviewsInFlight)
<1>1. Unlogged \in SUBSET ReviewsInFlight /\ ReviewsInFlight \in SUBSET Workers
  BY DEF Unlogged, ReviewsInFlight, Reviewing
<1>2. IsFiniteSet(ReviewsInFlight)
  BY <1>1, ServiceAssumption, FS_Subset
<1> QED
  BY <1>1, <1>2, FS_Subset, FS_CardinalityType

(* A worker is only added by a request that arrives. *)
LEMMA UnloggedShrinks ==
  ASSUME IInv, [Next]_vars, NEW w \in Unlogged', w \notin Unlogged
  PROVE  /\ Unlogged' = Unlogged \cup {w} /\ UNCHANGED db
         /\ nextId + Cardinality(ReviewsInFlight) <= MaxReviews
<1>1. pc \in [Workers -> Calls \cup {"idle", "respond"}] /\ req = [v \in Workers |-> req[v]]
  BY DEF IInv, HandlersOK, TypeOK
<1>2. w \in Workers /\ Reviewing(w)' /\ pc'[w] # "respond"
  BY DEF Unlogged
<1>3. ASSUME NEW v \in Workers, Receive(v)
      PROVE  /\ Unlogged' = Unlogged \cup {w} /\ UNCHANGED db
             /\ nextId + Cardinality(ReviewsInFlight) <= MaxReviews
  <2>1. \A u \in Workers \ {v} : pc'[u] = pc[u] /\ req'[u] = req[u]
    BY <1>1, <1>3 DEF Receive, ReceiveReview, ReceiveCreate, Answer, Goto
  <2>2. v = w
    BY <1>2, <2>1 DEF Unlogged, Reviewing
  <2>3. ASSUME NEW c, NEW d, ReceiveCreate(v, c, d) PROVE FALSE
    <3>1. req'[v].op = "create"
      BY <1>1, <2>3 DEF ReceiveCreate
    <3> QED
      BY <1>2, <2>2, <3>1 DEF Reviewing
  <2>4. PICK c \in Cards, rating \in SubmitRatings, durationOk \in BOOLEAN :
          ReceiveReview(v, c, rating, durationOk)
    BY <1>3, <2>3 DEF Receive
  <2>5. UNCHANGED db /\ nextId + Cardinality(ReviewsInFlight) <= MaxReviews
    BY <2>4 DEF ReceiveReview
  <2>6. Unlogged' = Unlogged \cup {w}
    BY <1>2, <2>1, <2>2 DEF Unlogged, Reviewing
  <2> QED
    BY <2>5, <2>6
<1>4. ASSUME NEW v \in Workers, Handle(v) \/ Fail(v) PROVE FALSE
  <2>1. CASE Respond(v)
    <3>1. /\ \A u \in Workers \ {v} : pc'[u] = pc[u] /\ req'[u] = req[u]
          /\ req'[v] = NoRequest
      BY <1>1, <2>1 DEF Respond, Goto
    <3> QED
      BY <1>2, <3>1 DEF Unlogged, Reviewing, NoRequest
  <2>2. CASE ~Respond(v)
    <3>1. req' = req /\ pc[v] # "respond" /\ \E call : Goto(v, call)
      BY <1>4, <2>2
      DEF Handle, Fail, GetCard, GetDeck, GetCardState, Read, ComputeReview, BeginTx,
          CheckCard, CheckDeck, InsertCard, UpsertState, AppendReview, InTx, Commit,
          Rollback, Answer, Calls, TxCalls
    <3>2. \A u \in Workers \ {v} : pc'[u] = pc[u]
      BY <1>1, <3>1 DEF Goto
    <3> QED
      BY <1>2, <3>1, <3>2 DEF Unlogged, Reviewing
  <2> QED
    BY <2>1, <2>2
<1>5. CASE UNCHANGED <<pc, req>>
  BY <1>2, <1>5 DEF Unlogged, Reviewing
<1>6. CASE End
  BY <1>2, <1>6 DEF End, Reviewing, NoRequest
<1> QED
  BY <1>3, <1>4, <1>5, <1>6
  DEF Next, vars, CreateDeck, DeleteDeck, DeleteCard, SetSuspended, Statement, Crash,
      Signal, Drained, GraceExpires, ListenerFails, Exit, Start, Move, SetClock

LEMMA WithinBoundStep ==
  ASSUME IInv, WithinBound, [Next]_vars
  PROVE  WithinBound'
<1>1. /\ nextId \in Nat /\ MaxReviews \in Nat
      /\ IsFiniteSet(Unlogged) /\ IsFiniteSet(ReviewsInFlight)
      /\ Cardinality(Unlogged) \in Nat /\ Cardinality(ReviewsInFlight) \in Nat
      /\ Cardinality(Unlogged) <= Cardinality(ReviewsInFlight)
  BY UnloggedFinite, LedgerTypes, ServiceAssumption, FS_CardinalityType
  DEF Tables, IInv, StoreOK
<1>2. CASE Unlogged' \subseteq Unlogged /\ nextId' = nextId
  <2>1. Cardinality(Unlogged') \in Nat /\ Cardinality(Unlogged') <= Cardinality(Unlogged)
    BY <1>1, <1>2, FS_Subset, FS_CardinalityType
  <2> QED
    BY <1>1, <1>2, <2>1 DEF WithinBound
<1>3. ASSUME NEW w \in Unlogged', w \notin Unlogged PROVE WithinBound'
  <2>1. /\ Unlogged' = Unlogged \cup {w} /\ nextId' = nextId
        /\ nextId + Cardinality(ReviewsInFlight) <= MaxReviews
    BY <1>3, UnloggedShrinks DEF db
  <2>2. Cardinality(Unlogged') = Cardinality(Unlogged) + 1
    BY <1>1, <1>3, <2>1, FS_AddElement
  <2> QED
    BY <1>1, <2>1, <2>2 DEF WithinBound
<1>4. ASSUME NEW w \in Workers, Commit(w), Unlogged' \subseteq Unlogged PROVE WithinBound'
  <2>1. pc[w] = "commit" /\ pc'[w] = "respond" /\ req' = req
    BY <1>4 DEF Commit, Answer, Goto, IInv, HandlersOK, TypeOK
  <2>2. CASE Reviewing(w)
    <3>1. nextId' = nextId + 1
      BY <1>4, <2>2, CommitWrites DEF ReviewWritten, Reviewing, Creating
    <3>2. w \in Unlogged /\ Unlogged' \in SUBSET (Unlogged \ {w})
      BY <1>4, <2>1, <2>2 DEF Unlogged, Reviewing
    <3>3. /\ IsFiniteSet(Unlogged \ {w})
          /\ Cardinality(Unlogged \ {w}) = Cardinality(Unlogged) - 1
      BY <1>1, <3>2, FS_RemoveElement
    <3>4. /\ Cardinality(Unlogged') \in Nat
          /\ Cardinality(Unlogged') <= Cardinality(Unlogged) - 1
      BY <3>2, <3>3, FS_Subset, FS_CardinalityType
    <3> QED
      BY <1>1, <3>1, <3>4 DEF WithinBound
  <2>3. CASE ~Reviewing(w)
    <3>1. nextId' = nextId
      BY <1>4, <2>3, CommitWrites DEF CardWritten
    <3> QED
      BY <1>2, <1>4, <3>1
  <2> QED
    BY <2>2, <2>3
<1>5. nextId' = nextId \/ \E w \in Workers : Commit(w)
  BY StepsOfDb DEF DbStep, db, Ledger!CreateDeck, Ledger!DeleteDeck, Ledger!DeleteCard,
     Ledger!SetCardSuspended
<1> QED
  BY <1>2, <1>3, <1>4, <1>5

LEMMA InitWithinBound == Init => WithinBound
<1> SUFFICES ASSUME Init PROVE WithinBound
  OBVIOUS
<1>1. Unlogged = {} /\ nextId = 1
  BY DEF Init, Unlogged, Reviewing, NoRequest, Ledger!Init
<1> QED
  BY <1>1, FS_EmptySet, ServiceAssumption DEF WithinBound

LEMMA BoundInvariance == Spec => [](IInv /\ WithinBound)
<1>1. Init => IInv /\ WithinBound
  BY InitIInv, InitWithinBound
<1>2. IInv /\ WithinBound /\ [Next]_vars => (IInv /\ WithinBound)'
  BY NextIInv, WithinBoundStep
<1> QED
  BY <1>1, <1>2, PTL DEF Spec

-----------------------------------------------------------------------------
(* The schedule a review writes is that of the card at its commit, when no  *)
(* other review of the card was in flight: one step of the ledger.          *)
LEMMA CommitIsLedgerStep ==
  ASSUME ~Overlap, IInv, WithinBound, NEW w \in Workers, Commit(w)
  PROVE  Ledger!Next
<1> DEFINE c == req[w].card
<1>1. CASE ReviewOK(w) /\ Reviewing(w) /\ ReviewWritten(w, c)
  <2>1. /\ c \in DOMAIN cards /\ ~cards[c].suspended
        /\ states' = Put(states, c, After(w))
        /\ reviews' = reviews \cup {Row(w)}
        /\ Row(w).id = nextId
        /\ nextId' = nextId + 1
        /\ UNCHANGED <<decks, cards, used>>
    BY <1>1 DEF ReviewWritten
  <2>2. c \in Cards /\ req[w].rating \in Ratings /\ DOMAIN states = DOMAIN cards
    BY <1>1, CommitWrites DEF ReviewOK, IInv, StoreOK, Ledger!ScheduleExists
  <2>3. ComputedFrom(w, states[c])
    BY <1>1, <2>1, <2>2, CommitWrites DEF ReviewOK, Computed, Current
  <2>4. PICK at \in Times :
          /\ After(w) = Apply(states[c], req[w].rating, at)
          /\ Row(w) = [ReviewFrom(c, states[c], req[w].rating, at) EXCEPT !.id = Row(w).id]
    BY <2>3 DEF ComputedFrom, After, Row
  <2>5. states' = [states EXCEPT ![c] = Ledger!Apply(states[c], req[w].rating, at)]
    <3>1. states \in [DOMAIN states -> CardStates]
      BY LedgerTypes DEF Tables, IInv, StoreOK
    <3> QED
      BY <2>1, <2>2, <2>4, <3>1, SameApply DEF Put
  <2>6. reviews' = reviews \cup {Ledger!LogRow(c, req[w].rating, at)}
    BY <2>1, <2>4, SameApply DEF Ledger!LogRow
  <2>7. nextId <= MaxReviews
    <3>1. w \in Unlogged
      BY <1>1, CommitWrites DEF Unlogged
    <3>2. Cardinality(Unlogged) # 0 /\ Cardinality(Unlogged) \in Nat
      BY <3>1, UnloggedFinite, FS_EmptySet
    <3>3. nextId \in Nat
      BY LedgerTypes DEF Tables, IInv, StoreOK
    <3> QED
      BY <3>2, <3>3, ServiceAssumption DEF WithinBound
  <2>8. Ledger!Review(c, req[w].rating, at)
    BY <2>1, <2>5, <2>6, <2>7 DEF Ledger!Review, Ledger!CanReview
  <2> QED
    BY <2>2, <2>8, SameNumbers DEF Ledger!Next
<1>2. CASE CreateOK(w) /\ Creating(w) /\ CardWritten(w, c)
  <2>1. /\ c \in Cards /\ req[w].deck \in Decks /\ local[w].at \in Times
        /\ After(w) = NewCardState(local[w].at)
    BY <1>2, CommitWrites DEF CreateOK, After
  <2>2. Ledger!CreateCard(c, req[w].deck, local[w].at)
    BY <1>2, <2>1, SameApply DEF Ledger!CreateCard, CardWritten, Put, NewRow
  <2> QED
    BY <2>1, <2>2 DEF Ledger!Next
<1> QED
  BY <1>1, <1>2, CommitWrites

(* The handlers, a statement at a time and failing anywhere, implement the  *)
(* atomic ledger, for any number of workers, as long as a client has one    *)
(* review of a card in flight at a time.                                    *)
THEOREM HandlersImplementLedger ==
  ASSUME ~Overlap
  PROVE  Spec => ImplementsLedger
<1>1. Init => Ledger!Init
  BY DEF Init
<1>2. IInv /\ WithinBound /\ [Next]_vars => [Ledger!Next]_Ledger!vars
  <2> SUFFICES ASSUME IInv, WithinBound, [Next]_vars
      PROVE  Ledger!Next \/ UNCHANGED Ledger!vars
    OBVIOUS
  <2>1. CASE UNCHANGED db
    BY <2>1 DEF db, Ledger!vars
  <2>2. ASSUME NEW w \in Workers, Commit(w) PROVE Ledger!Next
    BY <2>2, CommitIsLedgerStep
  <2>3. ASSUME NEW d \in Decks, Ledger!CreateDeck(d) \/ Ledger!DeleteDeck(d)
        PROVE  Ledger!Next
    BY <2>3 DEF Ledger!Next
  <2>4. ASSUME NEW c \in Cards,
               \/ Ledger!DeleteCard(c)
               \/ \E value \in BOOLEAN : Ledger!SetCardSuspended(c, value)
        PROVE  Ledger!Next
    BY <2>4 DEF Ledger!Next
  <2> QED
    BY <2>1, <2>2, <2>3, <2>4, StepsOfDb DEF DbStep
<1> QED
  BY <1>1, <1>2, BoundInvariance, PTL DEF Spec, ImplementsLedger, Ledger!Spec

-----------------------------------------------------------------------------
(* What is proved of the ledger therefore holds of the handlers.  Proved is *)
(* the same ledger as Ledger, instantiated with its theorems.               *)
LEMMA SameLedger ==
  /\ Ledger!Init <=> Proved!Init
  /\ [Ledger!Next]_Ledger!vars <=> [Proved!Next]_Proved!vars
  /\ Ledger!RepsCountReviews <=> Proved!RepsCountReviews
<1>1. Ledger!Init <=> Proved!Init
  BY DEF Ledger!Init, Proved!Init, Ledger!NoRows, Proved!NoRows
<1>2. Ledger!Next <=> Proved!Next
  BY DEF Ledger!Next, Proved!Next, Ledger!CreateDeck, Proved!CreateDeck,
     Ledger!DeleteDeck, Proved!DeleteDeck, Ledger!CreateCard, Proved!CreateCard,
     Ledger!SetCardSuspended, Proved!SetCardSuspended,
     Ledger!DeleteCard, Proved!DeleteCard, Ledger!RemoveCards, Proved!RemoveCards,
     Ledger!Restrict, Proved!Restrict, Ledger!Review, Proved!Review,
     Ledger!CanReview, Proved!CanReview, Ledger!LogRow, Proved!LogRow,
     Ledger!ReviewFrom, Proved!ReviewFrom, Ledger!NewCardState, Proved!NewCardState,
     Ledger!Apply, Proved!Apply, Ledger!Interval, Proved!Interval,
     Ledger!NextState, Proved!NextState, Ledger!NextSteps, Proved!NextSteps,
     Ledger!Graduates, Proved!Graduates, Ledger!Lapses, Proved!Lapses,
     Ledger!StepsLeft, Proved!StepsLeft, Ledger!LadderSteps, Proved!LadderSteps,
     Ledger!ScheduledDays, Proved!ScheduledDays, Ledger!ElapsedDays, Proved!ElapsedDays,
     Ledger!Never, Proved!Never, Ledger!Ratings, Proved!Ratings,
     Ledger!RatingAgain, Proved!RatingAgain, Ledger!RatingHard, Proved!RatingHard,
     Ledger!RatingGood, Proved!RatingGood, Ledger!RatingEasy, Proved!RatingEasy,
     Ledger!StateNew, Proved!StateNew, Ledger!StateLearning, Proved!StateLearning,
     Ledger!StateReview, Proved!StateReview,
     Ledger!StateRelearning, Proved!StateRelearning
<1>3. [Ledger!Next]_Ledger!vars <=> [Proved!Next]_Proved!vars
  BY <1>2 DEF Ledger!vars, Proved!vars
<1>4. ASSUME NEW c
      PROVE  /\ Ledger!RowsOf(c) = Proved!RowsOf(c)
             /\ Ledger!ForgottenOf(c) = Proved!ForgottenOf(c)
  <2>1. Ledger!RowsOf(c) = Proved!RowsOf(c)
    BY DEF Ledger!RowsOf, Proved!RowsOf
  <2> QED
    BY <2>1 DEF Ledger!ForgottenOf, Proved!ForgottenOf, Ledger!StateReview,
       Proved!StateReview, Ledger!RatingAgain, Proved!RatingAgain
<1>5. Ledger!RepsCountReviews <=> Proved!RepsCountReviews
  <2>1. ASSUME NEW S PROVE Ledger!Cardinality(S) = Proved!Cardinality(S)
    BY DEF Ledger!Cardinality, Proved!Cardinality
  <2> QED
    BY <1>4, <2>1 DEF Ledger!RepsCountReviews, Proved!RepsCountReviews
<1> QED
  BY <1>1, <1>3, <1>5

(* No review is lost from a schedule, although it is read three calls and a *)
(* transaction before it is written: reps and lapses count the card's log.  *)
THEOREM RepsAlwaysCountReviews ==
  ASSUME ~Overlap
  PROVE  Spec => []RepsCountReviews
<1>1. DayLengthAssumption /\ ServiceAssumption
  BY DayLengthAssumption, ServiceAssumption
<1>2. Proved!Spec => []Proved!RepsCountReviews
  BY <1>1, Proved!RepsAlwaysCountReviews
<1> QED
  BY HandlersImplementLedger, SameLedger, <1>2, PTL
  DEF Ledger!Spec, Proved!Spec, ImplementsLedger, RepsCountReviews
=============================================================================
