---------------------------- MODULE ReviewService ----------------------------
(***************************************************************************)
(* kaartd's handlers over its SQLite store, one store call at a time.      *)
(*                                                                         *)
(* A worker is the goroutine of one request.  handleReview reads the card, *)
(* its deck and its schedule in three separate calls, computes the next    *)
(* schedule in memory, and writes it in a transaction that checks again    *)
(* that the card exists and is not suspended, but not that its schedule is *)
(* still the one that was read.  handleCreateCard is one transaction.      *)
(* Every call takes the pool's single connection (SetMaxOpenConns(1)): a   *)
(* statement holds it for an instant, a transaction from BEGIN to COMMIT.  *)
(*                                                                         *)
(* The process itself starts, serves, drains for at most the grace period  *)
(* after a signal, closes the store and ends, or is killed.                *)
(***************************************************************************)
EXTENDS Scheduler, FiniteSets, Functions

CONSTANTS
  Cards, Decks, Times, MaxReviews,   \* as in CardLedger
  Workers,         \* goroutines that may be serving a request
  NoWorker,        \* the connection is idle
  SubmitRatings,   \* the ratings clients put in a request, invalid ones too
  Overlap          \* may a client submit a review of a card while another
                   \* review of it is in flight?

ASSUME ServiceAssumption ==
  /\ Times \subseteq Nat
  /\ MaxReviews \in Nat
  /\ SubmitRatings \subseteq Int
  /\ IsFiniteSet(Workers)
  /\ NoWorker \notin Workers
  /\ Overlap \in BOOLEAN

VARIABLES
  decks, cards, states, reviews, nextId, used,   \* the committed database
  conn,     \* the worker whose transaction holds the connection, or NoWorker
  tx,       \* that transaction's view of the database
  pc,       \* the call each worker makes next
  req,      \* the request it serves
  local,    \* the handler's variables: deck, before, after, logRow
  status,   \* the status code it is about to answer
  now,      \* the clock
  phase     \* what run() is at

db     == <<decks, cards, states, reviews, nextId, used>>
env    == <<now, phase>>
vars   == <<db, conn, tx, pc, req, local, status, env>>

Ledger == INSTANCE CardLedger

NoTx      == [cards |-> << >>, states |-> << >>, reviews |-> {}, nextId |-> 0]
NoRequest == [op |-> "none"]
Blank     == [at |-> 0]

CommittedView == [cards |-> cards, states |-> states, reviews |-> reviews, nextId |-> nextId]

TxCalls == {"check", "deckExists", "insertCard", "upsert", "append", "commit"}
Calls   == {"getCard", "getDeck", "getState", "apply", "begin"} \cup TxCalls

-----------------------------------------------------------------------------
Init ==
  /\ Ledger!Init
  /\ conn = NoWorker
  /\ tx = NoTx
  /\ pc = [w \in Workers |-> "idle"]
  /\ req = [w \in Workers |-> NoRequest]
  /\ local = [w \in Workers |-> Blank]
  /\ status = [w \in Workers |-> 0]
  /\ now \in Times
  /\ phase = "serving"

(* Requests arrive until Shutdown returns: while it drains, on connections  *)
(* accepted before.  Once the store is closed the pool hands out nothing,   *)
(* but a transaction keeps the connection it has.                           *)
Accepting      == phase \in {"serving", "draining"}
ConnectionFree == conn = NoWorker /\ phase # "closed"

(* Shorthands for what a call leaves alone and where it goes next. *)
Goto(w, call)   == pc' = [pc EXCEPT ![w] = call]
Answer(w, code) == /\ Goto(w, "respond")
                   /\ status' = [status EXCEPT ![w] = code]
Read            == ConnectionFree /\ UNCHANGED <<db, conn, tx, req, env>>
InTx(w)         == conn = w /\ UNCHANGED <<db, conn, req, env>>
Release         == conn' = NoWorker /\ tx' = NoTx

ReviewsInFlight == {w \in Workers : req[w].op = "review"}

(* decodeJSON and the checks on the body come before any store call. *)
ReceiveReview(w, c, rating, durationOk) ==
  /\ Accepting
  /\ pc[w] = "idle"
  /\ nextId + Cardinality(ReviewsInFlight) <= MaxReviews
  /\ Overlap \/ \A v \in ReviewsInFlight : req[v].card # c
  /\ req' = [req EXCEPT ![w] = [op |-> "review", card |-> c, rating |-> rating]]
  /\ IF Valid(rating) /\ durationOk
     THEN Goto(w, "getCard") /\ UNCHANGED status
     ELSE Answer(w, 400)
  /\ UNCHANGED <<db, conn, tx, local, env>>

GetCard(w) ==
  /\ pc[w] = "getCard"
  /\ Read
  /\ LET c == req[w].card IN
     CASE c \notin DOMAIN cards -> Answer(w, 404) /\ UNCHANGED local
       [] c \in DOMAIN cards /\ cards[c].suspended -> Answer(w, 409) /\ UNCHANGED local
       [] OTHER -> /\ local' = [local EXCEPT ![w] = [deck |-> cards[c].deck]]
                   /\ Goto(w, "getDeck")
                   /\ UNCHANGED status

GetDeck(w) ==
  /\ pc[w] = "getDeck"
  /\ Read
  /\ IF local[w].deck \in decks
     THEN Goto(w, "getState") /\ UNCHANGED status
     ELSE Answer(w, 404)
  /\ UNCHANGED local

GetCardState(w) ==
  /\ pc[w] = "getState"
  /\ Read
  /\ LET c == req[w].card IN
     IF c \in DOMAIN states
     THEN /\ local' = [local EXCEPT ![w] = [before |-> states[c]]]
          /\ Goto(w, "apply")
          /\ UNCHANGED status
     ELSE Answer(w, 404) /\ UNCHANGED local

(* schedulerFor, clock.Now, Apply and ReviewFrom: memory only. *)
ComputeReview(w) ==
  /\ pc[w] = "apply"
  /\ LET before == local[w].before IN
     local' = [local EXCEPT ![w] =
       [after  |-> Apply(before, req[w].rating, now),
        logRow |-> ReviewFrom(req[w].card, before, req[w].rating, now)]]
  /\ Goto(w, "begin")
  /\ UNCHANGED <<db, conn, tx, req, status, env>>

(* A new UUID and NewCardState are made before the transaction begins. *)
ReceiveCreate(w, c, d) ==
  /\ Accepting
  /\ pc[w] = "idle"
  /\ c \notin used
  /\ \A v \in Workers : req[v].op = "create" => req[v].card # c
  /\ req' = [req EXCEPT ![w] = [op |-> "create", card |-> c, deck |-> d]]
  /\ local' = [local EXCEPT ![w] = [at |-> now, after |-> NewCardState(now)]]
  /\ Goto(w, "begin")
  /\ UNCHANGED <<db, conn, tx, status, env>>

-----------------------------------------------------------------------------
(* withTx, and the statements ApplyReview and CreateCard run inside it. *)

BeginTx(w) ==
  /\ pc[w] = "begin"
  /\ ConnectionFree
  /\ conn' = w
  /\ tx' = CommittedView
  /\ Goto(w, IF req[w].op = "review" THEN "check" ELSE "deckExists")
  /\ UNCHANGED <<db, req, local, status, env>>

(* Mutant: the transaction is neither rolled back nor its connection freed. *)
RollbackLeaking(w, code) ==
  /\ conn = w
  /\ Answer(w, code)
  /\ UNCHANGED <<db, conn, tx, req, local, env>>

(* fn returned an error: roll back, and answer what storeError makes of it. *)
Rollback(w, code) ==
  /\ conn = w
  /\ Release
  /\ Answer(w, code)
  /\ UNCHANGED <<db, req, local, env>>

(* Mutant: the transaction only checks that the card exists. *)
CheckCardExists(w) ==
  /\ pc[w] = "check"
  /\ IF req[w].card \in DOMAIN tx.cards
     THEN InTx(w) /\ Goto(w, "upsert") /\ UNCHANGED <<tx, local, status>>
     ELSE Rollback(w, 404)

CheckCard(w) ==
  /\ pc[w] = "check"
  /\ LET c == req[w].card IN
     CASE c \notin DOMAIN tx.cards -> Rollback(w, 404)
       [] c \in DOMAIN tx.cards /\ tx.cards[c].suspended -> Rollback(w, 409)
       [] OTHER -> InTx(w) /\ Goto(w, "upsert") /\ UNCHANGED <<tx, local, status>>

(* Mutant: foreign keys are not enforced. *)
CheckDeckSkipped(w) ==
  /\ pc[w] = "deckExists"
  /\ InTx(w) /\ Goto(w, "insertCard") /\ UNCHANGED <<tx, local, status>>

CheckDeck(w) ==
  /\ pc[w] = "deckExists"
  /\ IF req[w].deck \in decks
     THEN InTx(w) /\ Goto(w, "insertCard") /\ UNCHANGED <<tx, local, status>>
     ELSE Rollback(w, 404)

InsertCard(w) ==
  /\ pc[w] = "insertCard"
  /\ InTx(w)
  /\ LET row == [deck |-> req[w].deck, suspended |-> FALSE, created |-> local[w].at]
     IN  tx' = [tx EXCEPT !.cards =
           [x \in DOMAIN @ \cup {req[w].card} |-> IF x = req[w].card THEN row ELSE @[x]]]
  /\ Goto(w, "upsert")
  /\ UNCHANGED <<local, status>>

UpsertState(w) ==
  /\ pc[w] = "upsert"
  /\ InTx(w)
  /\ tx' = [tx EXCEPT !.states =
       [x \in DOMAIN @ \cup {req[w].card} |->
          IF x = req[w].card THEN local[w].after ELSE @[x]]]
  /\ Goto(w, IF req[w].op = "review" THEN "append" ELSE "commit")
  /\ UNCHANGED <<local, status>>

AppendReview(w) ==
  /\ pc[w] = "append"
  /\ InTx(w)
  /\ LET row == [local[w].logRow EXCEPT !.id = tx.nextId] IN
     /\ tx' = [tx EXCEPT !.reviews = @ \cup {row}, !.nextId = @ + 1]
     /\ local' = [local EXCEPT ![w].logRow = row]
  /\ Goto(w, "commit")
  /\ UNCHANGED status

Publish ==
  /\ cards' = tx.cards
  /\ states' = tx.states
  /\ reviews' = tx.reviews
  /\ nextId' = tx.nextId
  /\ used' = used \cup DOMAIN tx.cards
  /\ UNCHANGED decks

Commit(w) ==
  /\ pc[w] = "commit"
  /\ conn = w
  /\ Publish
  /\ Release
  /\ Answer(w, IF req[w].op = "review" THEN 200 ELSE 201)
  /\ UNCHANGED <<req, local, env>>

(* The response leaves, or is lost with its client: the goroutine ends. *)
Respond(w) ==
  /\ pc[w] = "respond"
  /\ Goto(w, "idle")
  /\ req' = [req EXCEPT ![w] = NoRequest]
  /\ local' = [local EXCEPT ![w] = Blank]
  /\ status' = [status EXCEPT ![w] = 0]
  /\ UNCHANGED <<db, conn, tx, env>>

(* Mutant: a log row that cannot be written does not undo the schedule. *)
FailCommitting(w) ==
  /\ pc[w] \in Calls
  /\ IF conn = w THEN Release ELSE UNCHANGED <<conn, tx>>
  /\ IF pc[w] = "append" THEN Publish ELSE UNCHANGED db
  /\ Answer(w, 500)
  /\ UNCHANGED <<req, local, env>>

(* Mutant: the error of the commit is not returned. *)
FailCommitIgnored(w) ==
  /\ pc[w] \in Calls
  /\ IF conn = w THEN Release ELSE UNCHANGED <<conn, tx>>
  /\ Answer(w, IF pc[w] = "commit" THEN 200 ELSE 500)
  /\ UNCHANGED <<db, req, local, env>>

(* A call fails: an SQL error, an engine error, a panic, or the request's   *)
(* context cancelled because its client went away.                          *)
Fail(w) ==
  /\ pc[w] \in Calls
  /\ IF conn = w THEN Release ELSE UNCHANGED <<conn, tx>>
  /\ Answer(w, 500)
  /\ UNCHANGED <<db, req, local, env>>

-----------------------------------------------------------------------------
(* The handlers that change the database in a single statement. *)
Statement == Accepting /\ conn = NoWorker /\ UNCHANGED <<conn, tx, pc, req, local, status, env>>

CreateDeck(d)          == Statement /\ Ledger!CreateDeck(d)
DeleteDeck(d)          == Statement /\ Ledger!DeleteDeck(d)
DeleteCard(c)          == Statement /\ Ledger!DeleteCard(c)
SetSuspended(c, value) == Statement /\ Ledger!SetCardSuspended(c, value)

(* The process ends and its goroutines with it; what was committed remains. *)
End ==
  /\ Release
  /\ pc' = [w \in Workers |-> "idle"]
  /\ req' = [w \in Workers |-> NoRequest]
  /\ local' = [w \in Workers |-> Blank]
  /\ status' = [w \in Workers |-> 0]
  /\ phase' = "down"
  /\ UNCHANGED <<db, now>>

Move(from, to) ==
  /\ phase = from
  /\ phase' = to
  /\ UNCHANGED <<db, conn, tx, pc, req, local, status, now>>

Busy == \E w \in Workers : pc[w] # "idle"

(* It is killed. *)
Crash == phase # "down" /\ Busy /\ End

(* SIGTERM or SIGINT: Shutdown begins to wait for the handlers. *)
Signal == Move("serving", "draining")

(* Shutdown returns with every handler done, the store is closed: goodbye.  *)
Drained == phase = "draining" /\ ~Busy /\ End

(* Mutant: Shutdown waits as long as it takes. *)
GraceUnlimited == ~Busy /\ Move("draining", "closed")

(* Shutdown gives up, or the listener fails: run returns, and its deferred  *)
(* Close takes the store from under the handlers that are left ...          *)
GraceExpires  == Busy /\ Move("draining", "closed")
ListenerFails == Move("serving", "closed")

(* ... until main exits. *)
Exit == phase = "closed" /\ End

(* Started again, by hand or by systemd. *)
Start == Move("down", "serving")

(* Time passes, or the machine's clock is set. *)
SetClock(t) ==
  /\ t # now
  /\ now' = t
  /\ UNCHANGED <<db, conn, tx, pc, req, local, status, phase>>

-----------------------------------------------------------------------------
Handle(w) ==
  \/ GetCard(w) \/ GetDeck(w) \/ GetCardState(w) \/ ComputeReview(w)
  \/ BeginTx(w) \/ CheckCard(w) \/ CheckDeck(w) \/ InsertCard(w)
  \/ UpsertState(w) \/ AppendReview(w) \/ Commit(w) \/ Respond(w)

Receive(w) ==
  \/ \E c \in Cards, rating \in SubmitRatings, durationOk \in BOOLEAN :
       ReceiveReview(w, c, rating, durationOk)
  \/ \E c \in Cards, d \in Decks : ReceiveCreate(w, c, d)

Next ==
  \/ \E w \in Workers : Receive(w) \/ Handle(w) \/ Fail(w)
  \/ \E d \in Decks : CreateDeck(d) \/ DeleteDeck(d)
  \/ \E c \in Cards : DeleteCard(c) \/ \E value \in BOOLEAN : SetSuspended(c, value)
  \/ Crash \/ Signal \/ Drained \/ GraceExpires \/ ListenerFails \/ Exit \/ Start
  \/ \E t \in Times : SetClock(t)

Spec == Init /\ [][Next]_vars

(* Whenever the pool's connection is freed one of those waiting for it gets *)
(* it, so a call that could run again and again is not passed over for ever.*)
(* The grace period ends, and so does a process whose main has returned.    *)
FairSpec ==
  /\ Spec
  /\ \A w \in Workers : SF_vars(Handle(w))
  /\ WF_vars(Drained \/ GraceExpires)
  /\ WF_vars(Exit)

-----------------------------------------------------------------------------
(* Each variable ranges over what the program puts in it; a transaction     *)
(* that is open is that of the worker inside one.                           *)
TypeOK ==
  /\ Ledger!TypeOK
  /\ pc \in [Workers -> Calls \cup {"idle", "respond"}]
  /\ status \in [Workers -> {0, 200, 201, 400, 404, 409, 500}]
  /\ now \in Times
  /\ phase \in {"serving", "draining", "closed", "down"}
  /\ phase = "down" => ~Busy
  /\ conn \in Workers \cup {NoWorker}
  /\ \A w \in Workers : conn = w <=> pc[w] \in TxCalls
  /\ conn = NoWorker => tx = NoTx

(* CreateCard's transaction and the cascades: no card is ever committed     *)
(* without a schedule, no schedule or row outlives its card.                *)
ScheduleExists == Ledger!ScheduleExists

(* No review is lost from a card's schedule: reps and lapses count the rows *)
(* of its log, although the schedule was read before the transaction.       *)
RepsCountReviews == Ledger!RepsCountReviews

(* The schedule is one that the rating of the row led to: remaining_steps,  *)
(* which are at most two, are not logged.                                   *)
OutcomeOf(st, rv) ==
  /\ st.last = rv.at
  /\ st.elapsed = rv.elapsed
  /\ \E steps \in 0..2 :
       LET before == [state |-> rv.state, steps |-> steps]
       IN  /\ st.state = NextState(before, rv.rating)
           /\ st.due = rv.at + Interval(before, rv.rating)

(* ApplyReview writes the schedule and the log row together: the schedule   *)
(* of a card always is the outcome of the last row of its log, and a new    *)
(* card has none.                                                           *)
StateIsLastRow ==
  \A c \in DOMAIN cards :
    LET rows == {rv \in reviews : rv.card = c} IN
    IF rows = {} THEN states[c] = NewCardState(cards[c].created)
    ELSE OutcomeOf(states[c],
                   CHOOSE rv \in rows : \A other \in rows : other.id <= rv.id)

(* A card that is suspended when a review commits stays as it was, even     *)
(* though the handler found it unsuspended when it looked.                  *)
SuspendedFrozen == Ledger!SuspendedFrozen

(* What a client is told is what happened: 200 means that the log holds the *)
(* row just written, any error that the request has written nothing.        *)
AnswersTruthful ==
  [][\A w \in Workers :
       pc[w] # "respond" /\ pc'[w] = "respond" /\ req[w].op = "review" =>
         IF status'[w] = 200
         THEN local'[w].logRow \in reviews' \ reviews
         ELSE reviews' = reviews /\ states' = states]_vars

(* Every request is answered, or the process ends, whatever the others do   *)
(* to the connection and also when the store is closed in the middle.       *)
RequestAnswered ==
  \A w \in Workers : pc[w] # "idle" ~> pc[w] = "idle"

(* A signal ends the process, however many requests keep arriving.          *)
StopsWhenTold == phase = "draining" ~> phase = "down"

(* Under a client that has one review of a card in flight at a time, the    *)
(* handlers implement the atomic ledger.                                    *)
ImplementsLedger == Ledger!Spec
=============================================================================
