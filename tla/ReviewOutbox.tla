----------------------------- MODULE ReviewOutbox -----------------------------
(***************************************************************************)
(* The client's review outbox (app/lib/reviewQueue.ts), with the network   *)
(* and the server it submits to.                                           *)
(*                                                                         *)
(* Each action is one turn of the JavaScript event loop: a call of the     *)
(* outbox, the settling of the promise of a submission, or a retry timer.  *)
(* notify and flush run to the end within the turn that calls them.        *)
(*                                                                         *)
(* A submission the client has given up on may still be under way: the     *)
(* server may apply it later.  How often a review was attempted only       *)
(* decides how long the retry timer runs, which has no length here.        *)
(*                                                                         *)
(* The outbox lives in the page's memory: a reload forgets what it holds.  *)
(***************************************************************************)
EXTENDS Naturals, Sequences, Functions

CONSTANTS
  Reviews,     \* the ratings the user gives, each one a review
  Waiters,     \* callers of drain()
  Poisoned,    \* reviews that make the server answer 500, each time
  MaxReloads   \* bound: reloads of the page

ASSUME OutboxAssumption == Poisoned \subseteq Reviews /\ MaxReloads \in Nat

VARIABLES
  queue,       \* reviews waiting to be accepted, in order
  failed,      \* reviews refused for good
  busy,        \* a submission is in flight or a retry is scheduled
  timer,       \* a retry is scheduled
  waiters,     \* callers whose drain() has not resolved
  call,        \* where the submission in flight has got to
  stray,       \* reviews with an abandoned submission still under way
  applied,     \* reviews the server has applied
  settled,     \* history: reviews whose submission resolved
  rated,       \* history: the reviews in the order the user gave them
  retried,     \* history: retryFailed has put something back
  forgotten,   \* history: reviews the outbox held when the page was reloaded
  reloads      \* history: how often it was

outbox  == <<queue, failed, busy, timer, waiters>>
lives   == <<forgotten, reloads>>
history == <<settled, rated, retried, lives>>
vars    == <<outbox, call, stray, applied, history>>

Empty == << >>

(* No submission; one on its way; or an answer on its way back: the server  *)
(* applied it, refused it (4xx) or failed (500), or the answer is not       *)
(* kaartd's and carries no code the client knows.                           *)
CallStates == {"none", "sent", "applied", "refused", "error", "unknown"}

(* ApiError and not retryable *)
IsPermanent(answer) == answer \in {"refused", "unknown"}

-----------------------------------------------------------------------------
Init ==
  /\ queue = Empty /\ failed = Empty /\ rated = Empty
  /\ busy = FALSE /\ timer = FALSE /\ retried = FALSE
  /\ waiters = {}
  /\ call = "none"
  /\ stray = {} /\ applied = {} /\ settled = {}
  /\ forgotten = {} /\ reloads = 0

(* Mutant: an empty queue resolves no drain. *)
FlushSilently(q, wasBusy) ==
  /\ queue' = q
  /\ IF wasBusy THEN UNCHANGED <<busy, call>>
     ELSE busy' = (q # Empty) /\ call' = IF q = Empty THEN "none" ELSE "sent"
  /\ UNCHANGED waiters

(* flush() and the notify() it starts with, run when q is the queue: submit *)
(* the head unless a submission or a retry is pending; with nothing to do,  *)
(* resolve the drains.                                                      *)
Flush(q, wasBusy) ==
  /\ queue' = q
  /\ IF wasBusy
     THEN UNCHANGED <<busy, call, waiters>>
     ELSE IF q = Empty
          THEN busy' = FALSE /\ call' = "none" /\ waiters' = {}
          ELSE busy' = TRUE /\ call' = "sent" /\ UNCHANGED waiters

Enqueue(r) ==
  /\ r \notin Range(rated)
  /\ rated' = Append(rated, r)
  /\ Flush(Append(queue, r), busy)
  /\ UNCHANGED <<failed, timer, stray, applied, settled, retried, lives>>

Drain(w) ==
  /\ w \notin waiters
  /\ queue # Empty \/ busy
  /\ waiters' = waiters \cup {w}
  /\ UNCHANGED <<queue, failed, busy, timer, call, stray, applied, history>>

(* Mutant: what was set aside is emptied before it is put back. *)
RetryFailedDropping ==
  /\ failed # Empty
  /\ failed' = Empty
  /\ retried' = TRUE
  /\ Flush(queue, busy)
  /\ UNCHANGED <<timer, stray, applied, settled, rated, lives>>

RetryFailed ==
  /\ failed # Empty
  /\ failed' = Empty
  /\ retried' = TRUE
  /\ Flush(queue \o failed, busy)
  /\ UNCHANGED <<timer, stray, applied, settled, rated, lives>>

(* Mutant: any answer that has a body is taken for success. *)
SubmitOkAnyBody ==
  /\ call \in {"applied", "unknown"}
  /\ settled' = settled \cup {Head(queue)}
  /\ Flush(Tail(queue), FALSE)
  /\ UNCHANGED <<failed, timer, stray, applied, rated, retried, lives>>

(* .then: the server's 2xx has arrived. *)
SubmitOk ==
  /\ call = "applied"
  /\ settled' = settled \cup {Head(queue)}
  /\ Flush(Tail(queue), FALSE)
  /\ UNCHANGED <<failed, timer, stray, applied, rated, retried, lives>>

(* Mutant: the refused review is dropped. *)
SubmitRefusedDropping ==
  /\ IsPermanent(call)
  /\ Flush(Tail(queue), FALSE)
  /\ UNCHANGED <<failed, timer, stray, applied, history>>

(* Mutant: the next review is not submitted. *)
SubmitRefusedStalling ==
  /\ IsPermanent(call)
  /\ failed' = Append(failed, Head(queue))
  /\ queue' = Tail(queue) /\ busy' = FALSE /\ call' = "none"
  /\ UNCHANGED <<timer, waiters, stray, applied, history>>

(* .catch with a permanent error: set the review aside, go on. *)
SubmitRefused ==
  /\ IsPermanent(call)
  /\ failed' = Append(failed, Head(queue))
  /\ Flush(Tail(queue), FALSE)
  /\ UNCHANGED <<timer, stray, applied, history>>

(* Mutant: the review that failed lets the others pass. *)
SubmitRetryableYielding ==
  /\ call # "none"
  /\ stray' = IF call = "sent" THEN stray \cup {Head(queue)} ELSE stray
  /\ queue' = Append(Tail(queue), Head(queue))
  /\ call' = "none"
  /\ timer' = TRUE
  /\ UNCHANGED <<failed, busy, waiters, applied, history>>

(* .catch with an error worth retrying: a 500, or no answer at all, which   *)
(* may leave the request under way.                                         *)
SubmitRetryable ==
  /\ call # "none"
  /\ stray' = IF call = "sent" THEN stray \cup {Head(queue)} ELSE stray
  /\ call' = "none"
  /\ timer' = TRUE
  /\ UNCHANGED <<queue, failed, busy, waiters, applied, history>>

(* Mutant: busy is still set when the timer's flush runs. *)
RetryTimerBusy ==
  /\ timer
  /\ timer' = FALSE
  /\ Flush(queue, busy)
  /\ UNCHANGED <<failed, stray, applied, history>>

RetryTimer ==
  /\ timer
  /\ timer' = FALSE
  /\ Flush(queue, FALSE)
  /\ UNCHANGED <<failed, stray, applied, history>>

(* The page is reloaded, or the app ended and started again: a new outbox,  *)
(* empty, and a submission that was in flight is nobody's.                  *)
Reload ==
  /\ queue # Empty \/ failed # Empty
  /\ reloads < MaxReloads
  /\ queue' = Empty /\ failed' = Empty
  /\ busy' = FALSE /\ timer' = FALSE /\ waiters' = {}
  /\ stray' = IF call = "sent" THEN stray \cup {Head(queue)} ELSE stray
  /\ call' = "none"
  /\ forgotten' = forgotten \cup Range(queue) \cup Range(failed)
  /\ reloads' = reloads + 1
  /\ UNCHANGED <<applied, settled, rated, retried>>

-----------------------------------------------------------------------------
(* The server handles the submission in flight. *)
ServerApplies ==
  /\ call = "sent"
  /\ Head(queue) \notin Poisoned
  /\ call' = "applied"
  /\ applied' = applied \cup {Head(queue)}
  /\ UNCHANGED <<outbox, stray, history>>

ServerRefuses ==
  /\ call = "sent"
  /\ call' = "refused"
  /\ UNCHANGED <<outbox, stray, applied, history>>

ServerFails ==
  /\ call = "sent"
  /\ call' = "error"
  /\ UNCHANGED <<outbox, stray, applied, history>>

(* Something between the two answers in kaartd's place: a proxy's error     *)
(* page, or a body that cannot be read.                                     *)
ProxyAnswers ==
  /\ call \in {"sent", "applied"}
  /\ stray' = IF call = "sent" THEN stray \cup {Head(queue)} ELSE stray
  /\ call' = "unknown"
  /\ UNCHANGED <<outbox, applied, history>>

(* An abandoned submission reaches the server after all, or never does. *)
StrayApplied(r) ==
  /\ r \in stray
  /\ r \notin Poisoned
  /\ stray' = stray \ {r}
  /\ applied' = applied \cup {r}
  /\ UNCHANGED <<outbox, call, history>>

StrayLost(r) ==
  /\ r \in stray
  /\ stray' = stray \ {r}
  /\ UNCHANGED <<outbox, call, applied, history>>

-----------------------------------------------------------------------------
Answered == SubmitOk \/ SubmitRefused

Next ==
  \/ \E r \in Reviews : Enqueue(r) \/ StrayApplied(r) \/ StrayLost(r)
  \/ \E w \in Waiters : Drain(w)
  \/ RetryFailed \/ SubmitOk \/ SubmitRefused \/ SubmitRetryable \/ RetryTimer \/ Reload
  \/ ServerApplies \/ ServerRefuses \/ ServerFails \/ ProxyAnswers

Spec == Init /\ [][Next]_vars

(* A poisoned review stands first and holds up all behind it. *)
Blocked == queue # Empty /\ Head(queue) \in Poisoned

(* The event loop runs every due timer, and the promise of every fetch      *)
(* settles, at the latest when its connection fails.  The server comes      *)
(* back: of attempts made for ever, some are handled and some answered, but *)
(* nothing says that a poisoned review ever is.                             *)
FairSpec ==
  /\ Spec
  /\ WF_vars(RetryTimer)
  /\ WF_vars(call # "none" /\ (Answered \/ SubmitRetryable))
  /\ SF_vars(~Blocked /\ (ServerApplies \/ ServerRefuses))
  /\ SF_vars(Answered)

-----------------------------------------------------------------------------
TypeOK ==
  /\ queue \in Seq(Reviews) /\ failed \in Seq(Reviews) /\ rated \in Seq(Reviews)
  /\ busy \in BOOLEAN /\ timer \in BOOLEAN /\ retried \in BOOLEAN
  /\ waiters \subseteq Waiters
  /\ call \in CallStates
  /\ stray \subseteq Reviews /\ applied \subseteq Reviews /\ settled \subseteq Reviews
  /\ forgotten \subseteq Reviews /\ reloads \in 0..MaxReloads

(* Whenever a review waits, a submission is in flight or a retry scheduled, *)
(* and never both: the outbox neither stalls nor submits twice at once.     *)
NeverStalls ==
  /\ queue # Empty <=> busy
  /\ busy <=> (call # "none" \/ timer)
  /\ ~(call # "none" /\ timer)

(* A caller of drain() still waits only while there is something to drain.  *)
DrainsAwaitWork == waiters # {} => queue # Empty

(* No rating is lost and none is held twice, whatever the network does:     *)
(* each is waiting, set aside or accepted, in exactly one place, and only   *)
(* a reload forgets any, none that was accepted.                            *)
NothingLost ==
  /\ Range(rated) = Range(queue) \cup Range(failed) \cup settled \cup forgotten
  /\ Range(queue) \cap Range(failed) = {}
  /\ (settled \cup forgotten) \cap (Range(queue) \cup Range(failed)) = {}
  /\ settled \cap forgotten = {}
  /\ IsInjective(queue) /\ IsInjective(failed)
  /\ reloads = 0 => forgotten = {}

(* What the outbox drops as accepted, the server has applied. *)
AcceptedWasApplied == settled \subseteq applied

(* The inductive invariant of ReviewOutboxProofs: settling relies on the    *)
(* review in flight still being the head of the queue, and the one applied. *)
IInv ==
  /\ TypeOK
  /\ NeverStalls
  /\ DrainsAwaitWork
  /\ NothingLost
  /\ AcceptedWasApplied
  /\ call = "applied" => Head(queue) \in applied

(* "Reviews are submitted strictly in order": while a review is submitted,  *)
(* no review rated after it has been submitted before it, so none has been  *)
(* accepted and none applied.                                               *)
StrictOrder ==
  call # "none" =>
    \A i, j \in DOMAIN rated :
      rated[i] = Head(queue) /\ i < j =>
        rated[j] \notin applied \cup settled \cup stray

(* "Killing kaartd does not lose reviews, they land when it comes back": a  *)
(* review is set aside only when kaartd itself refused it.                  *)
OutlivesOutage == [][failed' # failed /\ failed' # Empty => call = "refused"]_vars

(* The order does hold until the user retries what was set aside. *)
OrderUntilRetried == ~retried => StrictOrder

-----------------------------------------------------------------------------
(* Every review waiting is eventually accepted or set aside (or forgotten   *)
(* by a reload), unless a poisoned one stands first for ever.               *)
EventuallySettled ==
  \/ <>[]Blocked
  \/ \A r \in Reviews : r \in Range(queue) ~> r \notin Range(queue)

(* Every drain() resolves, unless the user retries refused reviews for ever *)
(* or a poisoned one stands first for ever.                                 *)
DrainResolves ==
  \/ <>[]Blocked
  \/ []<><<RetryFailed>>_vars
  \/ \A w \in Waiters : w \in waiters ~> w \notin waiters

Fate == [r \in Reviews |->
  IF r \in Range(queue) THEN "pending"
  ELSE IF r \in Range(failed) THEN "failed"
  ELSE IF r \in settled THEN "done"
  ELSE IF r \in forgotten THEN "forgotten"
  ELSE "unrated"]

Promise == INSTANCE Delivery WITH fate <- Fate

(* The outbox implements at-least-once delivery. *)
ImplementsDelivery == Promise!Spec
=============================================================================
