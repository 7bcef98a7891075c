-------------------------- MODULE ReviewOutboxProofs --------------------------
(* Proofs about ReviewOutbox for any set of reviews and of drain callers.   *)
EXTENDS ReviewOutbox, SequenceTheorems, TLAPS

(* Pushing a review the sequence does not hold adds it, once. *)
LEMMA RangeOfAppend ==
  ASSUME NEW S, NEW s \in Seq(S), NEW e \in S
  PROVE  /\ Append(s, e) \in Seq(S)
         /\ Append(s, e) # << >>
         /\ Range(Append(s, e)) = Range(s) \cup {e}
         /\ IsInjective(s) /\ e \notin Range(s) => IsInjective(Append(s, e))
  BY AppendProperties, LenProperties DEF Range, IsInjective

(* Shifting the head removes it, and only it, when nothing is held twice. *)
LEMMA RangeOfTail ==
  ASSUME NEW S, NEW s \in Seq(S), s # << >>
  PROVE  /\ Tail(s) \in Seq(S)
         /\ Head(s) \in Range(s)
         /\ Range(s) = Range(Tail(s)) \cup {Head(s)}
         /\ IsInjective(s) => IsInjective(Tail(s)) /\ Head(s) \notin Range(Tail(s))
<1>1. /\ Tail(s) \in Seq(S)
      /\ Len(Tail(s)) = Len(s) - 1
      /\ \A i \in 1..Len(Tail(s)) : Tail(s)[i] = s[i + 1]
  BY HeadTailProperties
<1>2. /\ DOMAIN s = 1..Len(s)
      /\ DOMAIN Tail(s) = 1..(Len(s) - 1)
      /\ Len(s) \in Nat \ {0}
      /\ Head(s) = s[1]
  BY <1>1, LenProperties, EmptySeq
<1>3. Range(s) = Range(Tail(s)) \cup {Head(s)}
  <2>1. ASSUME NEW i \in DOMAIN s PROVE s[i] \in Range(Tail(s)) \cup {Head(s)}
    <3>1. CASE i = 1
      BY <1>2, <3>1
    <3>2. CASE i # 1
      <4>1. i - 1 \in 1..Len(Tail(s)) /\ Tail(s)[i - 1] = s[i]
        BY <1>1, <1>2, <3>2
      <4> QED
        BY <1>1, <1>2, <4>1 DEF Range
    <3> QED
      BY <3>1, <3>2
  <2>2. ASSUME NEW i \in DOMAIN Tail(s) PROVE Tail(s)[i] \in Range(s)
    BY <1>1, <1>2 DEF Range
  <2> QED
    BY <1>2, <2>1, <2>2 DEF Range
<1>4. ASSUME IsInjective(s) PROVE IsInjective(Tail(s)) /\ Head(s) \notin Range(Tail(s))
  BY <1>1, <1>2, <1>4 DEF IsInjective, Range
<1> QED
  BY <1>1, <1>3, <1>4

(* Concatenating two sequences that share nothing keeps both. *)
LEMMA RangeOfConcat ==
  ASSUME NEW S, NEW s \in Seq(S), NEW t \in Seq(S)
  PROVE  /\ s \o t \in Seq(S)
         /\ Range(s \o t) = Range(s) \cup Range(t)
         /\ IsInjective(s) /\ IsInjective(t) /\ Range(s) \cap Range(t) = {}
              => IsInjective(s \o t)
<1> DEFINE u == s \o t
<1>1. /\ u \in Seq(S)
      /\ DOMAIN u = 1..(Len(s) + Len(t))
      /\ DOMAIN s = 1..Len(s) /\ DOMAIN t = 1..Len(t)
      /\ Len(s) \in Nat /\ Len(t) \in Nat
      /\ \A i \in 1..(Len(s) + Len(t)) : u[i] = IF i <= Len(s) THEN s[i] ELSE t[i - Len(s)]
  BY ConcatProperties, LenProperties
<1> HIDE DEF u
<1>2. \A i \in DOMAIN s : i \in DOMAIN u /\ u[i] = s[i]
  BY <1>1
<1>3. \A i \in DOMAIN t : i + Len(s) \in DOMAIN u /\ u[i + Len(s)] = t[i]
  BY <1>1
<1>4. \A i \in DOMAIN u :
        i \notin DOMAIN s => i - Len(s) \in DOMAIN t /\ u[i] = t[i - Len(s)]
  BY <1>1
<1>5. Range(u) = Range(s) \cup Range(t)
  <2>1. ASSUME NEW i \in DOMAIN u PROVE u[i] \in Range(s) \cup Range(t)
    BY <1>2, <1>4 DEF Range
  <2>2. ASSUME NEW i \in DOMAIN s PROVE s[i] \in Range(u)
    BY <1>2 DEF Range
  <2>3. ASSUME NEW i \in DOMAIN t PROVE t[i] \in Range(u)
    BY <1>3 DEF Range
  <2> QED
    BY <2>1, <2>2, <2>3 DEF Range
<1>6. ASSUME IsInjective(s), IsInjective(t), Range(s) \cap Range(t) = {}
      PROVE  IsInjective(u)
  <2> SUFFICES ASSUME NEW i \in DOMAIN u, NEW j \in DOMAIN u, u[i] = u[j] PROVE i = j
    BY DEF IsInjective
  <2>1. CASE i \in DOMAIN s /\ j \in DOMAIN s
    BY <1>2, <1>6, <2>1 DEF IsInjective
  <2>2. CASE i \notin DOMAIN s /\ j \notin DOMAIN s
    <3>1. i - Len(s) = j - Len(s)
      BY <1>4, <1>6, <2>2 DEF IsInjective
    <3> QED
      BY <1>1, <3>1
  <2>3. ASSUME NEW k \in DOMAIN u, NEW l \in DOMAIN u, k \in DOMAIN s, l \notin DOMAIN s
        PROVE  u[k] # u[l]
    <3>1. u[k] \in Range(s)
      BY <1>2, <2>3 DEF Range
    <3>2. u[l] \in Range(t)
      BY <1>4, <2>3 DEF Range
    <3> QED
      BY <1>6, <3>1, <3>2
  <2> QED
    BY <2>1, <2>2, <2>3
<1> QED
  BY <1>1, <1>5, <1>6 DEF u

-----------------------------------------------------------------------------
LEMMA RangeOfEmpty == Range(Empty) = {} /\ IsInjective(Empty) /\ Empty \in Seq(Reviews)
  BY EmptySeq DEF Range, IsInjective, Empty

LEMMA InitIInv == Init => IInv
<1> SUFFICES ASSUME Init PROVE IInv
  OBVIOUS
<1>1. reloads \in 0..MaxReloads
  BY OutboxAssumption DEF Init
<1>2. TypeOK
  BY <1>1, RangeOfEmpty DEF Init, TypeOK, CallStates
<1>3. NeverStalls /\ DrainsAwaitWork /\ AcceptedWasApplied
  BY DEF Init, NeverStalls, DrainsAwaitWork, AcceptedWasApplied
<1>4. NothingLost
  BY RangeOfEmpty DEF Init, NothingLost
<1> QED
  BY <1>2, <1>3, <1>4 DEF IInv, Init

LEMMA EnqueueStep ==
  ASSUME IInv, NEW r \in Reviews, Enqueue(r)
  PROVE  IInv'
<1> DEFINE q == Append(queue, r)
<1>1. /\ q \in Seq(Reviews) /\ q # Empty
      /\ Range(q) = Range(queue) \cup {r}
      /\ IsInjective(queue) /\ r \notin Range(queue) => IsInjective(q)
  BY RangeOfAppend DEF IInv, TypeOK, Empty
<1>2. /\ rated' \in Seq(Reviews)
      /\ Range(rated') = Range(rated) \cup {r}
  BY RangeOfAppend DEF IInv, TypeOK, Enqueue
<1>3. r \notin Range(queue) \cup Range(failed) \cup settled \cup forgotten
  BY DEF IInv, NothingLost, Enqueue
<1>4. queue # Empty => Head(q) = Head(queue)
  BY HeadTailAppend DEF IInv, TypeOK, Empty
<1>5. /\ Flush(q, busy)
      /\ UNCHANGED <<failed, timer, stray, applied, settled, retried, lives>>
  BY DEF Enqueue
<1> HIDE DEF q
<1>6. TypeOK' /\ NeverStalls' /\ DrainsAwaitWork'
  BY <1>1, <1>2, <1>5 DEF IInv, TypeOK, CallStates, NeverStalls, DrainsAwaitWork, Flush, lives
<1>7. NothingLost'
  BY <1>1, <1>2, <1>3, <1>5 DEF IInv, NothingLost, Flush, lives
<1>8. AcceptedWasApplied' /\ (call' = "applied" => Head(queue') \in applied')
  BY <1>4, <1>5 DEF IInv, AcceptedWasApplied, NeverStalls, Flush
<1> QED
  BY <1>6, <1>7, <1>8 DEF IInv

LEMMA RetryFailedStep == IInv /\ RetryFailed => IInv'
<1> SUFFICES ASSUME IInv, RetryFailed PROVE IInv'
  OBVIOUS
<1> DEFINE q == queue \o failed
<1>1. /\ q \in Seq(Reviews)
      /\ Range(q) = Range(queue) \cup Range(failed)
      /\ IsInjective(q)
  BY RangeOfConcat DEF IInv, TypeOK, NothingLost
<1>2. q # Empty
  BY ConcatProperties, EmptySeq DEF IInv, TypeOK, Empty, RetryFailed
<1>3. queue # Empty => Head(q) = Head(queue)
  BY ConcatProperties, EmptySeq, LenProperties DEF IInv, TypeOK, Empty
<1>4. /\ failed' = Empty /\ retried' = TRUE
      /\ Flush(q, busy)
      /\ UNCHANGED <<timer, stray, applied, settled, rated, lives>>
  BY DEF RetryFailed
<1>5. Range(Empty) = {} /\ IsInjective(Empty) /\ Empty \in Seq(Reviews)
  BY RangeOfEmpty
<1> HIDE DEF q
<1>6. TypeOK' /\ NeverStalls' /\ DrainsAwaitWork'
  BY <1>1, <1>2, <1>4, <1>5 DEF IInv, TypeOK, CallStates, NeverStalls, DrainsAwaitWork, Flush, lives
<1>7. NothingLost'
  BY <1>1, <1>4, <1>5 DEF IInv, NothingLost, Flush, lives
<1>8. AcceptedWasApplied' /\ (call' = "applied" => Head(queue') \in applied')
  BY <1>3, <1>4 DEF IInv, AcceptedWasApplied, NeverStalls, Flush
<1> QED
  BY <1>6, <1>7, <1>8 DEF IInv

(* What a settled submission takes off the queue is its head. *)
LEMMA HeadLeaves ==
  ASSUME IInv, call # "none"
  PROVE  /\ queue # Empty
         /\ Head(queue) \in Reviews
         /\ Tail(queue) \in Seq(Reviews)
         /\ IsInjective(Tail(queue))
         /\ Range(queue) = Range(Tail(queue)) \cup {Head(queue)}
         /\ Head(queue) \notin Range(Tail(queue))
<1>1. queue # Empty /\ queue \in Seq(Reviews) /\ IsInjective(queue)
  BY DEF IInv, NeverStalls, TypeOK, NothingLost
<1> QED
  BY <1>1, RangeOfTail, HeadTailProperties DEF Empty

LEMMA SubmitOkStep == IInv /\ SubmitOk => IInv'
<1> SUFFICES ASSUME IInv, SubmitOk PROVE IInv'
  OBVIOUS
<1> DEFINE q == Tail(queue)
           r == Head(queue)
<1>1. /\ r \in Reviews /\ q \in Seq(Reviews) /\ IsInjective(q)
      /\ Range(queue) = Range(q) \cup {r} /\ r \notin Range(q)
  BY HeadLeaves DEF SubmitOk
<1>2. /\ call = "applied" /\ settled' = settled \cup {r}
      /\ Flush(q, FALSE)
      /\ UNCHANGED <<failed, timer, stray, applied, rated, retried, lives>>
  BY DEF SubmitOk
<1>3. r \in applied
  BY <1>2 DEF IInv
<1> HIDE DEF q, r
<1>4. TypeOK' /\ NeverStalls' /\ DrainsAwaitWork'
  BY <1>1, <1>2 DEF IInv, TypeOK, CallStates, NeverStalls, DrainsAwaitWork, Flush, lives
<1>5. NothingLost'
  BY <1>1, <1>2 DEF IInv, NothingLost, Flush, lives
<1>6. AcceptedWasApplied' /\ (call' = "applied" => Head(queue') \in applied')
  BY <1>2, <1>3 DEF IInv, AcceptedWasApplied, Flush
<1> QED
  BY <1>4, <1>5, <1>6 DEF IInv

LEMMA SubmitRefusedStep == IInv /\ SubmitRefused => IInv'
<1> SUFFICES ASSUME IInv, SubmitRefused PROVE IInv'
  OBVIOUS
<1> DEFINE q == Tail(queue)
           r == Head(queue)
<1>1. call # "none"
  BY DEF SubmitRefused, IsPermanent
<1>2. /\ r \in Reviews /\ q \in Seq(Reviews) /\ IsInjective(q)
      /\ Range(queue) = Range(q) \cup {r} /\ r \notin Range(q)
  BY <1>1, HeadLeaves
<1>3. /\ failed' = Append(failed, r)
      /\ Flush(q, FALSE)
      /\ UNCHANGED <<timer, stray, applied, settled, rated, retried, lives>>
  BY DEF SubmitRefused, history, lives
<1>4. r \notin Range(failed)
  BY <1>2 DEF IInv, NothingLost
<1>5. failed' \in Seq(Reviews) /\ Range(failed') = Range(failed) \cup {r} /\ IsInjective(failed')
  BY <1>2, <1>3, <1>4, RangeOfAppend DEF IInv, TypeOK, NothingLost
<1> HIDE DEF q, r
<1>6. TypeOK' /\ NeverStalls' /\ DrainsAwaitWork'
  BY <1>1, <1>2, <1>3, <1>5
     DEF IInv, TypeOK, CallStates, NeverStalls, DrainsAwaitWork, Flush, lives
<1>7. NothingLost'
  BY <1>2, <1>3, <1>5 DEF IInv, NothingLost, Flush, lives
<1>8. AcceptedWasApplied' /\ (call' = "applied" => Head(queue') \in applied')
  BY <1>3 DEF IInv, AcceptedWasApplied, Flush
<1> QED
  BY <1>6, <1>7, <1>8 DEF IInv

(* A reload empties both lists into the forgotten ones. *)
LEMMA ReloadStep == IInv /\ Reload => IInv'
<1> SUFFICES ASSUME IInv, Reload PROVE IInv'
  OBVIOUS
<1>1. Range(Empty) = {} /\ IsInjective(Empty) /\ Empty \in Seq(Reviews)
  BY RangeOfEmpty
<1>2. call = "sent" => Head(queue) \in Reviews
  BY HeadLeaves
<1>3. TypeOK'
  <2>1. Range(queue) \cup Range(failed) \subseteq Reviews
    BY LenProperties DEF IInv, TypeOK, Range
  <2>2. forgotten' \subseteq Reviews /\ reloads' \in 0..MaxReloads
    BY <2>1, OutboxAssumption DEF Reload, IInv, TypeOK
  <2> QED
    BY <1>1, <1>2, <2>2 DEF Reload, IInv, TypeOK, CallStates
<1>4. NeverStalls' /\ DrainsAwaitWork' /\ AcceptedWasApplied'
  BY DEF Reload, IInv, NeverStalls, DrainsAwaitWork, AcceptedWasApplied
<1>5. NothingLost'
  <2>1. /\ Range(rated') = Range(queue') \cup Range(failed') \cup settled' \cup forgotten'
        /\ settled' \cap forgotten' = {}
    BY <1>1 DEF Reload, IInv, NothingLost
  <2>2. reloads' # 0
    BY OutboxAssumption DEF Reload, IInv, TypeOK
  <2> QED
    BY <1>1, <2>1, <2>2 DEF Reload, NothingLost
<1> QED
  BY <1>3, <1>4, <1>5 DEF IInv, Reload

(* The remaining steps leave queue, failed, settled and rated alone. *)
LEMMA OtherStep ==
  ASSUME IInv,
         \/ \E r \in Reviews : StrayApplied(r) \/ StrayLost(r)
         \/ \E w \in Waiters : Drain(w)
         \/ SubmitRetryable \/ RetryTimer
         \/ ServerApplies \/ ServerRefuses \/ ServerFails \/ ProxyAnswers
  PROVE  IInv'
<1>1. UNCHANGED <<queue, failed, settled, rated, retried, lives>> /\ applied \subseteq applied'
  BY DEF StrayApplied, StrayLost, Drain, SubmitRetryable, RetryTimer, ServerApplies,
     ServerRefuses, ServerFails, ProxyAnswers, outbox, history, Flush
<1>2. call # "none" => Head(queue) \in Reviews
  BY HeadLeaves
<1>3. TypeOK' /\ NeverStalls' /\ DrainsAwaitWork'
  <2> USE DEF IInv, TypeOK, CallStates, NeverStalls, DrainsAwaitWork, outbox, history, lives
  <2>1. ASSUME NEW r \in Reviews, StrayApplied(r) \/ StrayLost(r)
        PROVE  TypeOK' /\ NeverStalls' /\ DrainsAwaitWork'
    BY <2>1 DEF StrayApplied, StrayLost
  <2>2. ASSUME NEW w \in Waiters, Drain(w)
        PROVE  TypeOK' /\ NeverStalls' /\ DrainsAwaitWork'
    BY <2>2 DEF Drain
  <2>3. CASE SubmitRetryable
    BY <1>2, <2>3 DEF SubmitRetryable
  <2>4. CASE RetryTimer
    BY <2>4 DEF RetryTimer, Flush
  <2>5. CASE ServerApplies
    BY <1>2, <2>5 DEF ServerApplies
  <2>6. CASE ServerRefuses \/ ServerFails
    BY <2>6 DEF ServerRefuses, ServerFails
  <2>7. CASE ProxyAnswers
    BY <1>2, <2>7 DEF ProxyAnswers
  <2> QED
    BY <2>1, <2>2, <2>3, <2>4, <2>5, <2>6, <2>7
<1>4. NothingLost'
  BY <1>1 DEF IInv, NothingLost, lives
<1>5. AcceptedWasApplied' /\ (call' = "applied" => Head(queue') \in applied')
  BY <1>1 DEF IInv, AcceptedWasApplied, Flush, StrayApplied, StrayLost, Drain,
     SubmitRetryable, RetryTimer, ServerApplies, ServerRefuses, ServerFails,
     ProxyAnswers, outbox, history
<1> QED
  BY <1>3, <1>4, <1>5 DEF IInv

LEMMA NextIInv == IInv /\ [Next]_vars => IInv'
<1> SUFFICES ASSUME IInv, [Next]_vars PROVE IInv'
  OBVIOUS
<1>1. CASE Next
  BY <1>1, EnqueueStep, RetryFailedStep, SubmitOkStep, SubmitRefusedStep, ReloadStep, OtherStep
     DEF Next
<1>2. CASE UNCHANGED vars
  BY <1>2 DEF vars, outbox, history, lives, IInv, TypeOK, NeverStalls, DrainsAwaitWork,
     NothingLost, AcceptedWasApplied
<1> QED
  BY <1>1, <1>2

-----------------------------------------------------------------------------
LEMMA Invariance == Spec => []IInv
  BY InitIInv, NextIInv, PTL DEF Spec

(* The outbox's variables keep their types. *)
THEOREM TypeCorrect == Spec => []TypeOK
  BY Invariance, PTL DEF IInv

(* A waiting review always has a submission in flight or a retry scheduled, *)
(* and there is never more than one of the two (flush and its busy flag).   *)
THEOREM OutboxNeverStalls == Spec => []NeverStalls
  BY Invariance, PTL DEF IInv

(* No drain() is left waiting on an empty outbox (notify). *)
THEOREM DrainsOnlyAwaitWork == Spec => []DrainsAwaitWork
  BY Invariance, PTL DEF IInv

(* Whatever the network does, however many reviews are given and retried,   *)
(* each is in exactly one place: waiting, set aside or accepted, unless a   *)
(* reload forgot it before it was accepted.                                 *)
THEOREM NothingIsLost == Spec => []NothingLost
  BY Invariance, PTL DEF IInv

(* The refinement.  An abandoned submission is always one of a review that  *)
(* was handed over, so that applying it late is a step of Delivery.         *)
StrayWasRated == stray \subseteq Range(rated)

LEMMA StrayStep == IInv /\ StrayWasRated /\ [Next]_vars => StrayWasRated'
<1> SUFFICES ASSUME IInv, StrayWasRated, [Next]_vars PROVE StrayWasRated'
  OBVIOUS
<1>1. call # "none" => Head(queue) \in Range(rated)
  BY HeadLeaves DEF IInv, NothingLost
<1>2. Range(rated) \subseteq Range(rated)'
  <2>1. ASSUME NEW r \in Reviews, Enqueue(r) PROVE Range(rated) \subseteq Range(rated)'
    BY <2>1, RangeOfAppend DEF Enqueue, IInv, TypeOK
  <2> QED
    BY <2>1 DEF Next, StrayApplied, StrayLost, Drain, RetryFailed, SubmitOk, SubmitRefused,
       SubmitRetryable, RetryTimer, Reload, ServerApplies, ServerRefuses, ServerFails,
       ProxyAnswers, outbox, history, vars
<1>3. stray' \subseteq stray \cup Range(rated)
  BY <1>1 DEF Next, Enqueue, StrayApplied, StrayLost, Drain, RetryFailed, SubmitOk,
     SubmitRefused, SubmitRetryable, RetryTimer, Reload, ServerApplies, ServerRefuses,
     ServerFails, ProxyAnswers, outbox, history, vars
<1> QED
  BY <1>2, <1>3 DEF StrayWasRated

LEMMA InitDelivery == Init => Promise!Init
  BY RangeOfEmpty DEF Init, Promise!Init, Fate

LEMMA FateIsFunction ==
  Fate = [x \in Reviews |-> Fate[x]] /\ Fate' = [x \in Reviews |-> Fate'[x]]
  BY DEF Fate

LEMMA EnqueueDelivers ==
  ASSUME IInv, NEW r \in Reviews, Enqueue(r)
  PROVE  Promise!HandOver(r)
<1>1. Range(queue') = Range(queue) \cup {r} /\ UNCHANGED <<failed, settled, forgotten, applied>>
  BY RangeOfAppend DEF Enqueue, Flush, IInv, TypeOK, lives
<1>2. r \notin Range(queue) \cup Range(failed) \cup settled \cup forgotten
  BY DEF Enqueue, IInv, NothingLost
<1>3. Fate[r] = "unrated" /\ Fate' = [Fate EXCEPT ![r] = "pending"]
  <2>1. Fate[r] = "unrated"
    BY <1>2 DEF Fate
  <2>2. ASSUME NEW x \in Reviews PROVE Fate'[x] = IF x = r THEN "pending" ELSE Fate[x]
    BY <1>1 DEF Fate
  <2> QED
    BY <2>1, <2>2, FateIsFunction
<1> QED
  BY <1>1, <1>3 DEF Promise!HandOver, Promise!Become

LEMMA SubmitOkDelivers == IInv /\ SubmitOk => Promise!Settle(Head(queue))
<1> SUFFICES ASSUME IInv, SubmitOk PROVE Promise!Settle(Head(queue))
  OBVIOUS
<1> DEFINE r == Head(queue)
<1>1. /\ r \in Reviews /\ r \in applied
      /\ Range(queue) = Range(queue') \cup {r} /\ r \notin Range(queue')
      /\ settled' = settled \cup {r}
      /\ UNCHANGED <<failed, forgotten, applied>>
  BY HeadLeaves DEF SubmitOk, Flush, lives, IInv
<1>2. r \notin Range(failed)
  BY <1>1 DEF IInv, NothingLost
<1> HIDE DEF r
<1>3. Fate[r] = "pending" /\ Fate' = [Fate EXCEPT ![r] = "done"]
  <2>1. Fate[r] = "pending"
    BY <1>1 DEF Fate
  <2>2. ASSUME NEW x \in Reviews PROVE Fate'[x] = IF x = r THEN "done" ELSE Fate[x]
    BY <1>1, <1>2 DEF Fate
  <2> QED
    BY <2>1, <2>2, FateIsFunction
<1> QED
  BY <1>1, <1>3 DEF Promise!Settle, Promise!Become, r

LEMMA SubmitRefusedDelivers == IInv /\ SubmitRefused => Promise!SetAside(Head(queue))
<1> SUFFICES ASSUME IInv, SubmitRefused PROVE Promise!SetAside(Head(queue))
  OBVIOUS
<1> DEFINE r == Head(queue)
<1>1. call # "none"
  BY DEF SubmitRefused, IsPermanent
<1>2. /\ r \in Reviews
      /\ Range(queue) = Range(queue') \cup {r} /\ r \notin Range(queue')
      /\ UNCHANGED <<settled, forgotten, applied>>
  BY <1>1, HeadLeaves DEF SubmitRefused, Flush, history, lives
<1>3. Range(failed') = Range(failed) \cup {r}
  BY <1>2, RangeOfAppend DEF SubmitRefused, IInv, TypeOK
<1> HIDE DEF r
<1>4. Fate[r] = "pending" /\ Fate' = [Fate EXCEPT ![r] = "failed"]
  <2>1. Fate[r] = "pending"
    BY <1>2 DEF Fate
  <2>2. ASSUME NEW x \in Reviews PROVE Fate'[x] = IF x = r THEN "failed" ELSE Fate[x]
    BY <1>2, <1>3 DEF Fate
  <2> QED
    BY <2>1, <2>2, FateIsFunction
<1> QED
  BY <1>2, <1>4 DEF Promise!SetAside, Promise!Become, r

LEMMA RetryFailedDelivers == IInv /\ RetryFailed => Promise!RetryFailed
<1> SUFFICES ASSUME IInv, RetryFailed PROVE Promise!RetryFailed
  OBVIOUS
<1>1. /\ Range(queue') = Range(queue) \cup Range(failed)
      /\ UNCHANGED <<settled, forgotten, applied>>
  BY RangeOfConcat DEF RetryFailed, Flush, IInv, TypeOK, lives
<1>2. Range(failed') = {}
  BY RangeOfEmpty DEF RetryFailed
<1>3. Fate' = [r \in Reviews |-> IF Fate[r] = "failed" THEN "pending" ELSE Fate[r]]
  BY <1>1, <1>2 DEF Fate
<1> QED
  BY <1>1, <1>3 DEF Promise!RetryFailed

LEMMA ReloadDelivers == IInv /\ Reload => Promise!Forget
<1> SUFFICES ASSUME IInv, Reload PROVE Promise!Forget
  OBVIOUS
<1>1. /\ Range(queue') = {} /\ Range(failed') = {}
      /\ forgotten' = forgotten \cup Range(queue) \cup Range(failed)
      /\ UNCHANGED <<settled, applied>>
  BY RangeOfEmpty DEF Reload
<1>2. settled \cap (Range(queue) \cup Range(failed)) = {}
  BY DEF IInv, NothingLost
<1>3. Fate' = [r \in Reviews |->
                 IF Fate[r] \in {"pending", "failed"} THEN "forgotten" ELSE Fate[r]]
  BY <1>1, <1>2 DEF Fate
<1> QED
  BY <1>1, <1>3 DEF Promise!Forget

(* What the server applies was handed over before. *)
LEMMA AppliesDelivers ==
  ASSUME IInv, StrayWasRated
  PROVE  /\ ServerApplies => Promise!ServerApplies(Head(queue))
         /\ \A r \in Reviews : StrayApplied(r) => Promise!ServerApplies(r)
<1>1. \A r \in Reviews : r \in Range(rated) => Fate[r] # "unrated"
  BY DEF IInv, NothingLost, Fate
<1>2. UNCHANGED <<queue, failed, settled, forgotten>> => UNCHANGED Fate
  BY DEF Fate
<1>3. ASSUME ServerApplies PROVE Promise!ServerApplies(Head(queue))
  <2>1. Head(queue) \in Reviews /\ Head(queue) \in Range(rated)
    BY <1>3, HeadLeaves DEF ServerApplies, IInv, NothingLost
  <2> QED
    BY <1>1, <1>2, <1>3, <2>1
       DEF ServerApplies, Promise!ServerApplies, outbox, history, lives
<1>4. ASSUME NEW r \in Reviews, StrayApplied(r) PROVE Promise!ServerApplies(r)
  BY <1>1, <1>2, <1>4
     DEF StrayApplied, Promise!ServerApplies, outbox, history, lives, StrayWasRated
<1> QED
  BY <1>3, <1>4

LEMMA NextDelivers == IInv /\ StrayWasRated /\ [Next]_vars => [Promise!Next]_Promise!vars
<1> SUFFICES ASSUME IInv, StrayWasRated, [Next]_vars PROVE [Promise!Next]_Promise!vars
  OBVIOUS
<1>1. call # "none" => Head(queue) \in Reviews
  BY HeadLeaves
<1>2. CASE \/ \E r \in Reviews : Enqueue(r) \/ StrayApplied(r)
           \/ RetryFailed \/ SubmitOk \/ SubmitRefused \/ Reload \/ ServerApplies
  <2>1. (SubmitOk \/ SubmitRefused \/ ServerApplies) => call # "none"
    BY DEF SubmitOk, SubmitRefused, IsPermanent, ServerApplies
  <2> QED
    BY <1>1, <1>2, <2>1, EnqueueDelivers, SubmitOkDelivers, SubmitRefusedDelivers,
       RetryFailedDelivers, ReloadDelivers, AppliesDelivers DEF Promise!Next
<1>3. CASE UNCHANGED <<queue, failed, settled, forgotten, applied>>
  BY <1>3 DEF Promise!vars, Fate
<1>4. \/ \E r \in Reviews : Enqueue(r) \/ StrayApplied(r)
      \/ RetryFailed \/ SubmitOk \/ SubmitRefused \/ Reload \/ ServerApplies
      \/ UNCHANGED <<queue, failed, settled, forgotten, applied>>
  BY DEF Next, StrayLost, Drain, SubmitRetryable, RetryTimer, ServerRefuses, ServerFails,
     ProxyAnswers, outbox, history, lives, vars, Flush
<1> QED
  BY <1>2, <1>3, <1>4

(* Whatever the network, the proxy and the server do, and even if the page  *)
(* is reloaded, the outbox does no more and no less than at-least-once      *)
(* delivery allows: every step is one of Delivery's or changes nothing.     *)
THEOREM OutboxImplementsDelivery == Spec => ImplementsDelivery
<1>1. Init => StrayWasRated
  BY DEF Init, StrayWasRated
<1>2. Spec => [](IInv /\ StrayWasRated)
  BY <1>1, InitIInv, NextIInv, StrayStep, PTL DEF Spec
<1> QED
  BY <1>2, InitDelivery, NextDelivers, PTL DEF Spec, ImplementsDelivery, Promise!Spec

(* A review is dropped as accepted only after the server has applied it.    *)
THEOREM AcceptedWereApplied == Spec => []AcceptedWasApplied
  BY Invariance, PTL DEF IInv

-----------------------------------------------------------------------------
(* The order.  Until something is put back, the queue is the tail of what   *)
(* was rated, and of that tail only the head can have been submitted.       *)
Ahead == Len(rated) - Len(queue)

QueueIsTail ==
  /\ Ahead >= 0
  /\ \A i \in 1..Len(queue) : queue[i] = rated[Ahead + i]

Touched == applied \cup settled \cup stray

InOrder ==
  /\ IsInjective(rated)
  /\ Touched \subseteq Range(rated)
  /\ ~retried => QueueIsTail
  /\ ~retried => \A j \in 1..Len(rated) : j >= Ahead + 2 => rated[j] \notin Touched

LEMMA InitInOrder == Init => InOrder
  BY RangeOfEmpty, EmptySeq DEF Init, InOrder, QueueIsTail, Ahead, Touched, Empty

LEMMA EnqueueInOrder ==
  ASSUME IInv, InOrder, NEW r \in Reviews, Enqueue(r)
  PROVE  InOrder'
<1>1. /\ rated' = Append(rated, r) /\ queue' = Append(queue, r)
      /\ r \notin Range(rated)
      /\ UNCHANGED <<applied, settled, stray, retried>>
  BY DEF Enqueue, Flush
<1>2. /\ rated \in Seq(Reviews) /\ queue \in Seq(Reviews)
      /\ Len(rated) \in Nat /\ Len(queue) \in Nat
      /\ Len(rated') = Len(rated) + 1 /\ Len(queue') = Len(queue) + 1
      /\ \A i \in 1..Len(rated) : rated'[i] = rated[i]
      /\ \A i \in 1..Len(queue) : queue'[i] = queue[i]
      /\ rated'[Len(rated) + 1] = r /\ queue'[Len(queue) + 1] = r
  BY <1>1, AppendProperties, LenProperties DEF IInv, TypeOK
<1>3. Ahead' = Ahead /\ Ahead \in Int
  BY <1>2 DEF Ahead
<1>4. /\ IsInjective(rated')
      /\ Range(rated') = Range(rated) \cup {r}
  BY <1>1, <1>2, RangeOfAppend DEF InOrder
<1>5. ASSUME ~retried PROVE QueueIsTail'
  <2>1. Ahead >= 0 /\ \A i \in 1..Len(queue) : queue[i] = rated[Ahead + i]
    BY <1>5 DEF InOrder, QueueIsTail
  <2>2. ASSUME NEW i \in 1..(Len(queue) + 1) PROVE queue'[i] = rated'[Ahead + i]
    <3>1. CASE i = Len(queue) + 1
      BY <1>2, <3>1 DEF Ahead
    <3>2. CASE i \in 1..Len(queue)
      <4>1. Ahead + i \in 1..Len(rated)
        BY <1>2, <1>3, <2>1, <3>2 DEF Ahead
      <4> QED
        BY <1>2, <2>1, <3>2, <4>1
    <3> QED
      BY <1>2, <3>1, <3>2
  <2> QED
    BY <1>2, <1>3, <2>1, <2>2 DEF QueueIsTail
<1>6. ASSUME ~retried, NEW j \in 1..Len(rated'), j >= Ahead' + 2
      PROVE  rated'[j] \notin Touched'
  <2>1. Touched' = Touched /\ r \notin Touched
    BY <1>1 DEF InOrder, Touched
  <2>2. CASE j = Len(rated) + 1
    BY <1>2, <2>1, <2>2
  <2>3. CASE j \in 1..Len(rated)
    BY <1>2, <1>3, <1>6, <2>1, <2>3 DEF InOrder
  <2> QED
    BY <1>2, <1>6, <2>2, <2>3
<1> QED
  BY <1>1, <1>4, <1>5, <1>6 DEF InOrder, Touched

(* The head goes, accepted or set aside; the next one becomes the head. *)
LEMMA HeadGoneInOrder ==
  ASSUME IInv, InOrder, call # "none",
         queue' = Tail(queue), rated' = rated, retried' = retried,
         Touched' \subseteq Touched \cup {Head(queue)}
  PROVE  InOrder'
<1>1. /\ queue # << >> /\ queue \in Seq(Reviews) /\ rated \in Seq(Reviews)
      /\ Head(queue) \in Range(rated)
  BY HeadLeaves DEF IInv, TypeOK, Empty, NothingLost
<1>2. /\ Len(queue) \in Nat \ {0} /\ Len(rated) \in Nat
      /\ Len(queue') = Len(queue) - 1
      /\ \A i \in 1..Len(queue') : queue'[i] = queue[i + 1]
      /\ Head(queue) = queue[1]
      /\ DOMAIN rated = 1..Len(rated)
  BY <1>1, HeadTailProperties, LenProperties, EmptySeq
<1>3. Ahead' = Ahead + 1 /\ Ahead \in Int
  BY <1>2 DEF Ahead
<1>4. ASSUME ~retried PROVE QueueIsTail'
  <2>1. Ahead >= 0 /\ \A i \in 1..Len(queue) : queue[i] = rated[Ahead + i]
    BY <1>4 DEF InOrder, QueueIsTail
  <2>2. ASSUME NEW i \in 1..Len(queue') PROVE queue'[i] = rated[Ahead' + i]
    <3>1. i + 1 \in 1..Len(queue) /\ Ahead + (i + 1) = Ahead' + i
      BY <1>2, <1>3
    <3> QED
      BY <1>2, <2>1, <3>1
  <2>3. Ahead' >= 0
    BY <1>3, <2>1
  <2> QED
    BY <2>2, <2>3 DEF QueueIsTail
<1>5. ASSUME ~retried, NEW j \in 1..Len(rated), j >= Ahead' + 2
      PROVE  rated[j] \notin Touched'
  <2>1. Ahead >= 0 /\ Head(queue) = rated[Ahead + 1] /\ Ahead + 1 \in 1..Len(rated)
    BY <1>2, <1>5 DEF InOrder, QueueIsTail, Ahead
  <2>2. rated[j] # Head(queue)
    BY <1>2, <1>3, <1>5, <2>1 DEF InOrder, IsInjective
  <2>3. rated[j] \notin Touched
    BY <1>3, <1>5 DEF InOrder
  <2> QED
    BY <2>2, <2>3
<1> QED
  BY <1>1, <1>4, <1>5 DEF InOrder

(* Queue and rated stay; only the head, or what was touched, is touched. *)
LEMMA QueueStaysInOrder ==
  ASSUME IInv, InOrder,
         queue' = queue, rated' = rated, retried' = retried,
         \/ Touched' \subseteq Touched
         \/ call # "none" /\ Touched' \subseteq Touched \cup {Head(queue)}
  PROVE  InOrder'
<1>1. Ahead' = Ahead
  BY DEF Ahead
<1>2. CASE Touched' \subseteq Touched
  BY <1>1, <1>2 DEF InOrder, QueueIsTail
<1>3. CASE call # "none" /\ Touched' \subseteq Touched \cup {Head(queue)}
  <2>1. /\ queue # << >> /\ queue \in Seq(Reviews) /\ rated \in Seq(Reviews)
        /\ Head(queue) \in Range(rated)
    BY <1>3, HeadLeaves DEF IInv, TypeOK, Empty, NothingLost
  <2>2. /\ Len(queue) \in Nat \ {0} /\ Len(rated) \in Nat
        /\ Head(queue) = queue[1]
        /\ DOMAIN rated = 1..Len(rated)
    BY <2>1, LenProperties, EmptySeq
  <2>3. ASSUME ~retried, NEW j \in 1..Len(rated), j >= Ahead + 2
        PROVE  rated[j] \notin Touched'
    <3>1. Head(queue) = rated[Ahead + 1] /\ Ahead + 1 \in DOMAIN rated /\ Ahead + 1 # j
      BY <2>2, <2>3 DEF InOrder, QueueIsTail, Ahead
    <3>2. rated[j] # Head(queue)
      BY <2>2, <3>1 DEF InOrder, IsInjective
    <3>3. rated[j] \notin Touched
      BY <2>3 DEF InOrder
    <3> QED
      BY <1>3, <3>2, <3>3
  <2> QED
    BY <1>1, <1>3, <2>1, <2>3 DEF InOrder, QueueIsTail
<1> QED
  BY <1>2, <1>3

LEMMA NextInOrder == IInv /\ InOrder /\ [Next]_vars => InOrder'
<1> SUFFICES ASSUME IInv, InOrder, [Next]_vars PROVE InOrder'
  OBVIOUS
<1>1. CASE \E r \in Reviews : Enqueue(r)
  BY <1>1, EnqueueInOrder
<1>2. CASE SubmitOk \/ SubmitRefused
  <2>1. call # "none" /\ queue' = Tail(queue) /\ UNCHANGED <<rated, retried>>
    BY <1>2 DEF SubmitOk, SubmitRefused, IsPermanent, Flush, history
  <2>2. Touched' \subseteq Touched \cup {Head(queue)}
    BY <1>2 DEF SubmitOk, SubmitRefused, Touched, history
  <2> QED
    BY <2>1, <2>2, HeadGoneInOrder
<1>3. CASE RetryFailed
  BY <1>3 DEF RetryFailed, InOrder, Touched
<1>4. CASE Reload
  <2>1. /\ Len(queue') = 0 /\ queue' = << >> /\ rated' = rated
        /\ rated \in Seq(Reviews) /\ Len(rated) \in Nat
    BY <1>4, EmptySeq, LenProperties DEF Reload, Empty, IInv, TypeOK
  <2>2. Touched' \subseteq Range(rated)
    BY <1>4, HeadLeaves DEF Reload, InOrder, Touched, IInv, NothingLost
  <2>3. Ahead' = Len(rated)
    BY <2>1 DEF Ahead
  <2> QED
    BY <2>1, <2>2, <2>3 DEF InOrder, QueueIsTail
<1>5. CASE \/ \E r \in Reviews : StrayApplied(r) \/ StrayLost(r)
           \/ \E w \in Waiters : Drain(w)
           \/ SubmitRetryable \/ RetryTimer
           \/ ServerApplies \/ ServerRefuses \/ ServerFails \/ ProxyAnswers
           \/ UNCHANGED vars
  <2>1. UNCHANGED <<queue, rated, retried>>
    BY <1>5 DEF StrayApplied, StrayLost, Drain, SubmitRetryable, RetryTimer, ServerApplies,
       ServerRefuses, ServerFails, ProxyAnswers, outbox, history, vars, Flush
  <2>2. \/ Touched' \subseteq Touched
        \/ call # "none" /\ Touched' \subseteq Touched \cup {Head(queue)}
    BY <1>5 DEF StrayApplied, StrayLost, Drain, SubmitRetryable, RetryTimer, ServerApplies,
       ServerRefuses, ServerFails, ProxyAnswers, outbox, history, vars, Touched
  <2> QED
    BY <2>1, <2>2, QueueStaysInOrder
<1> QED
  BY <1>1, <1>2, <1>3, <1>4, <1>5 DEF Next

(* Until the user retries what was set aside, reviews are submitted strictly *)
(* in the order they were given: while one is submitted none given after it  *)
(* has reached the server, by whatever way (flush, its timer and its busy).  *)
THEOREM OrderHoldsUntilRetried == Spec => []OrderUntilRetried
<1>1. IInv /\ InOrder => OrderUntilRetried
  <2> SUFFICES ASSUME IInv, InOrder, ~retried, call # "none",
                      NEW i \in DOMAIN rated, NEW j \in DOMAIN rated,
                      rated[i] = Head(queue), i < j
               PROVE  rated[j] \notin Touched
    BY DEF OrderUntilRetried, StrictOrder, Touched
  <2>1. queue # << >> /\ queue \in Seq(Reviews) /\ rated \in Seq(Reviews)
    BY HeadLeaves DEF IInv, TypeOK, Empty
  <2>2. /\ Len(queue) \in Nat \ {0} /\ Len(rated) \in Nat
        /\ Head(queue) = queue[1]
        /\ DOMAIN rated = 1..Len(rated)
    BY <2>1, LenProperties, EmptySeq
  <2>3. Head(queue) = rated[Ahead + 1] /\ Ahead + 1 \in DOMAIN rated /\ Ahead \in Int
    BY <2>2 DEF InOrder, QueueIsTail, Ahead
  <2>4. i = Ahead + 1
    BY <2>3 DEF InOrder, IsInjective
  <2> QED
    BY <2>2, <2>3, <2>4 DEF InOrder
<1>2. Spec => [](IInv /\ InOrder)
  BY InitIInv, InitInOrder, NextIInv, NextInOrder, PTL DEF Spec
<1> QED
  BY <1>1, <1>2, PTL
=============================================================================
