------------------------- MODULE DeckStatisticsProofs -------------------------
(* Proofs about the study queue and the statistics, for any deck, any zone  *)
(* and any allowances.                                                      *)
EXTENDS DeckStatistics, SchedulerProofs

-----------------------------------------------------------------------------
(* A finite set of numbers has a greatest, and any has a least. *)
LEMMA MaxOf ==
  ASSUME NEW S \in SUBSET Nat, IsFiniteSet(S), S # {}
  PROVE  Max(S) \in S /\ \A x \in S : x <= Max(S)
<1> DEFINE R == {p \in S \X S : p[1] < p[2]}
           n == Cardinality(S)
<1>1. n \in Nat \ {0}
  BY FS_CardinalityType, FS_EmptySet
<1>2. \A x, y \in S : <<x, y>> \in R <=> x < y
  OBVIOUS
<1> HIDE DEF R
<1>3. /\ \A x \in S : <<x, x>> \notin R
      /\ \A x, y \in S : x # y => <<x, y>> \in R \/ <<y, x>> \in R
      /\ \A x, y, z \in S : <<x, y>> \in R /\ <<y, z>> \in R => <<x, z>> \in R
  BY <1>2
<1>4. PICK s \in [1..n -> S] : \A i, j \in 1..n : i < j => <<s[i], s[j]>> \in R
  BY <1>3, OrderExists
<1>5. \A x \in S : x <= s[n]
  <2>1. /\ s \in [1..Cardinality(S) -> S] /\ \A x \in S : <<x, x>> \notin R
        /\ \A i, j \in 1..Cardinality(S) : i < j => <<s[i], s[j]>> \in R
    BY <1>3, <1>4
  <2>2. s \in Bijection(1..Cardinality(S), S)
    BY <2>1, OrderIsBijection
  <2> TAKE x \in S
  <2>3. PICK i \in 1..n : s[i] = x
    BY <2>2 DEF Bijection, Surjection
  <2> HIDE DEF n
  <2>4. s[n] \in S /\ n \in 1..n
    BY <1>1, <1>4
  <2>5. CASE i = n
    BY <2>3, <2>4, <2>5
  <2>6. CASE i < n
    <3>1. s[i] < s[n]
      BY <1>2, <1>4, <2>3, <2>4, <2>6
    <3>2. x \in Nat /\ s[n] \in Nat /\ x < s[n]
      BY <2>3, <2>4, <3>1
    <3> QED
      BY <3>2
  <2> QED
    BY <1>1, <2>5, <2>6
<1>6. s[n] \in S
  BY <1>1, <1>4
<1>7. \E x \in S : \A y \in S : x >= y
  BY <1>5, <1>6
<1> QED
  BY <1>7 DEF Max

LEMMA MinOf ==
  ASSUME NEW S \in SUBSET Nat, S # {}
  PROVE  Min(S) \in S /\ \A x \in S : Min(S) <= x
  BY LeastOf DEF Min

-----------------------------------------------------------------------------
(* The database: every row is what its columns say, ids are used once.      *)
DbInv ==
  /\ used \subseteq Cards /\ IsFiniteSet(used) /\ DOMAIN cards \subseteq used
  /\ \A c \in DOMAIN cards : cards[c] \in JoinedRows
  /\ reviews \subseteq LogEntries /\ IsFiniteSet(reviews)
  /\ now \in Times

(* What another request may commit. *)
Commit ==
  \/ \E c \in Cards : CreateCard(c) \/ DeleteCard(c)
  \/ \E c \in Cards, value \in BOOLEAN : SetSuspended(c, value)
  \/ \E c \in Cards, rating \in RatingsGiven, stamp \in Times : Review(c, rating, stamp)

(* It leaves the schedule of every card that stays as it was, or has        *)
(* reviewed it: then the card is not new and, off the ladder, not yet due.  *)
Rescheduled ==
  /\ used \subseteq used'
  /\ \A c \in used : c \in DOMAIN cards' =>
       /\ c \in DOMAIN cards
       /\ \/ cards'[c].state = cards[c].state /\ cards'[c].due = cards[c].due
          \/ /\ cards'[c].state # StateNew
             /\ cards'[c].state = StateReview => cards'[c].due > now

LEMMA NextIdType == DbInv => NextId \in Nat
<1> SUFFICES ASSUME DbInv PROVE NextId \in Nat
  OBVIOUS
<1> DEFINE ids == {rv.id : rv \in reviews}
           S   == {0} \cup ids
<1>1. ids \subseteq Nat
  BY DEF DbInv, LogEntries
<1>2. IsFiniteSet(ids)
  <2> DEFINE f == [rv \in reviews |-> rv.id]
  <2>1. f \in Surjection(reviews, ids)
    BY DEF Surjection
  <2> QED
    BY <2>1, FS_Surjection DEF DbInv
<1>3. IsFiniteSet(S)
  <2> HIDE DEF ids
  <2> QED
    BY <1>2, FS_Singleton, FS_Union
<1>4. S \in SUBSET Nat /\ S # {}
  BY <1>1
<1> HIDE DEF S
<1>5. Max(S) \in Nat
  BY <1>3, <1>4, MaxOf
<1>6. NextId = 1 + Max(S)
  BY DEF NextId, S
<1> QED
  BY <1>5, <1>6

LEMMA CreateEffect ==
  ASSUME DbInv, NEW c \in Cards, CreateCard(c)
  PROVE  DbInv' /\ Rescheduled
<1>1. /\ \A d \in used : d < c
      /\ used' = used \cup {c} /\ reviews' = reviews /\ now' = now
      /\ cards' = [x \in DOMAIN cards \cup {c} |->
           IF x = c THEN [suspended |-> FALSE, created |-> now,
                          due |-> now, state |-> StateNew, steps |-> 0]
           ELSE cards[x]]
  BY DEF CreateCard, Concurrently
<1>2. c \notin used
  <2> SUFFICES ASSUME c \in used PROVE FALSE
    OBVIOUS
  <2>1. c < c /\ c \in Nat
    BY <1>1, QueueAssumption
  <2> QED
    BY <2>1
<1>3. IsFiniteSet(used')
  BY <1>1, FS_AddElement DEF DbInv
<1>4. [suspended |-> FALSE, created |-> now, due |-> now, state |-> StateNew, steps |-> 0]
        \in JoinedRows
  BY QueueAssumption DEF DbInv, JoinedRows, Times, States, StateNew, StateRelearning
<1>5. \A d \in DOMAIN cards' : cards'[d] \in JoinedRows
  BY <1>1, <1>4 DEF DbInv
<1>6. reviews' \subseteq LogEntries'
  BY <1>1 DEF DbInv, LogEntries
<1>7. DbInv'
  BY <1>1, <1>3, <1>5, <1>6 DEF DbInv, JoinedRows
<1>8. Rescheduled
  BY <1>1, <1>2 DEF Rescheduled
<1> QED
  BY <1>7, <1>8

LEMMA DeleteEffect ==
  ASSUME DbInv, NEW c \in Cards, DeleteCard(c)
  PROVE  DbInv' /\ Rescheduled
<1>1. /\ cards' = [x \in DOMAIN cards \ {c} |-> cards[x]]
      /\ reviews' \subseteq reviews /\ used' = used /\ now' = now
  BY DEF DeleteCard, Concurrently, Restrict
<1>2. IsFiniteSet(reviews')
  BY <1>1, FS_Subset DEF DbInv
<1>3. reviews' \subseteq LogEntries'
  BY <1>1 DEF DbInv, LogEntries
<1>4. DbInv'
  BY <1>1, <1>2, <1>3 DEF DbInv, JoinedRows
<1>5. Rescheduled
  BY <1>1 DEF Rescheduled
<1> QED
  BY <1>4, <1>5

LEMMA SuspendEffect ==
  ASSUME DbInv, NEW c \in Cards, NEW value \in BOOLEAN, SetSuspended(c, value)
  PROVE  DbInv' /\ Rescheduled
<1>1. /\ c \in DOMAIN cards /\ cards' = [cards EXCEPT ![c].suspended = value]
      /\ reviews' = reviews /\ used' = used /\ now' = now
  BY DEF SetSuspended, Concurrently
<1>2. /\ DOMAIN cards' = DOMAIN cards
      /\ \A d \in DOMAIN cards \ {c} : cards'[d] = cards[d]
      /\ cards'[c] = [cards[c] EXCEPT !.suspended = value]
  BY <1>1
<1>3. /\ cards'[c] \in JoinedRows
      /\ cards'[c].state = cards[c].state /\ cards'[c].due = cards[c].due
  BY <1>1, <1>2 DEF DbInv, JoinedRows
<1>4. reviews' \subseteq LogEntries'
  BY <1>1 DEF DbInv, LogEntries
<1>5. \A d \in DOMAIN cards' : cards'[d] \in JoinedRows
  BY <1>2, <1>3 DEF DbInv
<1>6. DbInv'
  BY <1>1, <1>2, <1>4, <1>5 DEF DbInv, JoinedRows
<1>7. Rescheduled
  BY <1>1, <1>2, <1>3 DEF Rescheduled
<1> QED
  BY <1>6, <1>7

LEMMA ReviewEffect ==
  ASSUME DbInv, NEW c \in Cards, NEW rating \in RatingsGiven, NEW stamp \in Times,
         Review(c, rating, stamp)
  PROVE  DbInv' /\ Rescheduled
<1> DEFINE next == [cards[c] EXCEPT !.due   = stamp + Interval(cards[c], rating),
                                    !.state = NextState(cards[c], rating),
                                    !.steps = NextSteps(cards[c], rating)]
           row  == [id |-> NextId, card |-> c, wasNew |-> cards[c].state = StateNew,
                    at |-> stamp]
<1>1. /\ c \in DOMAIN cards /\ stamp <= now /\ now - stamp <= Lag
      /\ cards' = [cards EXCEPT ![c] = next] /\ reviews' = reviews \cup {row}
      /\ used' = used /\ now' = now
  BY DEF Review, Concurrently
<1>2. cards[c] \in JoinedRows /\ rating \in Ratings /\ stamp \in Nat /\ now \in Nat
  BY <1>1, QueueAssumption DEF DbInv, Times
<1>3. /\ NextState(cards[c], rating) \in States \ {StateNew}
      /\ NextSteps(cards[c], rating) \in Nat
      /\ Interval(cards[c], rating) \in Nat \ {0}
      /\ NextState(cards[c], rating) = StateReview => Interval(cards[c], rating) >= DayLength
  BY <1>2, NextType DEF JoinedRows
<1>4. /\ next \in JoinedRows /\ next.state = NextState(cards[c], rating)
      /\ next.due = stamp + Interval(cards[c], rating)
  <2> DEFINE state == NextState(cards[c], rating)
             due   == stamp + Interval(cards[c], rating)
             steps == NextSteps(cards[c], rating)
  <2>1. state \in States /\ due \in Nat /\ steps \in Nat
    BY <1>2, <1>3
  <2> HIDE DEF state, due, steps
  <2> DEFINE old == cards[c]
  <2>2. next = [old EXCEPT !.due = due, !.state = state, !.steps = steps]
    BY DEF due, state, steps
  <2>3. old \in JoinedRows
    BY <1>2
  <2> HIDE DEF old, next
  <2>4. old.suspended \in BOOLEAN /\ old.created \in Times
    BY <2>3 DEF JoinedRows
  <2>5. next = [suspended |-> old.suspended, created |-> old.created,
                  due |-> due, state |-> state, steps |-> steps]
    BY <2>2, <2>3 DEF JoinedRows
  <2>6. next \in JoinedRows /\ next.state = state /\ next.due = due
    BY <2>1, <2>5, <2>4 DEF JoinedRows
  <2> QED
    BY <2>6 DEF state, due
<1>5. next.state # StateNew /\ (next.state = StateReview => next.due > now)
  <2>1. next.state # StateNew
    BY <1>3, <1>4
  <2>2. ASSUME next.state = StateReview
        PROVE  next.due > now
    <3>1. Interval(cards[c], rating) \in Nat /\ Interval(cards[c], rating) >= DayLength
      BY <1>3, <1>4, <2>2
    <3>2. Lag \in Int /\ Lag < DayLength /\ DayLength \in Nat
      BY QueueAssumption, DayLengthAssumption
    <3> HIDE DEF next
    <3> QED
      BY <1>1, <1>2, <1>4, <3>1, <3>2
  <2> QED
    BY <2>1, <2>2
<1>6. /\ DOMAIN cards' = DOMAIN cards /\ cards'[c] = next
      /\ \A d \in DOMAIN cards \ {c} : cards'[d] = cards[d]
  BY <1>1
<1> HIDE DEF next
<1>7. \A d \in DOMAIN cards' : cards'[d] \in JoinedRows
  BY <1>4, <1>6 DEF DbInv
<1>8. row \in LogEntries
  BY <1>1, NextIdType DEF LogEntries, DbInv
<1> HIDE DEF row
<1>9. IsFiniteSet(reviews') /\ reviews' \subseteq LogEntries'
  BY <1>1, <1>8, FS_AddElement DEF DbInv, LogEntries
<1>10. DbInv'
  BY <1>1, <1>6, <1>7, <1>9 DEF DbInv, JoinedRows
<1>11. Rescheduled
  BY <1>1, <1>5, <1>6 DEF Rescheduled
<1> QED
  BY <1>10, <1>11

LEMMA CommitEffect ==
  ASSUME DbInv, Commit
  PROVE  DbInv' /\ Rescheduled /\ Concurrently
<1>1. DbInv' /\ Rescheduled
  BY CreateEffect, DeleteEffect, SuspendEffect, ReviewEffect DEF Commit
<1>2. Concurrently
  BY DEF Commit, CreateCard, DeleteCard, SetSuspended, Review
<1> QED
  BY <1>1, <1>2

-----------------------------------------------------------------------------
(* The handler: what it has read so far. *)
ReqInv ==
  /\ at \in Times
  /\ step \in {"idle", "totals", "learning", "review", "new", "done"}
  /\ newBudget \in 0..NewCardsPerDay /\ reviewBudget \in 0..MaxReviewsPerDay
  /\ items \in Seq(Items) /\ Len(items) <= Limit
  /\ racing \in Nat /\ quiet \in BOOLEAN
  /\ step # "idle" => at <= now

(* ORDER BY due, created_at, id lists any cards of the deck, each once. *)
LEMMA InOrderFacts ==
  ASSUME DbInv, NEW ids \in SUBSET DOMAIN cards
  PROVE  LET n == Cardinality(ids)
             s == InOrder(ids)
         IN  /\ n \in Nat /\ IsFiniteSet(ids)
             /\ s \in [1..n -> ids]
             /\ \A i, j \in 1..n : i < j => Before(s[i], s[j])
             /\ \A i, j \in 1..n : s[i] = s[j] => i = j
             /\ \A c \in ids : \E i \in 1..n : s[i] = c
<1> DEFINE n == Cardinality(ids)
           s == InOrder(ids)
           R == {p \in ids \X ids : Before(p[1], p[2])}
<1>1. IsFiniteSet(ids) /\ n \in Nat
  BY FS_Subset, FS_CardinalityType DEF DbInv
<1>2. \A c \in ids : c \in Nat /\ cards[c].due \in Nat /\ cards[c].created \in Nat
  <2> TAKE c \in ids
  <2>1. c \in Cards /\ cards[c] \in JoinedRows
    BY DEF DbInv
  <2>2. cards[c].due \in Nat /\ cards[c].created \in Times
    BY <2>1 DEF JoinedRows
  <2> QED
    BY <2>1, <2>2, QueueAssumption DEF Times
<1>3. \A c, d \in ids : <<c, d>> \in R <=> Before(c, d)
  OBVIOUS
<1> HIDE DEF R
<1>4. /\ \A x \in ids : <<x, x>> \notin R
      /\ \A x, y \in ids : x # y => <<x, y>> \in R \/ <<y, x>> \in R
      /\ \A x, y, z \in ids : <<x, y>> \in R /\ <<y, z>> \in R => <<x, z>> \in R
  BY <1>2, <1>3 DEF Before
<1>5. \E t \in [1..n -> ids] : \A i, j \in 1..n : i < j => <<t[i], t[j]>> \in R
  BY <1>1, <1>4, OrderExists
<1>6. \E t \in [1..n -> ids] : \A i, j \in DOMAIN t : i < j => Before(t[i], t[j])
  BY <1>3, <1>5
<1>7. s \in [1..n -> ids] /\ \A i, j \in 1..n : i < j => Before(s[i], s[j])
  BY <1>6 DEF InOrder
<1> HIDE DEF s
<1>8. \A i, j \in 1..n : i < j => <<s[i], s[j]>> \in R
  BY <1>3, <1>7
<1>9. /\ \A i, j \in 1..n : s[i] = s[j] => i = j
      /\ s \in Bijection(1..n, ids)
  BY <1>1, <1>4, <1>7, <1>8, OrderIsBijection
<1>10. \A c \in ids : \E i \in 1..n : s[i] = c
  BY <1>9 DEF Bijection, Surjection
<1> QED
  BY <1>1, <1>7, <1>9, <1>10 DEF s

(* One query gives cards that match, each once, the sooner due first, and   *)
(* leaves out a card only for want of room.                                 *)
LEMMA BatchFacts ==
  ASSUME DbInv, ReqInv, NEW which, NEW budget \in Nat
  PROVE  LET batch == Batch(which, budget)
             n     == Len(batch)
         IN  /\ batch \in Seq(Items) /\ n \in Nat
             /\ n <= budget /\ n <= Limit - Len(items)
             /\ \A i \in 1..n : /\ batch[i].card \in Matching(which)
                                /\ batch[i].state = cards[batch[i].card].state
                                /\ batch[i].due = cards[batch[i].card].due
             /\ \A i, j \in 1..n : batch[i].card = batch[j].card => i = j
             /\ \A c \in Matching(which) : (\A i \in 1..n : batch[i].card # c) =>
                  /\ n = budget \/ n = Limit - Len(items)
                  /\ \A i \in 1..n : batch[i].due <= cards[c].due
<1> DEFINE ids   == Matching(which)
           m     == Cardinality(ids)
           s     == InOrder(ids)
           batch == Batch(which, budget)
<1>1. ids \in SUBSET DOMAIN cards
  BY DEF Matching
<1>2. /\ m \in Nat /\ s \in [1..m -> ids]
      /\ \A i, j \in 1..m : i < j => Before(s[i], s[j])
      /\ \A i, j \in 1..m : s[i] = s[j] => i = j
      /\ \A c \in ids : \E i \in 1..m : s[i] = c
  <2> HIDE DEF ids
  <2> QED
    BY <1>1, InOrderFacts
<1>3. \A c \in ids : /\ cards[c] \in JoinedRows /\ cards[c].due \in Nat
                     /\ cards[c].state \in States /\ c \in Cards
  BY <1>1 DEF DbInv, JoinedRows
<1> DEFINE left == Limit - Len(items)
<1>4. left \in Nat
  BY QueueAssumption DEF ReqInv
<1> HIDE DEF ids, m, s, left
<1>5. Len(s) = m
  BY <1>2
<1> DEFINE n == Min({budget, left, m})
<1>6. /\ n \in Nat /\ n <= budget /\ n <= left /\ n <= m
      /\ n = budget \/ n = left \/ n = m
  <2>1. {budget, left, m} \in SUBSET Nat /\ {budget, left, m} # {}
    BY <1>2, <1>4
  <2>2. /\ n \in {budget, left, m}
        /\ \A x \in {budget, left, m} : n <= x
    BY <2>1, MinOf
  <2> QED
    BY <1>2, <1>4, <2>2
<1>7. batch = [i \in 1..n |-> [card |-> s[i], state |-> cards[s[i]].state,
                               due |-> cards[s[i]].due]]
  BY <1>5 DEF Batch, ids, s, left
<1> HIDE DEF n, batch
<1>8. 1..n \subseteq 1..m
  BY <1>2, <1>6
<1>9. \A i \in 1..n : s[i] \in ids
  BY <1>2, <1>8
<1>10. \A i \in 1..n : /\ batch[i] \in Items /\ batch[i].card = s[i]
                       /\ batch[i].state = cards[s[i]].state
                       /\ batch[i].due = cards[s[i]].due
  BY <1>3, <1>7, <1>9 DEF Items
<1>11. batch \in Seq(Items) /\ Len(batch) = n
  BY <1>6, <1>7, <1>10
<1>12. \A i, j \in 1..n : batch[i].card = batch[j].card => i = j
  BY <1>2, <1>8, <1>10
<1>13. ASSUME NEW c \in ids, \A i \in 1..n : batch[i].card # c
       PROVE  /\ n = budget \/ n = left
              /\ \A i \in 1..n : batch[i].due <= cards[c].due
  <2>1. PICK j \in 1..m : s[j] = c
    BY <1>2
  <2>2. ~(j \in 1..n)
    BY <1>10, <1>13, <2>1
  <2>3. n < j /\ n # m
    BY <1>2, <1>6, <2>2
  <2>4. ASSUME NEW i \in 1..n
        PROVE  batch[i].due <= cards[c].due
    <3>1. i < j /\ i \in 1..m
      BY <1>6, <1>8, <2>3
    <3>2. Before(s[i], s[j])
      BY <1>2, <3>1
    <3>3. cards[s[i]].due \in Nat /\ cards[c].due \in Nat
      BY <1>3, <1>9
    <3>4. cards[s[i]].due <= cards[c].due
      BY <2>1, <3>2, <3>3 DEF Before
    <3> QED
      BY <1>10, <3>4
  <2> QED
    BY <1>6, <2>3, <2>4
<1> QED
  BY <1>6, <1>9, <1>10, <1>11, <1>12, <1>13 DEF ids, left, batch

-----------------------------------------------------------------------------
(* What is in the session is no candidate for the queries to come: a card   *)
(* reviewed since it was read is not due by the handler's clock, and none   *)
(* becomes new again.                                                       *)
ServedInv ==
  /\ step \in {"idle", "totals", "learning"} => items = << >>
  /\ step \in {"review", "new"} => \A i \in 1..Len(items) :
       /\ items[i].card \in used /\ items[i].state # StateNew
       /\ items[i].card \in DOMAIN cards =>
            /\ cards[items[i].card].state # StateNew
            /\ step = "review" /\ cards[items[i].card].state = StateReview
                 => cards[items[i].card].due > at
  /\ \A i, j \in 1..Len(items) : items[i].card = items[j].card => i = j

SessionInv == DbInv /\ ReqInv /\ ServedInv

LEMMA SessionInit == Init => SessionInv
<1> SUFFICES ASSUME Init PROVE SessionInv
  OBVIOUS
<1> USE DEF Init
<1>1. DbInv
  BY FS_EmptySet, QueueAssumption DEF DbInv, Times
<1>2. ReqInv
  BY QueueAssumption DEF ReqInv, Times
<1>3. ServedInv
  BY DEF ServedInv
<1> QED
  BY <1>1, <1>2, <1>3 DEF SessionInv

(* A session that a query has added its cards to. *)
Extended(new, which, budget) ==
  LET batch == Batch(which, budget) IN
  /\ new \in Seq(Items) /\ Len(new) = Len(items) + Len(batch) /\ Len(new) <= Limit
  /\ Len(batch) \in Nat /\ Len(batch) <= budget
  /\ \A i \in 1..Len(items) : new[i] = items[i]
  /\ \A i \in Len(items)+1..Len(new) :
       /\ i - Len(items) \in 1..Len(batch) /\ new[i] = batch[i - Len(items)]
       /\ new[i].card \in Matching(which)
       /\ new[i].state = cards[new[i].card].state
  /\ \A i, j \in 1..Len(new) : new[i].card = new[j].card => i = j

LEMMA AddBatch ==
  ASSUME SessionInv, NEW which, NEW budget \in Nat,
         NEW new, new = items \o Batch(which, budget),
         \A i \in 1..Len(items) : items[i].card \notin Matching(which)
  PROVE  Extended(new, which, budget)
<1> DEFINE batch == Batch(which, budget)
           l == Len(items)
           n == Len(batch)
<1>1. /\ batch \in Seq(Items) /\ n \in Nat /\ n <= budget /\ n <= Limit - l
      /\ \A i \in 1..n : /\ batch[i].card \in Matching(which)
                         /\ batch[i].state = cards[batch[i].card].state
      /\ \A i, j \in 1..n : batch[i].card = batch[j].card => i = j
  BY BatchFacts DEF SessionInv
<1>2. items \in Seq(Items) /\ l \in Nat /\ Limit \in Nat
  BY QueueAssumption DEF SessionInv, ReqInv
<1> HIDE DEF batch
<1>3. /\ new \in Seq(Items) /\ Len(new) = l + n
      /\ \A i \in 1..l : new[i] = items[i]
      /\ \A i \in l+1..Len(new) : i - l \in 1..n /\ new[i] = batch[i - l]
  BY <1>1, <1>2 DEF batch
<1> HIDE DEF l, n
<1>4. Len(new) <= Limit
  BY <1>1, <1>2, <1>3
<1>5. \A i \in l+1..Len(new) : /\ new[i].card \in Matching(which)
                               /\ new[i].state = cards[new[i].card].state
  <2> TAKE i \in l+1..Len(new)
  <2> DEFINE k == i - l
  <2>1. k \in 1..n /\ new[i] = batch[k]
    BY <1>3
  <2> HIDE DEF k
  <2> QED
    BY <1>1, <2>1
<1>6. ASSUME NEW i \in 1..Len(new), NEW j \in 1..Len(new), new[i].card = new[j].card
      PROVE  i = j
  <2>1. \A k \in 1..Len(new) : k \in 1..l \/ k \in l+1..Len(new)
    BY <1>1, <1>2, <1>3
  <2>2. CASE i \in 1..l /\ j \in 1..l
    BY <1>3, <1>6, <2>2 DEF SessionInv, ServedInv, l
  <2>3. CASE i \in 1..l /\ j \in l+1..Len(new)
    BY <1>3, <1>5, <1>6, <2>3 DEF l
  <2>4. CASE i \in l+1..Len(new) /\ j \in 1..l
    BY <1>3, <1>5, <1>6, <2>4 DEF l
  <2>5. CASE i \in l+1..Len(new) /\ j \in l+1..Len(new)
    <3> DEFINE k == i - l
               m == j - l
    <3>1. k \in 1..n /\ new[i] = batch[k] /\ m \in 1..n /\ new[j] = batch[m]
      BY <1>3, <2>5
    <3> HIDE DEF k, m
    <3>2. k = m
      BY <1>1, <1>6, <3>1
    <3> QED
      BY <1>2, <3>2 DEF k, m
  <2> QED
    BY <2>1, <2>2, <2>3, <2>4, <2>5
<1> QED
  BY <1>1, <1>3, <1>4, <1>5, <1>6 DEF l, n, batch, Extended

(* The handler does nothing to the database. *)
LEMMA DbUnread ==
  ASSUME DbInv, UNCHANGED <<db, now>>
  PROVE  DbInv'
  BY DEF DbInv, db, LogEntries, JoinedRows

LEMMA SessionIdle ==
  ASSUME SessionInv, Idle, UNCHANGED <<db, now>>
  PROVE  SessionInv'
<1>1. DbInv'
  BY DbUnread DEF SessionInv
<1>2. ReqInv'
  BY QueueAssumption DEF Idle, ReqInv, Times
<1>3. ServedInv'
  BY DEF Idle, ServedInv
<1> QED
  BY <1>1, <1>2, <1>3 DEF SessionInv

LEMMA SessionReceive == SessionInv /\ Receive => SessionInv'
<1> SUFFICES ASSUME SessionInv, Receive PROVE SessionInv'
  OBVIOUS
<1>1. /\ step = "idle" /\ step' = "totals" /\ at' = now
      /\ UNCHANGED <<db, now, newBudget, reviewBudget, items, racing, quiet>>
  BY DEF Receive
<1>2. DbInv'
  BY <1>1, DbUnread DEF SessionInv
<1>3. ReqInv'
  <2>1. at' \in Times /\ at' <= now' /\ now \in Times
    BY <1>1, QueueAssumption DEF SessionInv, DbInv, Times
  <2> QED
    BY <1>1, <2>1 DEF SessionInv, ReqInv
<1>4. ServedInv'
  BY <1>1 DEF SessionInv, ServedInv
<1> QED
  BY <1>2, <1>3, <1>4 DEF SessionInv

LEMMA RemainingType ==
  ASSUME NEW allowance \in Nat, NEW count \in Nat
  PROVE  /\ Remaining(allowance, count) \in 0..allowance
         /\ Remaining(allowance, count) > 0 => Remaining(allowance, count) + count = allowance
  BY DEF Remaining

LEMMA CountsType ==
  ASSUME DbInv, NEW t
  PROVE  /\ IsFiniteSet(ReviewsToday(t)) /\ IsFiniteSet(NewToday(t))
         /\ Cardinality(ReviewsToday(t)) \in Nat /\ Cardinality(NewToday(t)) \in Nat
<1>1. ReviewsToday(t) \subseteq reviews /\ NewToday(t) \subseteq reviews
  BY DEF ReviewsToday, NewToday
<1> QED
  BY <1>1, FS_Subset, FS_CardinalityType DEF DbInv

LEMMA SessionTotals == SessionInv /\ ReadTotals => SessionInv'
<1> SUFFICES ASSUME SessionInv, ReadTotals PROVE SessionInv'
  OBVIOUS
<1>1. /\ step = "totals" /\ step' = "learning"
      /\ newBudget' = Remaining(NewCardsPerDay, Cardinality(NewToday(at)))
      /\ reviewBudget' = Remaining(MaxReviewsPerDay, Cardinality(ReviewsToday(at)))
      /\ UNCHANGED <<db, now, at, items, racing, quiet>>
  BY DEF ReadTotals
<1>2. DbInv'
  BY <1>1, DbUnread DEF SessionInv
<1>3. newBudget' \in 0..NewCardsPerDay /\ reviewBudget' \in 0..MaxReviewsPerDay
  BY <1>1, CountsType, RemainingType, QueueAssumption DEF SessionInv
<1>4. ReqInv'
  BY <1>1, <1>3 DEF SessionInv, ReqInv
<1>5. ServedInv'
  BY <1>1 DEF SessionInv, ServedInv
<1> QED
  BY <1>2, <1>4, <1>5 DEF SessionInv

LEMMA SessionLearning == SessionInv /\ ReadLearning => SessionInv'
<1> SUFFICES ASSUME SessionInv, ReadLearning PROVE SessionInv'
  OBVIOUS
<1> DEFINE which == {StateLearning, StateRelearning}
           batch == Batch(which, reviewBudget)
<1>1. /\ step = "learning" /\ step' = "review"
      /\ items' = items \o batch /\ reviewBudget' = reviewBudget - Len(batch)
      /\ UNCHANGED <<db, now, at, newBudget, racing, quiet>>
  BY DEF ReadLearning
<1>2. items = << >> /\ reviewBudget \in Nat
  BY <1>1, QueueAssumption DEF SessionInv, ServedInv, ReqInv
<1>3. /\ items' \in Seq(Items) /\ Len(items') = Len(batch) /\ Len(items') <= Limit
      /\ Len(batch) \in Nat /\ Len(batch) <= reviewBudget
      /\ \A i \in 1..Len(items') : /\ items'[i].card \in Matching(which)
                                   /\ items'[i].state = cards[items'[i].card].state
      /\ \A i, j \in 1..Len(items') : items'[i].card = items'[j].card => i = j
  <2>1. items' = items \o Batch(which, reviewBudget)
    BY <1>1
  <2> HIDE DEF batch, which
  <2>2. Len(items) = 0
    BY <1>2
  <2>3. Extended(items', which, reviewBudget)
    BY <1>2, <2>1, <2>2, AddBatch
  <2> QED
    BY <2>2, <2>3 DEF Extended, batch
<1> HIDE DEF batch
<1>4. DbInv'
  BY <1>1, DbUnread DEF SessionInv
<1>5. ReqInv'
  <2>1. reviewBudget' \in 0..MaxReviewsPerDay
    BY <1>1, <1>3, QueueAssumption DEF SessionInv, ReqInv
  <2> QED
    BY <1>1, <1>3, <2>1 DEF SessionInv, ReqInv
<1>6. ServedInv'
  <2>1. ASSUME NEW i \in 1..Len(items')
        PROVE  /\ items'[i].card \in DOMAIN cards /\ items'[i].card \in used
               /\ items'[i].state # StateNew
               /\ cards[items'[i].card].state \notin {StateNew, StateReview}
    BY <1>3 DEF Matching, SessionInv, DbInv, StateLearning, StateRelearning, StateNew, StateReview
  <2> QED
    BY <1>1, <1>3, <2>1 DEF ServedInv, db
<1> QED
  BY <1>4, <1>5, <1>6 DEF SessionInv

LEMMA SessionReview == SessionInv /\ ReadReview => SessionInv'
<1> SUFFICES ASSUME SessionInv, ReadReview PROVE SessionInv'
  OBVIOUS
<1> DEFINE which == {StateReview}
           batch == Batch(which, reviewBudget)
<1>1. /\ step = "review" /\ step' = "new"
      /\ items' = items \o batch
      /\ UNCHANGED <<db, now, at, newBudget, reviewBudget, racing, quiet>>
  BY DEF ReadReview
<1>2. /\ items \in Seq(Items) /\ reviewBudget \in Nat
      /\ \A i \in 1..Len(items) :
           /\ items[i].card \in used /\ items[i].state # StateNew
           /\ items[i].card \in DOMAIN cards =>
                /\ cards[items[i].card].state # StateNew
                /\ cards[items[i].card].state = StateReview => cards[items[i].card].due > at
  BY <1>1, QueueAssumption DEF SessionInv, ServedInv, ReqInv
<1>3. \A i \in 1..Len(items) : items[i].card \notin Matching(which)
  <2>1. ASSUME NEW i \in 1..Len(items), items[i].card \in Matching(which)
        PROVE  FALSE
    <3> DEFINE c == items[i].card
    <3>1. /\ c \in DOMAIN cards /\ cards[c].state = StateReview /\ cards[c].due <= at
          /\ cards[c].due > at
      BY <1>2, <2>1 DEF Matching
    <3>2. cards[c].due \in Nat /\ at \in Nat
      BY <3>1, QueueAssumption DEF SessionInv, DbInv, ReqInv, JoinedRows, Times
    <3> HIDE DEF c
    <3> QED
      BY <3>1, <3>2
  <2> QED
    BY <2>1
<1>4. /\ items' \in Seq(Items) /\ Len(items') <= Limit
      /\ Len(items) \in Nat /\ Len(items') \in Nat
      /\ \A i \in 1..Len(items) : items'[i] = items[i]
      /\ \A i \in Len(items)+1..Len(items') :
           /\ items'[i].card \in Matching(which)
           /\ items'[i].state = cards[items'[i].card].state
      /\ \A i, j \in 1..Len(items') : items'[i].card = items'[j].card => i = j
  <2>1. items' = items \o Batch(which, reviewBudget)
    BY <1>1
  <2> HIDE DEF batch, which
  <2>2. Extended(items', which, reviewBudget)
    BY <1>2, <1>3, <2>1, AddBatch
  <2>3. Len(items) \in Nat
    BY DEF SessionInv, ReqInv
  <2> QED
    BY <2>2, <2>3 DEF Extended
<1> HIDE DEF batch
<1>5. DbInv'
  BY <1>1, DbUnread DEF SessionInv
<1>6. ReqInv'
  BY <1>1, <1>4 DEF SessionInv, ReqInv
<1>7. ServedInv'
  <2>1. ASSUME NEW i \in 1..Len(items')
        PROVE  /\ items'[i].card \in used /\ items'[i].state # StateNew
               /\ items'[i].card \in DOMAIN cards => cards[items'[i].card].state # StateNew
    <3>1. i \in 1..Len(items) \/ i \in Len(items)+1..Len(items')
      BY <1>4
    <3>2. CASE i \in 1..Len(items)
      BY <1>2, <1>4, <3>2
    <3>3. CASE i \in Len(items)+1..Len(items')
      BY <1>4, <3>3 DEF Matching, SessionInv, DbInv, StateNew, StateReview
    <3> QED
      BY <3>1, <3>2, <3>3
  <2> QED
    BY <1>1, <1>4, <2>1 DEF ServedInv, db
<1> QED
  BY <1>5, <1>6, <1>7 DEF SessionInv

LEMMA SessionNew == SessionInv /\ ReadNew => SessionInv'
<1> SUFFICES ASSUME SessionInv, ReadNew PROVE SessionInv'
  OBVIOUS
<1> DEFINE which == {StateNew}
           batch == Batch(which, newBudget)
<1>1. /\ step = "new" /\ step' = "done"
      /\ items' = items \o batch
      /\ UNCHANGED <<db, now, at, newBudget, reviewBudget, racing, quiet>>
  BY DEF ReadNew
<1>2. newBudget \in Nat
  BY <1>1, QueueAssumption DEF SessionInv, ReqInv
<1>3. \A i \in 1..Len(items) : items[i].card \notin Matching(which)
  BY <1>1 DEF SessionInv, ServedInv, Matching
<1>4. /\ items' \in Seq(Items) /\ Len(items') <= Limit
      /\ \A i, j \in 1..Len(items') : items'[i].card = items'[j].card => i = j
  <2>1. items' = items \o Batch(which, newBudget)
    BY <1>1
  <2> HIDE DEF batch, which
  <2>2. Extended(items', which, newBudget)
    BY <1>2, <1>3, <2>1, AddBatch
  <2>3. Len(items) \in Nat
    BY DEF SessionInv, ReqInv
  <2> QED
    BY <2>2, <2>3 DEF Extended
<1> HIDE DEF batch
<1>5. DbInv'
  BY <1>1, DbUnread DEF SessionInv
<1>6. ReqInv'
  BY <1>1, <1>4 DEF SessionInv, ReqInv
<1>7. ServedInv'
  BY <1>1, <1>4 DEF ServedInv
<1> QED
  BY <1>5, <1>6, <1>7 DEF SessionInv

LEMMA SessionCommit == SessionInv /\ Commit => SessionInv'
<1> SUFFICES ASSUME SessionInv, Commit PROVE SessionInv'
  OBVIOUS
<1> DEFINE added == {rv \in reviews' \ reviews : rv.wasNew}
<1>1. DbInv' /\ Rescheduled /\ Concurrently
  BY CommitEffect DEF SessionInv
<1>2. /\ UNCHANGED <<step, at, newBudget, reviewBudget, items, now>>
      /\ quiet' = (step = "idle")
      /\ racing' = IF step \in {"idle", "totals"} THEN 0 ELSE racing + Cardinality(added)
  BY <1>1 DEF Concurrently, build
<1>3. Cardinality(added) \in Nat
  <2>1. added \subseteq reviews' /\ IsFiniteSet(reviews')
    BY <1>1 DEF DbInv
  <2> HIDE DEF added
  <2> QED
    BY <2>1, FS_Subset, FS_CardinalityType
<1> HIDE DEF added
<1>4. ReqInv'
  BY <1>2, <1>3 DEF SessionInv, ReqInv
<1>5. ServedInv'
  <2>1. ASSUME step \in {"review", "new"}, NEW i \in 1..Len(items)
        PROVE  LET c == items[i].card
               IN  /\ c \in used' /\ items[i].state # StateNew
                   /\ c \in DOMAIN cards' =>
                        /\ cards'[c].state # StateNew
                        /\ step = "review" /\ cards'[c].state = StateReview => cards'[c].due > at
    <3> DEFINE c == items[i].card
    <3>1. /\ c \in used /\ items[i].state # StateNew
          /\ c \in DOMAIN cards =>
               /\ cards[c].state # StateNew
               /\ step = "review" /\ cards[c].state = StateReview => cards[c].due > at
      BY <2>1 DEF SessionInv, ServedInv
    <3> HIDE DEF c
    <3>2. c \in used' /\ (c \in DOMAIN cards' => c \in DOMAIN cards)
      BY <1>1, <3>1 DEF Rescheduled
    <3>3. ASSUME c \in DOMAIN cards'
          PROVE  /\ cards'[c].state # StateNew
                 /\ step = "review" /\ cards'[c].state = StateReview => cards'[c].due > at
      <4>1. CASE cards'[c].state = cards[c].state /\ cards'[c].due = cards[c].due
        BY <3>1, <3>2, <3>3, <4>1
      <4>2. CASE /\ cards'[c].state # StateNew
                 /\ cards'[c].state = StateReview => cards'[c].due > now
        <5>1. cards'[c].due \in Nat /\ at \in Nat /\ now \in Nat /\ at <= now
          <6>1. cards'[c].due \in Nat
            BY <1>1, <3>3 DEF DbInv, JoinedRows
          <6> QED
            BY <2>1, <6>1, QueueAssumption DEF SessionInv, DbInv, ReqInv, Times
        <5> QED
          BY <4>2, <5>1
      <4> QED
        BY <1>1, <3>1, <3>3, <4>1, <4>2 DEF Rescheduled
    <3> QED
      BY <3>1, <3>2, <3>3 DEF c
  <2> QED
    BY <1>2, <2>1 DEF SessionInv, ServedInv
<1> QED
  BY <1>1, <1>4, <1>5 DEF SessionInv

LEMMA SessionTick == SessionInv /\ Tick => SessionInv'
<1> SUFFICES ASSUME SessionInv, Tick PROVE SessionInv'
  OBVIOUS
<1>1. now < MaxTime /\ now' = now + 1 /\ UNCHANGED <<db, build, racing, quiet>>
  BY DEF Tick
<1>2. now \in Nat /\ MaxTime \in Nat /\ now' \in Times
  BY <1>1, QueueAssumption DEF SessionInv, DbInv, Times
<1>3. DbInv'
  BY <1>1, <1>2 DEF SessionInv, DbInv, db, LogEntries, JoinedRows
<1>4. ReqInv'
  <2>1. at \in Nat
    BY QueueAssumption DEF SessionInv, ReqInv, Times
  <2>2. step' # "idle" => at' <= now'
    BY <1>1, <1>2, <2>1 DEF SessionInv, ReqInv, build
  <2> QED
    BY <1>1, <2>2 DEF SessionInv, ReqInv, build
<1>5. ServedInv'
  BY <1>1 DEF SessionInv, ServedInv, db, build
<1> QED
  BY <1>3, <1>4, <1>5 DEF SessionInv

LEMMA NextCases == Next <=> Receive \/ Handle \/ Commit \/ Tick
  BY DEF Next, Commit

LEMMA SessionStep == SessionInv /\ [Next]_vars => SessionInv'
<1> SUFFICES ASSUME SessionInv, [Next]_vars PROVE SessionInv'
  OBVIOUS
<1>1. CASE Receive
  BY <1>1, SessionReceive
<1>2. CASE Handle
  <2>1. CASE ReadTotals
    BY <2>1, SessionTotals
  <2>2. CASE ReadLearning
    BY <2>2, SessionLearning
  <2>3. CASE ReadReview
    BY <2>3, SessionReview
  <2>4. CASE ReadNew
    BY <2>4, SessionNew
  <2>5. CASE Respond \/ Fail
    BY <2>5, SessionIdle DEF Respond, Fail
  <2> QED
    BY <1>2, <2>1, <2>2, <2>3, <2>4, <2>5 DEF Handle
<1>3. CASE Commit
  BY <1>3, SessionCommit
<1>4. CASE Tick
  BY <1>4, SessionTick
<1>5. CASE UNCHANGED vars
  <2> USE <1>5 DEF vars, db, build
  <2>1. DbInv'
    BY DbUnread DEF SessionInv
  <2>2. ReqInv'
    BY DEF SessionInv, ReqInv
  <2>3. ServedInv'
    BY DEF SessionInv, ServedInv
  <2> QED
    BY <2>1, <2>2, <2>3 DEF SessionInv
<1> QED
  BY <1>1, <1>2, <1>3, <1>4, <1>5, NextCases

-----------------------------------------------------------------------------
(* Local days *)

(* The clocks are never changed, or within a date: not at midnight, and not *)
(* so that they show the date of another day.                               *)
ChangeWithinADay ==
  \/ OffsetBefore = OffsetAfter
  \/ /\ LocalDate(ZoneChange - 1) = LocalDate(ZoneChange)
     /\ LocalTime(ZoneChange) > LocalDate(ZoneChange) * DayLength

Midnight == [d \in Int |-> d * DayLength]

LEMMA Midnights ==
  /\ \A d \in Int : Midnight[d] \in Int /\ Midnight[d + 1] = Midnight[d] + DayLength
  /\ \A d, e \in Int : d < e => Midnight[d] + DayLength <= Midnight[e]
  /\ \A x \in Int : /\ x \div DayLength \in Int
                    /\ Midnight[x \div DayLength] <= x
                    /\ x < Midnight[x \div DayLength] + DayLength
<1>1. DayLength \in Nat \ {0}
  BY DayLengthAssumption
<1>2. \A d \in Int : d * DayLength \in Int /\ (d + 1) * DayLength = d * DayLength + DayLength
  BY <1>1
<1>3. ASSUME NEW d \in Int, NEW e \in Int, d < e
      PROVE  d * DayLength + DayLength <= e * DayLength
  <2>1. \A m \in Nat, n \in Nat : m * n >= 0
    OBVIOUS
  <2>2. e - d - 1 \in Nat
    BY <1>3
  <2>3. (e - d - 1) * DayLength >= 0
    BY <1>1, <2>1, <2>2
  <2>4. (e - d - 1) * DayLength = e * DayLength - d * DayLength - DayLength
    BY <1>1
  <2> QED
    BY <1>1, <2>3, <2>4
<1>4. ASSUME NEW x \in Int
      PROVE  /\ x \div DayLength \in Int
             /\ (x \div DayLength) * DayLength <= x
             /\ x < (x \div DayLength) * DayLength + DayLength
  BY <1>1
<1>5. \A d \in Int : Midnight[d] = d * DayLength
  BY DEF Midnight
<1>6. \A d \in Int : Midnight[d] \in Int /\ Midnight[d + 1] = Midnight[d] + DayLength
  BY <1>2, <1>5
<1>7. \A d, e \in Int : d < e => Midnight[d] + DayLength <= Midnight[e]
  BY <1>3, <1>5
<1>8. \A x \in Int : /\ x \div DayLength \in Int
                    /\ Midnight[x \div DayLength] <= x
                    /\ x < Midnight[x \div DayLength] + DayLength
  BY <1>4, <1>5
<1> QED
  BY <1>6, <1>7, <1>8

(* A date is the one whose midnights it lies between. *)
LEMMA DateOf ==
  ASSUME NEW x \in Int, NEW d \in Int
  PROVE  x \div DayLength = d <=> Midnight[d] <= x /\ x < Midnight[d] + DayLength
<1> DEFINE q == x \div DayLength
<1>1. /\ q \in Int /\ Midnight[q] \in Int /\ Midnight[d] \in Int
      /\ Midnight[q] <= x /\ x < Midnight[q] + DayLength
      /\ d < q => Midnight[d] + DayLength <= Midnight[q]
      /\ q < d => Midnight[q] + DayLength <= Midnight[d]
  BY Midnights
<1>2. DayLength \in Nat
  BY DayLengthAssumption
<1> HIDE DEF q
<1>3. q = d <=> Midnight[d] <= x /\ x < Midnight[d] + DayLength
  BY <1>1, <1>2
<1> QED
  BY <1>3 DEF q

(* Where the clocks never change the day of dayBounds is the local date. *)
LEMMA DayIsADateUnchanged ==
  ASSUME OffsetBefore = OffsetAfter, NEW t \in Int, NEW x \in Int
  PROVE  DayStart(t) <= x /\ x < DayEnd(t) <=> LocalDate(x) = LocalDate(t)
<1> DEFINE o == OffsetAfter
           d == LocalDate(t)
<1>1. o \in Int /\ DayLength \in Nat
  BY QueueAssumption, DayLengthAssumption
<1>2. \A y : Offset(y) = o
  BY DEF Offset
<1>3. d \in Int /\ Midnight[d] = d * DayLength /\ Midnight[d] \in Int
  <2>1. t + o \in Int
    BY <1>1
  <2>2. d = (t + o) \div DayLength
    BY <1>2 DEF LocalDate, LocalTime
  <2>3. d \in Int
    BY <2>1, <2>2, Midnights
  <2> HIDE DEF d
  <2> QED
    BY <2>3, Midnights DEF Midnight
<1>4. DayStart(t) = Midnight[d] - o
  BY <1>2, <1>3 DEF DayStart, InstantOf
<1>5. DayEnd(t) = Midnight[d] + DayLength - o
  <2>1. LocalTime(DayStart(t)) = Midnight[d]
    BY <1>1, <1>2, <1>3, <1>4 DEF LocalTime
  <2> QED
    BY <1>1, <1>2, <1>3, <2>1 DEF DayEnd, InstantOf
<1>6. LocalDate(x) = (x + o) \div DayLength /\ x + o \in Int
  BY <1>1, <1>2 DEF LocalDate, LocalTime
<1> HIDE DEF d, o
<1>7. LocalDate(x) = d <=> Midnight[d] <= x + o /\ x + o < Midnight[d] + DayLength
  BY <1>3, <1>6, DateOf
<1>8. DayStart(t) <= x /\ x < DayEnd(t) <=> LocalDate(x) = d
  BY <1>1, <1>3, <1>4, <1>5, <1>7
<1> QED
  BY <1>8 DEF d

(* dayBounds looks a wall time up twice and so finds the midnight before    *)
(* and the one after the change by the offset that is valid then.           *)
LEMMA MidnightAt ==
  ASSUME LocalDate(ZoneChange - 1) = LocalDate(ZoneChange),
         LocalTime(ZoneChange) > LocalDate(ZoneChange) * DayLength,
         NEW d \in Int
  PROVE  /\ LocalDate(ZoneChange) \in Int
         /\ d <= LocalDate(ZoneChange) => /\ InstantOf(Midnight[d]) = Midnight[d] - OffsetBefore
                                          /\ InstantOf(Midnight[d]) < ZoneChange
         /\ d > LocalDate(ZoneChange) => /\ InstantOf(Midnight[d]) = Midnight[d] - OffsetAfter
                                         /\ InstantOf(Midnight[d]) >= ZoneChange
         /\ Midnight[LocalDate(ZoneChange)] < ZoneChange + OffsetAfter
         /\ ZoneChange + OffsetBefore <= Midnight[LocalDate(ZoneChange)] + DayLength
<1> DEFINE D == LocalDate(ZoneChange)
<1>1. /\ ZoneChange \in Int /\ OffsetBefore \in Int /\ OffsetAfter \in Int
      /\ DayLength \in Nat \ {0}
  BY QueueAssumption, DayLengthAssumption
<1>2. /\ LocalTime(ZoneChange) = ZoneChange + OffsetAfter
      /\ LocalTime(ZoneChange - 1) = ZoneChange - 1 + OffsetBefore
  BY <1>1 DEF LocalTime, Offset
<1>3. D \in Int /\ D = (ZoneChange + OffsetAfter) \div DayLength
      /\ D = (ZoneChange - 1 + OffsetBefore) \div DayLength
  <2>1. /\ D = (ZoneChange + OffsetAfter) \div DayLength
        /\ D = (ZoneChange - 1 + OffsetBefore) \div DayLength
    BY <1>2 DEF LocalDate
  <2>2. ZoneChange + OffsetAfter \in Int
    BY <1>1
  <2> QED
    BY <2>1, <2>2, Midnights
<1>4. D * DayLength = Midnight[D]
  BY <1>3 DEF Midnight
<1>5. Midnight[D] < ZoneChange + OffsetAfter
  BY <1>1, <1>2, <1>4
<1> HIDE DEF D
<1>6. /\ Midnight[D] <= ZoneChange - 1 + OffsetBefore
      /\ ZoneChange - 1 + OffsetBefore < Midnight[D] + DayLength
      /\ ZoneChange + OffsetAfter < Midnight[D] + DayLength
  <2>1. ZoneChange + OffsetAfter \in Int /\ ZoneChange - 1 + OffsetBefore \in Int
    BY <1>1
  <2> QED
    BY <1>3, <2>1, DateOf
<1> DEFINE w == Midnight[d]
           m == Midnight[D]
<1>7. /\ w \in Int /\ m \in Int
      /\ d <= D => w <= m
      /\ d > D => m + DayLength <= w
  <2>1. /\ w \in Int /\ m \in Int
        /\ d < D => w + DayLength <= m
        /\ D < d => m + DayLength <= w
    BY <1>3, Midnights
  <2> HIDE DEF w, m
  <2>2. D \in Int
    BY <1>3
  <2>3. CASE d = D
    BY <1>1, <2>1, <2>3 DEF w, m
  <2>4. CASE d # D
    BY <1>1, <2>1, <2>2, <2>4
  <2> QED
    BY <2>3, <2>4
<1>8. /\ m < ZoneChange + OffsetAfter
      /\ m <= ZoneChange - 1 + OffsetBefore
      /\ ZoneChange - 1 + OffsetBefore < m + DayLength
      /\ ZoneChange + OffsetAfter < m + DayLength
  BY <1>5, <1>6
<1> HIDE DEF w, m
<1>9. Offset(w) = OffsetBefore \/ Offset(w) = OffsetAfter
  BY DEF Offset
<1>10. ASSUME d <= D
      PROVE  InstantOf(w) = w - OffsetBefore /\ InstantOf(w) < ZoneChange
  <2>1. w \in Int /\ w - OffsetBefore < ZoneChange /\ w - OffsetAfter < ZoneChange
    BY <1>1, <1>7, <1>10, <1>8
  <2>2. Offset(w - Offset(w)) = OffsetBefore
    BY <1>9, <2>1 DEF Offset
  <2> QED
    BY <2>1, <2>2 DEF InstantOf
<1>11. ASSUME d > D
       PROVE  InstantOf(w) = w - OffsetAfter /\ InstantOf(w) >= ZoneChange
  <2>1. w \in Int /\ w - OffsetBefore >= ZoneChange /\ w - OffsetAfter >= ZoneChange
    BY <1>1, <1>7, <1>11, <1>8
  <2>2. Offset(w - Offset(w)) = OffsetAfter
    <3>1. w - OffsetBefore \in Int /\ w - OffsetAfter \in Int
      BY <1>1, <2>1
    <3>2. ~(w - OffsetBefore < ZoneChange) /\ ~(w - OffsetAfter < ZoneChange)
      BY <1>1, <2>1, <3>1
    <3> QED
      BY <1>9, <3>2 DEF Offset
  <2> QED
    BY <2>1, <2>2 DEF InstantOf
<1>12. ZoneChange + OffsetBefore <= m + DayLength
  BY <1>1, <1>7, <1>8
<1> QED
  BY <1>3, <1>5, <1>10, <1>11, <1>12 DEF D, w, m

LEMMA DayIsADateChanged ==
  ASSUME LocalDate(ZoneChange - 1) = LocalDate(ZoneChange),
         LocalTime(ZoneChange) > LocalDate(ZoneChange) * DayLength,
         NEW t \in Int, NEW x \in Int
  PROVE  DayStart(t) <= x /\ x < DayEnd(t) <=> LocalDate(x) = LocalDate(t)
<1> DEFINE D == LocalDate(ZoneChange)
           d == LocalDate(t)
           e == LocalDate(x)
           start(day) == InstantOf(Midnight[day])
<1>1. /\ ZoneChange \in Int /\ OffsetBefore \in Int /\ OffsetAfter \in Int
      /\ DayLength \in Nat \ {0}
  BY QueueAssumption, DayLengthAssumption
<1>2. ASSUME NEW y \in Int
      PROVE  /\ LocalTime(y) \in Int
             /\ y < ZoneChange => LocalTime(y) = y + OffsetBefore
             /\ y >= ZoneChange => LocalTime(y) = y + OffsetAfter
             /\ LocalDate(y) = LocalTime(y) \div DayLength /\ LocalDate(y) \in Int
  <2>1. /\ LocalTime(y) \in Int
        /\ y < ZoneChange => LocalTime(y) = y + OffsetBefore
        /\ y >= ZoneChange => LocalTime(y) = y + OffsetAfter
    BY <1>1 DEF LocalTime, Offset
  <2>2. LocalDate(y) = LocalTime(y) \div DayLength
    BY DEF LocalDate
  <2> QED
    BY <2>1, <2>2, Midnights
<1>3. d \in Int /\ e \in Int
  BY <1>2
<1>4. D \in Int
  BY <1>1, <1>2
<1>5. \A day \in Int :
        /\ day <= D => start(day) = Midnight[day] - OffsetBefore /\ start(day) < ZoneChange
        /\ day > D => start(day) = Midnight[day] - OffsetAfter /\ start(day) >= ZoneChange
  BY MidnightAt
<1>6. /\ Midnight[D] < ZoneChange + OffsetAfter
      /\ ZoneChange + OffsetBefore <= Midnight[D] + DayLength
  BY <1>1, MidnightAt
<1>7. \A day \in Int : /\ Midnight[day] \in Int
                       /\ Midnight[day + 1] = Midnight[day] + DayLength
  BY Midnights
<1>8. DayStart(t) = start(d)
  BY <1>3 DEF DayStart, Midnight
<1>9. DayEnd(t) = start(d + 1)
  <2>1. start(d) \in Int
    BY <1>1, <1>3, <1>4, <1>5, <1>7
  <2>2. LocalTime(start(d)) = Midnight[d]
    <3> HIDE DEF D, d, start
    <3>1. CASE d <= D
      BY <1>1, <1>2, <1>3, <1>5, <1>7, <2>1, <3>1
    <3>2. CASE d > D
      BY <1>1, <1>2, <1>3, <1>5, <1>7, <2>1, <3>2
    <3> QED
      BY <1>3, <1>4, <3>1, <3>2
  <2>3. DayEnd(t) = InstantOf(Midnight[d] + DayLength)
    BY <1>8, <2>2 DEF DayEnd
  <2> QED
    BY <1>3, <1>7, <2>3
<1>10. \A day \in Int : e = day <=> /\ Midnight[day] <= LocalTime(x)
                                    /\ LocalTime(x) < Midnight[day] + DayLength
  BY <1>2, DateOf
<1> DEFINE m == Midnight[D]
           w == Midnight[d]
<1>11. /\ m \in Int /\ w \in Int
       /\ d < D => w + DayLength <= m
       /\ D < d => m + DayLength <= w
  BY <1>3, <1>4, Midnights
<1>12. /\ d <= D => start(d) = w - OffsetBefore /\ start(d) < ZoneChange
       /\ d > D => start(d) = w - OffsetAfter /\ start(d) >= ZoneChange
       /\ d + 1 <= D => /\ start(d + 1) = w + DayLength - OffsetBefore
                        /\ start(d + 1) < ZoneChange
       /\ d + 1 > D => /\ start(d + 1) = w + DayLength - OffsetAfter
                       /\ start(d + 1) >= ZoneChange
  <2> HIDE DEF D, d, e, start
  <2>1. d + 1 \in Int /\ Midnight[d + 1] = w + DayLength
    BY <1>3, <1>7
  <2>2. /\ d <= D => start(d) = w - OffsetBefore /\ start(d) < ZoneChange
        /\ d > D => start(d) = w - OffsetAfter /\ start(d) >= ZoneChange
    BY <1>3, <1>5
  <2> DEFINE next == d + 1
             v    == w + DayLength
  <2>3. next \in Int /\ Midnight[next] = v
    BY <2>1
  <2> HIDE DEF next, v
  <2>4. /\ next <= D => start(next) = v - OffsetBefore /\ start(next) < ZoneChange
        /\ next > D => start(next) = v - OffsetAfter /\ start(next) >= ZoneChange
    BY <1>5, <2>3
  <2> HIDE DEF w
  <2> QED
    BY <1>1, <1>3, <1>4, <1>11, <2>2, <2>4 DEF next, v
<1>13. e = d <=> w <= LocalTime(x) /\ LocalTime(x) < w + DayLength
  BY <1>3, <1>10
<1>14. m < ZoneChange + OffsetAfter /\ ZoneChange + OffsetBefore <= m + DayLength
  BY <1>6
<1> DEFINE lo == start(d)
           hi == start(d + 1)
<1> HIDE DEF lo, hi, m, w, D, d, e, start
<1>15. /\ d <= D => lo = w - OffsetBefore /\ lo < ZoneChange
       /\ d > D => lo = w - OffsetAfter /\ lo >= ZoneChange
       /\ d + 1 <= D => hi = w + DayLength - OffsetBefore /\ hi < ZoneChange
       /\ d + 1 > D => hi = w + DayLength - OffsetAfter /\ hi >= ZoneChange
  BY <1>12 DEF lo, hi
<1>16. d = D => w = m
  BY DEF w, m
<1>17. CASE x < ZoneChange
  <2>1. e = d <=> w <= x + OffsetBefore /\ x + OffsetBefore < w + DayLength
    BY <1>2, <1>13, <1>17
  <2>2. CASE d < D
    <3>1. lo = w - OffsetBefore /\ hi = w + DayLength - OffsetBefore
      BY <1>3, <1>4, <1>15, <2>2
    <3>2. lo <= x /\ x < hi <=> e = d
      BY <1>1, <1>11, <2>1, <3>1
    <3> QED
      BY <1>8, <1>9, <3>2 DEF lo, hi, e, d
  <2>3. CASE d = D
    <3>1. lo = w - OffsetBefore /\ hi >= ZoneChange /\ hi = w + DayLength - OffsetAfter
      BY <1>3, <1>4, <1>15, <2>3
    <3>2. x + OffsetBefore < w + DayLength
      BY <1>1, <1>11, <1>14, <1>16, <1>17, <2>3
    <3>3. lo <= x /\ x < hi <=> e = d
      BY <1>1, <1>11, <1>17, <2>1, <3>1, <3>2
    <3> QED
      BY <1>8, <1>9, <3>3 DEF lo, hi, e, d
  <2>4. CASE d > D
    <3>1. lo >= ZoneChange /\ lo = w - OffsetAfter /\ m + DayLength <= w
      BY <1>3, <1>4, <1>11, <1>15, <2>4
    <3>2. ~(w <= x + OffsetBefore)
      BY <1>1, <1>11, <1>14, <1>17, <3>1
    <3>3. ~(lo <= x)
      BY <1>1, <1>11, <1>17, <3>1
    <3>4. lo <= x /\ x < hi <=> e = d
      BY <2>1, <3>2, <3>3
    <3> QED
      BY <1>8, <1>9, <3>4 DEF lo, hi, e, d
  <2> QED
    BY <1>3, <1>4, <2>2, <2>3, <2>4
<1>18. CASE x >= ZoneChange
  <2>1. e = d <=> w <= x + OffsetAfter /\ x + OffsetAfter < w + DayLength
    BY <1>2, <1>13, <1>18
  <2>2. CASE d < D
    <3>1. hi = w + DayLength - OffsetBefore /\ hi < ZoneChange /\ w + DayLength <= m
      BY <1>3, <1>4, <1>11, <1>15, <2>2
    <3>2. ~(x + OffsetAfter < w + DayLength)
      BY <1>1, <1>11, <1>14, <1>18, <3>1
    <3>3. ~(x < hi)
      BY <1>1, <1>11, <1>18, <3>1
    <3>4. lo <= x /\ x < hi <=> e = d
      BY <2>1, <3>2, <3>3
    <3> QED
      BY <1>8, <1>9, <3>4 DEF lo, hi, e, d
  <2>3. CASE d = D
    <3>1. lo = w - OffsetBefore /\ lo < ZoneChange /\ hi = w + DayLength - OffsetAfter
      BY <1>3, <1>4, <1>15, <2>3
    <3>2. w <= x + OffsetAfter
      BY <1>1, <1>11, <1>14, <1>16, <1>18, <2>3
    <3>3. lo <= x /\ x < hi <=> e = d
      BY <1>1, <1>11, <1>18, <2>1, <3>1, <3>2
    <3> QED
      BY <1>8, <1>9, <3>3 DEF lo, hi, e, d
  <2>4. CASE d > D
    <3>1. lo = w - OffsetAfter /\ hi = w + DayLength - OffsetAfter
      BY <1>3, <1>4, <1>15, <2>4
    <3>2. lo <= x /\ x < hi <=> e = d
      BY <1>1, <1>11, <2>1, <3>1
    <3> QED
      BY <1>8, <1>9, <3>2 DEF lo, hi, e, d
  <2> QED
    BY <1>3, <1>4, <2>2, <2>3, <2>4
<1> QED
  BY <1>1, <1>17, <1>18

(* dayBounds: the interval it makes of an instant is the instant's local    *)
(* date, longer or shorter by the change on the day the clocks are changed. *)
THEOREM DayIsADate ==
  ASSUME ChangeWithinADay, NEW t \in Int, NEW x \in Int
  PROVE  DayStart(t) <= x /\ x < DayEnd(t) <=> LocalDate(x) = LocalDate(t)
  BY DayIsADateUnchanged, DayIsADateChanged DEF ChangeWithinADay

-----------------------------------------------------------------------------
(* Allowances *)

(* What is left of the day's allowance and what the day has had so far do   *)
(* not exceed it, but for what was introduced since the totals were read.   *)
BudgetInv ==
  /\ step \in {"idle", "totals"} => racing = 0
  /\ step \in {"learning", "review", "new"} /\ newBudget > 0
       => newBudget + IntroducedOn(at) <= NewCardsPerDay + racing
  /\ OverrunBounded
  /\ AllowanceFollowsLocalDate

LEMMA TodaysReviews ==
  ASSUME ChangeWithinADay, DbInv, NEW t \in Times
  PROVE  ReviewsToday(t) = OnDate(t) /\ NewToday(t) = {rv \in OnDate(t) : rv.wasNew}
<1>1. t \in Int /\ \A rv \in reviews : rv.at \in Int
  BY QueueAssumption DEF DbInv, LogEntries, Times
<1>2. \A rv \in reviews : DayStart(t) <= rv.at /\ rv.at < DayEnd(t)
                            <=> LocalDate(rv.at) = LocalDate(t)
  BY <1>1, DayIsADate
<1>3. ReviewsToday(t) = OnDate(t)
  BY <1>2 DEF ReviewsToday, OnDate
<1> QED
  BY <1>3 DEF NewToday

LEMMA IntroducedType ==
  ASSUME DbInv, NEW t
  PROVE  IntroducedOn(t) \in Nat
<1>1. {rv \in OnDate(t) : rv.wasNew} \subseteq reviews
  BY DEF OnDate
<1> QED
  BY <1>1, FS_Subset, FS_CardinalityType DEF DbInv, IntroducedOn

(* A commit introduces on a date at most what it adds to the log. *)
LEMMA IntroducedGrows ==
  ASSUME DbInv, DbInv', at' = at
  PROVE  LET added == {rv \in reviews' \ reviews : rv.wasNew}
         IN  /\ Cardinality(added) \in Nat
             /\ IntroducedOn(at)' <= IntroducedOn(at) + Cardinality(added)
<1> DEFINE added == {rv \in reviews' \ reviews : rv.wasNew}
           old   == {rv \in OnDate(at) : rv.wasNew}
           new   == {rv \in OnDate(at)' : rv.wasNew}
<1>1. new \subseteq old \cup added
  BY DEF OnDate
<1>2. old \subseteq reviews /\ added \subseteq reviews'
  BY DEF OnDate
<1> HIDE DEF added, old, new
<1>3. IsFiniteSet(old) /\ IsFiniteSet(added)
  BY <1>2, FS_Subset DEF DbInv
<1>4. Cardinality(old) \in Nat /\ Cardinality(added) \in Nat
  BY <1>3, FS_CardinalityType
<1>5. IsFiniteSet(old \cup added) /\ IsFiniteSet(old \cap added)
  BY <1>3, FS_Union, FS_Intersection
<1>6. /\ Cardinality(old \cap added) \in Nat /\ Cardinality(old \cup added) \in Nat
      /\ Cardinality(old \cup added)
           = Cardinality(old) + Cardinality(added) - Cardinality(old \cap added)
  BY <1>3, <1>5, FS_Union, FS_CardinalityType
<1>7. IsFiniteSet(new) /\ Cardinality(new) <= Cardinality(old \cup added)
  BY <1>1, <1>5, FS_Subset
<1>8. Cardinality(new) \in Nat
  BY <1>7, FS_CardinalityType
<1>9. Cardinality(new) <= Cardinality(old) + Cardinality(added)
  BY <1>4, <1>6, <1>7, <1>8
<1> QED
  BY <1>4, <1>9 DEF IntroducedOn, old, new, added

LEMMA BudgetInit == Init => BudgetInv
  BY DEF Init, BudgetInv, OverrunBounded, AllowanceFollowsLocalDate

LEMMA BudgetTotals ==
  ASSUME ChangeWithinADay, SessionInv, BudgetInv, ReadTotals
  PROVE  BudgetInv'
<1>1. /\ step = "totals" /\ step' = "learning"
      /\ newBudget' = Remaining(NewCardsPerDay, Cardinality(NewToday(at)))
      /\ reviewBudget' = Remaining(MaxReviewsPerDay, Cardinality(ReviewsToday(at)))
      /\ UNCHANGED <<db, now, at, items, racing, quiet>>
  BY DEF ReadTotals
<1>2. /\ ReviewsToday(at) = OnDate(at) /\ NewToday(at) = {rv \in OnDate(at) : rv.wasNew}
  BY TodaysReviews DEF SessionInv, ReqInv
<1>3. /\ newBudget' = Remaining(NewCardsPerDay, IntroducedOn(at))
      /\ reviewBudget' = Remaining(MaxReviewsPerDay, Cardinality(OnDate(at)))
  BY <1>1, <1>2 DEF IntroducedOn
<1>4. OnDate(at)' = OnDate(at) /\ IntroducedOn(at)' = IntroducedOn(at)
  BY <1>1 DEF OnDate, IntroducedOn, db
<1>5. IntroducedOn(at) \in Nat /\ racing = 0
  BY <1>1, IntroducedType DEF SessionInv, BudgetInv
<1>6. newBudget' > 0 => newBudget' + IntroducedOn(at) <= NewCardsPerDay + racing
  <2>1. newBudget' \in 0..NewCardsPerDay
        /\ (newBudget' > 0 => newBudget' + IntroducedOn(at) = NewCardsPerDay)
    BY <1>3, <1>5, RemainingType, QueueAssumption
  <2> QED
    BY <1>5, <2>1, QueueAssumption
<1>7. AllowanceFollowsLocalDate'
  BY <1>3, <1>4 DEF AllowanceFollowsLocalDate
<1> QED
  BY <1>1, <1>4, <1>6, <1>7 DEF BudgetInv, OverrunBounded

LEMMA BudgetNew ==
  ASSUME SessionInv, BudgetInv, ReadNew
  PROVE  BudgetInv'
<1>1. /\ step = "new" /\ step' = "done" /\ items' = items \o Batch({StateNew}, newBudget)
      /\ UNCHANGED <<db, now, at, newBudget, reviewBudget, racing, quiet>>
  BY DEF ReadNew
<1>2. newBudget \in Nat /\ Len(items) \in Nat /\ racing \in Nat
  BY <1>1, QueueAssumption DEF SessionInv, ReqInv
<1>3. Extended(items', {StateNew}, newBudget)
  <2>1. \A i \in 1..Len(items) : items[i].card \notin Matching({StateNew})
    BY <1>1 DEF SessionInv, ServedInv, Matching
  <2> QED
    BY <1>1, <1>2, <2>1, AddBatch
<1> DEFINE n      == Len(Batch({StateNew}, newBudget))
           served == {i \in DOMAIN items' : items'[i].state \in {StateNew}}
           added  == Len(items)+1..Len(items')
<1>4. n \in Nat /\ n <= newBudget /\ Len(items') = Len(items) + n
  BY <1>3 DEF Extended
<1>5. served \subseteq added
  <2>1. \A i \in 1..Len(items) : items'[i] = items[i] /\ items[i].state # StateNew
    BY <1>1, <1>3 DEF Extended, SessionInv, ServedInv
  <2>2. DOMAIN items' = 1..Len(items')
    BY <1>3 DEF Extended
  <2> HIDE DEF n
  <2>3. \A i \in 1..Len(items') : i \in 1..Len(items) \/ i \in added
    BY <1>2, <1>4
  <2> QED
    BY <2>1, <2>2, <2>3
<1> HIDE DEF n
<1>6. IsFiniteSet(added) /\ Cardinality(added) = n
  <2>1. /\ Len(items) + 1 \in Int /\ Len(items') \in Int
        /\ Len(items') - (Len(items) + 1) + 1 = n
        /\ Len(items) + 1 > Len(items') => n = 0
    BY <1>2, <1>4
  <2> QED
    BY <1>4, <2>1, FS_Interval
<1> HIDE DEF served, added
<1>7. Cardinality(served) <= n /\ Cardinality(served) \in Nat
  BY <1>5, <1>6, FS_Subset, FS_CardinalityType
<1>8. NewServed' = Cardinality(served) /\ IntroducedOn(at)' = IntroducedOn(at)
  BY <1>1 DEF NewServed, Served, served, IntroducedOn, OnDate, db
<1>9. OverrunBounded'
  <2>1. ASSUME Cardinality(served) > 0
        PROVE  Cardinality(served) + IntroducedOn(at) <= NewCardsPerDay + racing
    <3>1. newBudget + IntroducedOn(at) <= NewCardsPerDay + racing
      BY <1>1, <1>2, <1>4, <1>7, <2>1 DEF BudgetInv
    <3>2. IntroducedOn(at) \in Nat
      BY IntroducedType DEF SessionInv
    <3> QED
      BY <1>2, <1>4, <1>7, <3>1, <3>2, QueueAssumption
  <2> QED
    BY <1>1, <1>8, <2>1 DEF OverrunBounded
<1> QED
  BY <1>1, <1>9 DEF BudgetInv, AllowanceFollowsLocalDate

LEMMA BudgetCommit ==
  ASSUME SessionInv, BudgetInv, Commit
  PROVE  BudgetInv'
<1> DEFINE added == {rv \in reviews' \ reviews : rv.wasNew}
<1>1. DbInv' /\ Concurrently
  BY CommitEffect DEF SessionInv
<1>2. /\ step # "done" /\ UNCHANGED <<step, at, newBudget, reviewBudget, items, now>>
      /\ quiet' = (step = "idle")
      /\ racing' = IF step \in {"idle", "totals"} THEN 0 ELSE racing + Cardinality(added)
  BY <1>1 DEF Concurrently, build
<1>3. /\ Cardinality(added) \in Nat
      /\ IntroducedOn(at)' <= IntroducedOn(at) + Cardinality(added)
  BY <1>1, <1>2, IntroducedGrows DEF SessionInv
<1> HIDE DEF added
<1>4. /\ IntroducedOn(at) \in Nat /\ IntroducedOn(at)' \in Nat
  <2>1. IntroducedOn(at) \in Nat
    BY IntroducedType DEF SessionInv
  <2>2. {rv \in OnDate(at)' : rv.wasNew} \subseteq reviews'
    BY DEF OnDate
  <2>3. IntroducedOn(at)' \in Nat
    BY <1>1, <2>2, FS_Subset, FS_CardinalityType DEF DbInv, IntroducedOn
  <2> QED
    BY <2>1, <2>3
<1>5. ASSUME step \in {"learning", "review", "new"}, newBudget > 0
      PROVE  newBudget + IntroducedOn(at)' <= NewCardsPerDay + racing'
  <2>1. newBudget + IntroducedOn(at) <= NewCardsPerDay + racing
    BY <1>5 DEF BudgetInv
  <2>2. newBudget \in Nat /\ racing \in Nat /\ racing' = racing + Cardinality(added)
    BY <1>2, <1>5, QueueAssumption DEF SessionInv, ReqInv
  <2> QED
    BY <1>3, <1>4, <2>1, <2>2, QueueAssumption
<1>6. step' \in {"idle", "totals"} => racing' = 0
  BY <1>2
<1>7. OverrunBounded' /\ AllowanceFollowsLocalDate'
  BY <1>2 DEF OverrunBounded, AllowanceFollowsLocalDate
<1> QED
  BY <1>2, <1>5, <1>6, <1>7 DEF BudgetInv

LEMMA BudgetStep ==
  ASSUME ChangeWithinADay, SessionInv, BudgetInv, [Next]_vars
  PROVE  BudgetInv'
<1>1. CASE Receive
  <2>1. step = "idle" /\ step' = "totals" /\ racing' = racing
    BY <1>1 DEF Receive
  <2> QED
    BY <2>1 DEF BudgetInv, OverrunBounded, AllowanceFollowsLocalDate
<1>2. CASE ReadTotals
  BY <1>2, BudgetTotals
<1>3. CASE ReadLearning \/ ReadReview
  <2>1. /\ step \in {"learning", "review"} /\ step' \in {"review", "new"}
        /\ UNCHANGED <<db, at, newBudget, racing>>
    BY <1>3 DEF ReadLearning, ReadReview
  <2>2. IntroducedOn(at)' = IntroducedOn(at)
    BY <2>1 DEF IntroducedOn, OnDate, db
  <2> QED
    BY <2>1, <2>2 DEF BudgetInv, OverrunBounded, AllowanceFollowsLocalDate
<1>4. CASE ReadNew
  BY <1>4, BudgetNew
<1>5. CASE Respond \/ Fail
  <2>1. step' = "idle" /\ racing' = 0
    BY <1>5 DEF Respond, Fail, Idle
  <2> QED
    BY <2>1 DEF BudgetInv, OverrunBounded, AllowanceFollowsLocalDate
<1>6. CASE Commit
  BY <1>6, BudgetCommit
<1>7. CASE Tick \/ UNCHANGED vars
  <2>1. UNCHANGED <<db, build, racing, quiet>>
    BY <1>7 DEF Tick, vars
  <2>2. /\ IntroducedOn(at)' = IntroducedOn(at) /\ OnDate(at)' = OnDate(at)
        /\ NewServed' = NewServed
    BY <2>1 DEF IntroducedOn, OnDate, NewServed, Served, db, build
  <2> QED
    BY <2>1, <2>2 DEF BudgetInv, OverrunBounded, AllowanceFollowsLocalDate, build
<1> QED
  BY <1>1, <1>2, <1>3, <1>4, <1>5, <1>6, <1>7, NextCases DEF Handle

-----------------------------------------------------------------------------
(* The statistics *)

(* handleStats changes nothing: to the database and to the queue's handler  *)
(* every step of it is a stutter.                                           *)
THEOREM StatisticsOnlyRead == StatsSpec => Spec
<1>1. StatsInit => Init
  BY DEF StatsInit
<1>2. ASSUME [StatsNext]_allVars
      PROVE  [Next]_vars
  <2>1. CASE QueueStep
    BY <2>1, NextCases DEF QueueStep
  <2>2. CASE Meanwhile
    BY <2>2, NextCases DEF Meanwhile, Commit
  <2>3. CASE Clock
    BY <2>3, NextCases DEF Clock
  <2>4. CASE UNCHANGED allVars
    BY <2>4 DEF allVars
  <2>5. CASE ReceiveStats \/ ReadCounts \/ ReadStatsTotals \/ ReadHistogram \/ ReadNextDue
             \/ RespondStats \/ FailStats
    BY <2>5 DEF ReceiveStats, ReadCounts, ReadStatsTotals, ReadHistogram, ReadNextDue,
                RespondStats, FailStats, Then
  <2> QED
    BY <1>2, <2>1, <2>2, <2>3, <2>4, <2>5 DEF StatsNext
<1> QED
  BY <1>1, <1>2, PTL DEF StatsSpec, Spec

(* What the queue's invariants say of a session holds next to statistics.   *)
LEMMA SessionAlways == StatsSpec => []SessionInv
<1>1. Spec => []SessionInv
  BY SessionInit, SessionStep, PTL DEF Spec
<1> QED
  BY <1>1, StatisticsOnlyRead, PTL

(* No session shows a card twice, though its three queries see three states *)
(* of the database and none of them knows what the others found.            *)
THEOREM NoCardIsServedTwice == StatsSpec => []NoCardTwice
<1>1. SessionInv => NoCardTwice
  <2> SUFFICES ASSUME SessionInv PROVE NoCardTwice
    OBVIOUS
  <2>1. DOMAIN items = 1..Len(items)
    BY DEF SessionInv, ReqInv
  <2> QED
    BY <2>1 DEF SessionInv, ServedInv, NoCardTwice
<1> QED
  BY <1>1, SessionAlways, PTL

LEMMA BudgetAlways ==
  ASSUME ChangeWithinADay
  PROVE  StatsSpec => [](SessionInv /\ BudgetInv)
<1>1. Init => SessionInv /\ BudgetInv
  BY SessionInit, BudgetInit
<1>2. SessionInv /\ BudgetInv /\ [Next]_vars => (SessionInv /\ BudgetInv)'
  BY SessionStep, BudgetStep
<1>3. Spec => [](SessionInv /\ BudgetInv)
  BY <1>1, <1>2, PTL DEF Spec
<1> QED
  BY <1>3, StatisticsOnlyRead, PTL

(* ReadTotals before the queries: a session introduces no more new cards    *)
(* than the deck's daily allowance, but for those that other requests       *)
(* introduced while it was put together.                                    *)
THEOREM AllowanceIsKept ==
  ASSUME ChangeWithinADay
  PROVE  StatsSpec => []OverrunBounded
<1>1. SessionInv /\ BudgetInv => OverrunBounded
  BY DEF BudgetInv
<1> QED
  BY <1>1, BudgetAlways, PTL

(* dayBounds and ReviewTotals: the allowances are charged with the reviews  *)
(* of the server's local date, on the day the clocks are changed, too.      *)
THEOREM AllowanceIsByLocalDate ==
  ASSUME ChangeWithinADay
  PROVE  StatsSpec => []AllowanceFollowsLocalDate
<1>1. SessionInv /\ BudgetInv => AllowanceFollowsLocalDate
  BY DEF BudgetInv
<1> QED
  BY <1>1, BudgetAlways, PTL

(* handleStats has read some of its answer, from a database that may have   *)
(* changed meanwhile; as long as it has not, what was read is still so.     *)
StatInv ==
  /\ call \in {"none", "counts", "totals", "histogram", "nextDue", "done"}
  /\ asOf \in Times /\ calm \in BOOLEAN
  /\ call = "none" \/ step = "idle"
  /\ answer = [total |-> answer.total, due |-> answer.due, new |-> answer.new,
               learning |-> answer.learning, suspended |-> answer.suspended,
               reviewsToday |-> answer.reviewsToday, newToday |-> answer.newToday,
               histogram |-> answer.histogram, nextDue |-> answer.nextDue]
  /\ calm /\ call \in {"totals", "histogram", "nextDue", "done"} =>
       /\ answer.total     = Cardinality(DOMAIN cards)
       /\ answer.due       = Cardinality(DueAt(asOf))
       /\ answer.suspended = Cardinality(DOMAIN cards \ Active)
  /\ calm /\ call \in {"histogram", "nextDue", "done"}
       => answer.reviewsToday = Cardinality(ReviewsToday(asOf))
  /\ calm /\ call \in {"nextDue", "done"} => answer.histogram = Histogram(asOf)
  /\ calm /\ call = "done" => answer.nextDue = NextDue(asOf)

(* The deck is, at any instant, the due, the later and the suspended cards. *)
LEMMA DeckInThree ==
  ASSUME DbInv, NEW t \in Times
  PROVE  LET due       == Cardinality(DueAt(t))
             suspended == Cardinality(DOMAIN cards \ Active)
             later     == Active \ DueAt(t)
         IN  /\ due \in Nat /\ suspended \in Nat
             /\ later = {} <=> due + suspended = Cardinality(DOMAIN cards)
<1> DEFINE Due       == DueAt(t)
           Suspended == DOMAIN cards \ Active
           Later     == Active \ DueAt(t)
           rest      == Due \cup Suspended
<1>1. /\ Due \cap Suspended = {} /\ Later \cap rest = {}
      /\ DOMAIN cards = rest \cup Later
      /\ Due \subseteq DOMAIN cards /\ Suspended \subseteq DOMAIN cards
      /\ Later \subseteq DOMAIN cards /\ rest \subseteq DOMAIN cards
  BY DEF DueAt, Active
<1>2. IsFiniteSet(DOMAIN cards)
  BY FS_Subset DEF DbInv
<1> HIDE DEF Due, Suspended, Later
<1>3. IsFiniteSet(Due) /\ IsFiniteSet(Suspended) /\ IsFiniteSet(Later)
  BY <1>1, <1>2, FS_Subset
<1>4. /\ Cardinality(Due) \in Nat /\ Cardinality(Suspended) \in Nat
      /\ Cardinality(Later) \in Nat
      /\ Later = {} <=> Cardinality(Later) = 0
  BY <1>3, FS_CardinalityType, FS_EmptySet
<1>5. Cardinality(rest) = Cardinality(Due) + Cardinality(Suspended) /\ IsFiniteSet(rest)
  <2>1. /\ Cardinality(Due \cup Suspended) =
             Cardinality(Due) + Cardinality(Suspended) - Cardinality(Due \cap Suspended)
        /\ IsFiniteSet(Due \cup Suspended)
    BY <1>3, FS_Union
  <2>2. Cardinality(Due \cap Suspended) = 0
    BY <1>1, FS_EmptySet
  <2> QED
    BY <1>4, <2>1, <2>2
<1> HIDE DEF rest
<1>6. Cardinality(DOMAIN cards) = Cardinality(rest) + Cardinality(Later)
  <2>1. Cardinality(rest \cup Later) =
          Cardinality(rest) + Cardinality(Later) - Cardinality(rest \cap Later)
    BY <1>3, <1>5, FS_Union
  <2>2. Cardinality(rest \cap Later) = 0
    BY <1>1, FS_EmptySet
  <2>3. Cardinality(rest) \in Nat
    BY <1>5, FS_CardinalityType
  <2> QED
    BY <1>1, <1>4, <2>1, <2>2, <2>3
<1>7. Later = {} <=> Cardinality(Due) + Cardinality(Suspended) = Cardinality(DOMAIN cards)
  BY <1>4, <1>5, <1>6
<1> QED
  BY <1>4, <1>7 DEF Due, Suspended, Later

(* next_due is the first of the due times to come. *)
LEMMA NextDueFacts ==
  ASSUME DbInv, NEW t \in Times
  PROVE  LET later == Active \ DueAt(t)
         IN  /\ NextDue(t) = Nothing <=> later = {}
             /\ NextDue(t) # Nothing =>
                  /\ NextDue(t) > t
                  /\ \E c \in Active : cards[c].due = NextDue(t)
                  /\ \A c \in Active : cards[c].due <= t \/ cards[c].due >= NextDue(t)
<1> DEFINE later == Active \ DueAt(t)
           times == {cards[c].due : c \in later}
<1>1. \A c \in Active : cards[c].due \in Nat
  BY DEF Active, DbInv, JoinedRows
<1>2. t \in Nat
  BY QueueAssumption DEF Times
<1>3. later \subseteq Active /\ \A c \in Active : c \in later <=> cards[c].due > t
  BY <1>1, <1>2 DEF DueAt
<1>4. times \in SUBSET Nat /\ (times = {} <=> later = {})
  BY <1>1, <1>3
<1>5. NextDue(t) = IF times = {} THEN Nothing ELSE Min(times)
  BY DEF NextDue
<1>6. CASE times = {}
  <2>1. later = {} /\ NextDue(t) = Nothing
    BY <1>4, <1>5, <1>6
  <2> QED
    BY <2>1
<1>7. CASE times # {}
  <2> DEFINE next == NextDue(t)
  <2>1. next \in times /\ \A x \in times : next <= x
    <3> HIDE DEF times, next
    <3>1. Min(times) \in times /\ \A x \in times : Min(times) <= x
      BY <1>4, <1>7, MinOf
    <3> QED
      BY <1>5, <1>7, <3>1 DEF next
  <2>2. next \in Nat /\ next # Nothing
    BY <1>4, <2>1, StatisticsAssumption
  <2>3. PICK c \in later : cards[c].due = next
    BY <2>1
  <2> HIDE DEF next
  <2>4. next > t /\ \E d \in Active : cards[d].due = next
    BY <1>3, <2>3
  <2>5. \A d \in Active : cards[d].due <= t \/ cards[d].due >= next
    <3> TAKE d \in Active
    <3>1. CASE d \in later
      <4>1. cards[d].due \in times
        BY <3>1
      <4> QED
        BY <1>1, <2>1, <2>2, <4>1 DEF next
    <3>2. CASE d \notin later
      BY <1>1, <1>2, <1>3, <3>2
    <3> QED
      BY <3>1, <3>2
  <2> QED
    BY <1>4, <1>7, <2>2, <2>4, <2>5 DEF next
<1> QED
  BY <1>6, <1>7

LEMMA StatInit == StatsInit => StatInv
<1> SUFFICES ASSUME StatsInit PROVE StatInv
  OBVIOUS
<1>1. /\ call = "none" /\ asOf = 0 /\ calm = TRUE
      /\ answer = [total |-> 0, due |-> 0, new |-> 0, learning |-> 0, suspended |-> 0,
                   reviewsToday |-> 0, newToday |-> 0, histogram |-> << >>,
                   nextDue |-> Nothing]
  BY DEF StatsInit, Blank
<1> QED
  BY <1>1, QueueAssumption DEF StatInv, Times

(* The next of the reads, each of which fills in its columns. *)
LEMMA StatRead ==
  ASSUME StatInv, ReadCounts \/ ReadStatsTotals \/ ReadHistogram \/ ReadNextDue
  PROVE  StatInv'
<1>1. /\ UNCHANGED <<vars, asOf, calm>>
      /\ call \in {"counts", "totals", "histogram", "nextDue"}
      /\ call' \in {"totals", "histogram", "nextDue", "done"}
  BY DEF ReadCounts, ReadStatsTotals, ReadHistogram, ReadNextDue, Then
<1>2. /\ Active' = Active /\ DueAt(asOf)' = DueAt(asOf) /\ NextDue(asOf)' = NextDue(asOf)
      /\ ReviewsToday(asOf)' = ReviewsToday(asOf) /\ Histogram(asOf)' = Histogram(asOf)
      /\ cards' = cards /\ step' = step
  BY <1>1 DEF vars, db, build, Active, DueAt, NextDue, ReviewsToday, Histogram, Window
<1>3. step' = "idle"
  BY <1>1, <1>2 DEF StatInv
<1>4. CASE ReadCounts
  <2>1. /\ call' = "totals"
        /\ answer' = [answer EXCEPT
             !.total     = Cardinality(DOMAIN cards),
             !.due       = Cardinality(DueAt(asOf)),
             !.new       = Cardinality(Active \cap InDeck({StateNew})),
             !.learning  = Cardinality(Active \cap InDeck({StateLearning, StateRelearning})),
             !.suspended = Cardinality(DOMAIN cards \ Active)]
    BY <1>4 DEF ReadCounts, Then
  <2> DEFINE total     == Cardinality(DOMAIN cards)
             due       == Cardinality(DueAt(asOf))
             new       == Cardinality(Active \cap InDeck({StateNew}))
             learning  == Cardinality(Active \cap InDeck({StateLearning, StateRelearning}))
             suspended == Cardinality(DOMAIN cards \ Active)
  <2>2. answer' = [answer EXCEPT !.total = total, !.due = due, !.new = new,
                                 !.learning = learning, !.suspended = suspended]
    BY <2>1
  <2> HIDE DEF total, due, new, learning, suspended
  <2>3. answer' = [total |-> total, due |-> due, new |-> new, learning |-> learning,
                   suspended |-> suspended, reviewsToday |-> answer.reviewsToday,
                   newToday |-> answer.newToday, histogram |-> answer.histogram,
                   nextDue |-> answer.nextDue]
    BY <2>2 DEF StatInv
  <2>4. /\ answer'.total = Cardinality(DOMAIN cards)' /\ answer'.due = Cardinality(DueAt(asOf))'
        /\ answer'.suspended = Cardinality(DOMAIN cards \ Active)'
    BY <1>1, <1>2, <2>3 DEF total, due, suspended
  <2> QED
    BY <1>1, <1>3, <2>1, <2>3, <2>4 DEF StatInv
<1>5. CASE ReadStatsTotals
  <2> DEFINE all == Cardinality(ReviewsToday(asOf))
             new == Cardinality(NewToday(asOf))
  <2>1. /\ call = "totals" /\ call' = "histogram"
        /\ answer' = [answer EXCEPT !.reviewsToday = all, !.newToday = new]
    BY <1>5 DEF ReadStatsTotals, Then
  <2> HIDE DEF all, new
  <2>2. answer' = [total |-> answer.total, due |-> answer.due, new |-> answer.new,
                   learning |-> answer.learning, suspended |-> answer.suspended,
                   reviewsToday |-> all, newToday |-> new, histogram |-> answer.histogram,
                   nextDue |-> answer.nextDue]
    BY <2>1 DEF StatInv
  <2>3. answer'.reviewsToday = Cardinality(ReviewsToday(asOf))'
    BY <1>1, <1>2, <2>2 DEF all
  <2> QED
    BY <1>1, <1>2, <1>3, <2>1, <2>2, <2>3 DEF StatInv
<1>6. CASE ReadHistogram
  <2> DEFINE bars == Histogram(asOf)
  <2>1. /\ call = "histogram" /\ call' = "nextDue"
        /\ answer' = [answer EXCEPT !.histogram = bars]
    BY <1>6 DEF ReadHistogram, Then
  <2> HIDE DEF bars
  <2>2. answer' = [total |-> answer.total, due |-> answer.due, new |-> answer.new,
                   learning |-> answer.learning, suspended |-> answer.suspended,
                   reviewsToday |-> answer.reviewsToday, newToday |-> answer.newToday,
                   histogram |-> bars, nextDue |-> answer.nextDue]
    BY <2>1 DEF StatInv
  <2>3. answer'.histogram = Histogram(asOf)'
    BY <1>1, <1>2, <2>2 DEF bars
  <2> QED
    BY <1>1, <1>2, <1>3, <2>1, <2>2, <2>3 DEF StatInv
<1>7. CASE ReadNextDue
  <2>1. /\ call = "nextDue" /\ call' = "done"
        /\ answer' = [answer EXCEPT !.nextDue = NextDue(asOf)]
    BY <1>7 DEF ReadNextDue, Then
  <2>2. answer' = [total |-> answer.total, due |-> answer.due, new |-> answer.new,
                   learning |-> answer.learning, suspended |-> answer.suspended,
                   reviewsToday |-> answer.reviewsToday, newToday |-> answer.newToday,
                   histogram |-> answer.histogram, nextDue |-> NextDue(asOf)]
    BY <2>1 DEF StatInv
  <2> QED
    BY <1>1, <1>2, <1>3, <2>1, <2>2 DEF StatInv
<1> QED
  BY <1>4, <1>5, <1>6, <1>7

LEMMA StatStep ==
  ASSUME SessionInv, StatInv, [StatsNext]_allVars
  PROVE  StatInv'
<1>1. CASE ReceiveStats
  <2>1. /\ step = "idle" /\ call' = "counts" /\ asOf' = now /\ now \in Times
        /\ UNCHANGED <<vars, answer, calm>>
    BY <1>1 DEF ReceiveStats, SessionInv, DbInv
  <2> QED
    BY <2>1 DEF StatInv, vars, build
<1>2. CASE ReadCounts \/ ReadStatsTotals \/ ReadHistogram \/ ReadNextDue
  BY <1>2, StatRead
<1>3. CASE RespondStats \/ FailStats
  <2>1. StatsIdle
    BY <1>3 DEF RespondStats, FailStats
  <2>2. /\ call' = "none" /\ asOf' = 0 /\ calm' = TRUE
        /\ answer' = [total |-> 0, due |-> 0, new |-> 0, learning |-> 0, suspended |-> 0,
                      reviewsToday |-> 0, newToday |-> 0, histogram |-> << >>,
                      nextDue |-> Nothing]
    BY <2>1 DEF StatsIdle, Blank
  <2>3. answer' = [total |-> answer'.total, due |-> answer'.due, new |-> answer'.new,
                   learning |-> answer'.learning, suspended |-> answer'.suspended,
                   reviewsToday |-> answer'.reviewsToday, newToday |-> answer'.newToday,
                   histogram |-> answer'.histogram, nextDue |-> answer'.nextDue]
    BY <2>2
  <2>4. asOf' \in Times
    BY <2>2, QueueAssumption DEF Times
  <2> QED
    BY <2>2, <2>3, <2>4 DEF StatInv
<1>4. CASE QueueStep
  <2>1. call = "none" /\ UNCHANGED stats
    BY <1>4 DEF QueueStep
  <2> QED
    BY <2>1 DEF StatInv, stats
<1>5. CASE Meanwhile
  <2>1. /\ call # "done" /\ Commit /\ calm' = (call = "none")
        /\ UNCHANGED <<call, asOf, answer>>
    BY <1>5 DEF Meanwhile, Commit
  <2>2. step' = step
    BY <2>1, CommitEffect DEF SessionInv, Concurrently, build
  <2> QED
    BY <2>1, <2>2 DEF StatInv
<1>6. CASE Clock \/ UNCHANGED allVars
  <2>1. UNCHANGED <<db, build, stats>>
    BY <1>6 DEF Clock, Tick, allVars, vars
  <2>2. /\ cards' = cards /\ reviews' = reviews /\ step' = step
        /\ call' = call /\ asOf' = asOf /\ answer' = answer /\ calm' = calm
    BY <2>1 DEF db, build, stats
  <2>3. /\ Active' = Active /\ DueAt(asOf)' = DueAt(asOf) /\ NextDue(asOf)' = NextDue(asOf)
    BY <2>2 DEF Active, DueAt, NextDue
  <2>4. Cardinality(DOMAIN cards \ Active)' = Cardinality(DOMAIN cards \ Active)
    BY <2>2, <2>3
  <2>5. ReviewsToday(asOf)' = ReviewsToday(asOf) /\ Histogram(asOf)' = Histogram(asOf)
    BY <2>2 DEF ReviewsToday, Histogram, Window
  <2> QED
    BY <2>2, <2>3, <2>4, <2>5 DEF StatInv
<1> QED
  BY <1>1, <1>2, <1>3, <1>4, <1>5, <1>6 DEF StatsNext

LEMMA StatAlways == StatsSpec => [](SessionInv /\ StatInv)
<1>1. StatsInit => StatInv
  BY StatInit
<1>2. SessionInv /\ StatInv /\ [StatsNext]_allVars => StatInv'
  BY StatStep
<1> QED
  BY <1>1, <1>2, SessionAlways, PTL DEF StatsSpec

(* The variables of the two handlers and of the database have their types,  *)
(* and the handlers are not at work at the same time.                       *)
THEOREM StatisticsTypeCorrect == StatsSpec => []StatsTypeOK
<1>1. SessionInv /\ StatInv => StatsTypeOK
  <2> SUFFICES ASSUME SessionInv, StatInv PROVE StatsTypeOK
    OBVIOUS
  <2>1. TypeOK
    BY DEF SessionInv, DbInv, ReqInv, TypeOK
  <2>2. DOMAIN answer = DOMAIN Blank
    BY DEF StatInv, Blank
  <2> QED
    BY <2>1, <2>2 DEF StatInv, StatsTypeOK
<1> QED
  BY <1>1, StatAlways, PTL

(* Store.DeckCounts and NextDue: what the statistics say of the cards due,  *)
(* of the suspended ones and of the next to come up accounts for the whole  *)
(* deck, and no active card comes up between the call and next_due.         *)
THEOREM StatisticsAddUp == StatsSpec => []EveryCardAccounted
<1>1. SessionInv /\ StatInv => EveryCardAccounted
  <2> SUFFICES ASSUME SessionInv, StatInv, Complete PROVE
        /\ answer.nextDue = Nothing <=> answer.due + answer.suspended = answer.total
        /\ answer.nextDue # Nothing =>
             /\ answer.nextDue > asOf
             /\ \E c \in Active : cards[c].due = answer.nextDue
             /\ \A c \in Active : cards[c].due <= asOf \/ cards[c].due >= answer.nextDue
    BY DEF EveryCardAccounted
  <2>1. /\ asOf \in Times /\ DbInv
        /\ answer.total     = Cardinality(DOMAIN cards)
        /\ answer.due       = Cardinality(DueAt(asOf))
        /\ answer.suspended = Cardinality(DOMAIN cards \ Active)
        /\ answer.nextDue   = NextDue(asOf)
    BY DEF SessionInv, StatInv, Complete
  <2> QED
    BY <2>1, DeckInThree, NextDueFacts
<1> QED
  BY <1>1, StatAlways, PTL

-----------------------------------------------------------------------------
(* Which cards a session leaves out *)

In(which, s)       == {i \in DOMAIN s : s[i].state \in which}
Out(which, s)      == Matching(which) \ {s[i].card : i \in DOMAIN s}
DueFirst(which, s) == \A c \in Out(which, s), i \in In(which, s) : s[i].due <= cards[c].due

ReviewAllowance == Remaining(MaxReviewsPerDay, Cardinality(ReviewsToday(at)))
NewAllowance    == Remaining(NewCardsPerDay, Cardinality(NewToday(at)))

(* The session after the first, the second and the third query, if the      *)
(* database has not changed since the request came.                         *)
LearningRead(s, budget) ==
  /\ budget \in Nat /\ budget + Len(s) = ReviewAllowance
  /\ \A i \in 1..Len(s) : s[i].state \in OnLadder
  /\ Out(OnLadder, s) # {} => Len(s) = Limit \/ budget = 0
  /\ DueFirst(OnLadder, s)

ReviewsRead(s) ==
  /\ \A i \in 1..Len(s) : s[i].state \in OnLadder \cup OffLadder
  /\ Out(OnLadder \cup OffLadder, s) # {} => Len(s) = Limit \/ Len(s) = ReviewAllowance
  /\ Out(OnLadder, s) # {} => In(OffLadder, s) = {}
  /\ DueFirst(OnLadder, s) /\ DueFirst(OffLadder, s)

NewRead(s) ==
  /\ Out(OnLadder \cup OffLadder, s) # {} =>
       Len(s) = Limit \/ Cardinality(In(OnLadder \cup OffLadder, s)) = ReviewAllowance
  /\ Out({StateNew}, s) # {} =>
       Len(s) = Limit \/ Cardinality(In({StateNew}, s)) = NewAllowance
  /\ Out(OnLadder, s) # {} => In(OffLadder, s) = {}
  /\ DueFirst(OnLadder, s) /\ DueFirst(OffLadder, s) /\ DueFirst({StateNew}, s)

FairInv ==
  quiet =>
    /\ step \in {"learning", "review", "new"} => newBudget = NewAllowance
    /\ step = "learning" => reviewBudget = ReviewAllowance
    /\ step = "review" => LearningRead(items, reviewBudget)
    /\ step = "new" => ReviewsRead(items)
    /\ step = "done" => NewRead(items)

(* What a query leaves out, it leaves out for want of room, and it has      *)
(* given what is due sooner.                                                *)
LeftOut(new, which, budget) ==
  \A c \in Out(which, new) :
    /\ Len(new) = Len(items) + budget \/ Len(new) = Limit
    /\ \A i \in Len(items)+1..Len(new) : new[i].due <= cards[c].due

LEMMA LeftOutFacts ==
  ASSUME SessionInv, NEW which, NEW budget \in Nat,
         NEW new, new = items \o Batch(which, budget), Extended(new, which, budget)
  PROVE  LeftOut(new, which, budget)
<1> DEFINE batch == Batch(which, budget)
           n == Len(batch)
           l == Len(items)
<1> SUFFICES ASSUME NEW c \in Out(which, new)
             PROVE  /\ Len(new) = l + budget \/ Len(new) = Limit
                    /\ \A i \in l+1..Len(new) : new[i].due <= cards[c].due
  BY DEF LeftOut
<1>1. /\ l \in Nat /\ n \in Nat /\ Len(new) = l + n /\ new \in Seq(Items)
      /\ \A i \in l+1..Len(new) : i - l \in 1..n /\ new[i] = batch[i - l]
  BY DEF SessionInv, ReqInv, Extended
<1>2. c \in Matching(which) /\ \A i \in 1..Len(new) : new[i].card # c
  <2>1. DOMAIN new = 1..Len(new)
    BY <1>1
  <2> QED
    BY <2>1 DEF Out
<1>3. new = items \o batch /\ batch \in Seq(Items) /\ items \in Seq(Items)
  BY BatchFacts DEF SessionInv, ReqInv
<1>4. \A i \in 1..n : batch[i] = new[l + i] /\ l + i \in 1..Len(new)
  <2> HIDE DEF batch
  <2> QED
    BY <1>1, <1>3
<1>5. \A i \in 1..n : batch[i].card # c
  BY <1>2, <1>4
<1>6. /\ n = budget \/ n = Limit - l
      /\ \A i \in 1..n : batch[i].due <= cards[c].due
  BY <1>2, <1>5, BatchFacts DEF SessionInv
<1> HIDE DEF batch, n, l
<1>7. Len(new) = l + budget \/ Len(new) = Limit
  BY <1>1, <1>6, QueueAssumption
<1>8. ASSUME NEW i \in l+1..Len(new)
      PROVE  new[i].due <= cards[c].due
  <2> DEFINE k == i - l
  <2>1. k \in 1..n /\ new[i] = batch[k]
    BY <1>1
  <2> HIDE DEF k
  <2> QED
    BY <1>6, <2>1
<1> QED
  BY <1>7, <1>8

LEMMA FairLearning ==
  ASSUME SessionInv, FairInv, quiet, step = "learning",
         NEW new, new = items \o Batch(OnLadder, reviewBudget)
  PROVE  LearningRead(new, reviewBudget - Len(Batch(OnLadder, reviewBudget)))
<1> DEFINE n == Len(Batch(OnLadder, reviewBudget))
<1>1. items = << >> /\ Len(items) = 0 /\ reviewBudget \in Nat
      /\ reviewBudget = ReviewAllowance
  BY QueueAssumption DEF SessionInv, ServedInv, ReqInv, FairInv
<1>2. Extended(new, OnLadder, reviewBudget)
  BY <1>1, AddBatch
<1>3. LeftOut(new, OnLadder, reviewBudget)
  BY <1>1, <1>2, LeftOutFacts
<1>4. /\ n \in Nat /\ n <= reviewBudget /\ Len(new) = n /\ DOMAIN new = 1..n
      /\ \A i \in 1..n : /\ new[i].card \in Matching(OnLadder)
                         /\ new[i].state = cards[new[i].card].state
  BY <1>1, <1>2 DEF Extended
<1>5. \A c \in Out(OnLadder, new) : /\ n = reviewBudget \/ n = Limit
                                    /\ \A i \in 1..n : new[i].due <= cards[c].due
  <2> HIDE DEF n
  <2> TAKE c \in Out(OnLadder, new)
  <2> DEFINE l == Len(items)
  <2>1. /\ Len(new) = l + reviewBudget \/ Len(new) = Limit
        /\ \A i \in l+1..Len(new) : new[i].due <= cards[c].due
    BY <1>3 DEF LeftOut
  <2>2. l = 0
    BY <1>1
  <2> HIDE DEF l
  <2>3. n = reviewBudget \/ n = Limit
    BY <1>1, <1>4, <2>1, <2>2
  <2>4. \A i \in 1..n : i \in l+1..Len(new)
    BY <1>4, <2>2
  <2> QED
    BY <2>1, <2>3, <2>4
<1>6. \A i \in 1..n : new[i].state \in OnLadder
  BY <1>4 DEF Matching
<1> HIDE DEF n
<1>7. DueFirst(OnLadder, new)
  BY <1>4, <1>5 DEF DueFirst, In
<1>8. /\ reviewBudget - n \in Nat /\ (reviewBudget - n) + n = reviewBudget
      /\ n = reviewBudget => reviewBudget - n = 0
  BY <1>1, <1>4
<1> QED
  BY <1>1, <1>4, <1>5, <1>6, <1>7, <1>8 DEF LearningRead, n

LEMMA FairReview ==
  ASSUME SessionInv, FairInv, quiet, step = "review",
         NEW new, new = items \o Batch(OffLadder, reviewBudget)
  PROVE  ReviewsRead(new)
<1> DEFINE l == Len(items)
<1>1. /\ l \in Nat /\ items \in Seq(Items) /\ DOMAIN items = 1..l
      /\ LearningRead(items, reviewBudget) /\ reviewBudget \in Nat
  BY DEF SessionInv, ReqInv, FairInv, LearningRead
<1>2. Extended(new, OffLadder, reviewBudget)
  <2>1. \A i \in 1..l : items[i].card \notin Matching(OffLadder)
    <3> SUFFICES ASSUME NEW i \in 1..l, items[i].card \in Matching(OffLadder) PROVE FALSE
      OBVIOUS
    <3> DEFINE c == items[i].card
    <3>1. /\ c \in DOMAIN cards /\ cards[c].state = StateReview /\ cards[c].due <= at
      BY DEF Matching, OffLadder
    <3>2. cards[c].due > at
      BY <3>1 DEF SessionInv, ServedInv
    <3>3. cards[c].due \in Nat /\ at \in Nat
      BY <3>1, QueueAssumption DEF SessionInv, DbInv, ReqInv, JoinedRows, Times
    <3> HIDE DEF c
    <3> QED
      BY <3>1, <3>2, <3>3
  <2> QED
    BY <1>1, <2>1, AddBatch
<1>3. LeftOut(new, OffLadder, reviewBudget)
  BY <1>1, <1>2, LeftOutFacts
<1>4. /\ Len(new) \in Nat /\ l <= Len(new) /\ Len(new) <= l + reviewBudget
      /\ Len(new) <= Limit /\ DOMAIN new = 1..Len(new)
      /\ \A i \in 1..l : new[i] = items[i]
      /\ \A i \in l+1..Len(new) : /\ new[i].card \in Matching(OffLadder)
                                  /\ new[i].state = cards[new[i].card].state
  BY <1>1, <1>2 DEF Extended
<1> HIDE DEF l
<1>5. \A i \in 1..Len(new) : i \in 1..l \/ i \in l+1..Len(new)
  BY <1>1, <1>4
<1>6. /\ \A i \in 1..l : i \in DOMAIN new /\ new[i].state \in OnLadder
      /\ \A i \in l+1..Len(new) : i \in DOMAIN new /\ new[i].state \in OffLadder
  <2>1. \A i \in 1..l : i \in 1..Len(new) /\ items[i].state \in OnLadder
    BY <1>1, <1>4 DEF LearningRead, l
  <2>2. \A i \in l+1..Len(new) : i \in 1..Len(new) /\ new[i].state \in OffLadder
    BY <1>1, <1>4 DEF Matching
  <2> QED
    BY <1>4, <2>1, <2>2
<1>7. OnLadder \cap OffLadder = {}
  BY DEF OnLadder, OffLadder, StateLearning, StateRelearning, StateReview
<1>8. Out(OnLadder, new) \subseteq Out(OnLadder, items)
  <2>1. \A i \in DOMAIN items : i \in DOMAIN new /\ new[i] = items[i]
    BY <1>1, <1>4, <1>6
  <2> QED
    BY <2>1 DEF Out
<1>9. /\ l + reviewBudget = ReviewAllowance
      /\ Out(OnLadder, items) # {} => l = Limit \/ reviewBudget = 0
  BY <1>1 DEF LearningRead, l
<1>10. \A c \in Out(OffLadder, new) :
         /\ Len(new) = l + reviewBudget \/ Len(new) = Limit
         /\ \A i \in l+1..Len(new) : new[i].due <= cards[c].due
  BY <1>3 DEF LeftOut, l
<1>11. Out(OnLadder, new) # {} => l = Len(new)
  BY <1>1, <1>4, <1>8, <1>9, QueueAssumption
<1>12. Out(OnLadder, new) # {} => In(OffLadder, new) = {}
  BY <1>4, <1>6, <1>7, <1>11 DEF In
<1>13. Out(OnLadder \cup OffLadder, new) # {} => Len(new) = Limit \/ Len(new) = ReviewAllowance
  <2>1. Out(OnLadder \cup OffLadder, new) \subseteq Out(OnLadder, new) \cup Out(OffLadder, new)
    BY DEF Out, Matching
  <2>2. CASE Out(OnLadder, new) # {}
    BY <1>1, <1>8, <1>9, <1>11, <2>2
  <2>3. CASE Out(OffLadder, new) # {}
    BY <1>9, <1>10, <2>3
  <2> QED
    BY <2>1, <2>2, <2>3
<1>14. DueFirst(OnLadder, new)
  <2>1. ASSUME NEW c \in Out(OnLadder, new), NEW i \in In(OnLadder, new)
        PROVE  new[i].due <= cards[c].due
    <3>1. i \in 1..l /\ new[i] = items[i] /\ i \in In(OnLadder, items)
      BY <1>1, <1>4, <1>5, <1>6, <1>7, <2>1 DEF In
    <3>2. c \in Out(OnLadder, items)
      BY <1>8
    <3> QED
      BY <1>1, <3>1, <3>2 DEF LearningRead, DueFirst
  <2> QED
    BY <2>1 DEF DueFirst
<1>15. DueFirst(OffLadder, new)
  <2>1. ASSUME NEW c \in Out(OffLadder, new), NEW i \in In(OffLadder, new)
        PROVE  new[i].due <= cards[c].due
    <3>1. i \in l+1..Len(new)
      BY <1>4, <1>5, <1>6, <1>7, <2>1 DEF In
    <3> QED
      BY <1>10, <3>1
  <2> QED
    BY <2>1 DEF DueFirst
<1>16. \A i \in 1..Len(new) : new[i].state \in OnLadder \cup OffLadder
  BY <1>5, <1>6
<1> QED
  BY <1>12, <1>13, <1>14, <1>15, <1>16 DEF ReviewsRead

LEMMA FairNew ==
  ASSUME SessionInv, FairInv, quiet, step = "new",
         NEW new, new = items \o Batch({StateNew}, newBudget)
  PROVE  NewRead(new)
<1> DEFINE l == Len(items)
           n == Len(Batch({StateNew}, newBudget))
           Old == OnLadder \cup OffLadder
<1>1. /\ l \in Nat /\ items \in Seq(Items) /\ DOMAIN items = 1..l /\ l <= Limit
      /\ ReviewsRead(items) /\ newBudget \in Nat /\ newBudget = NewAllowance
  BY QueueAssumption DEF SessionInv, ReqInv, FairInv
<1>2. Extended(new, {StateNew}, newBudget)
  <2>1. \A i \in 1..l : items[i].card \notin Matching({StateNew})
    BY DEF SessionInv, ServedInv, Matching
  <2> QED
    BY <1>1, <2>1, AddBatch
<1>3. LeftOut(new, {StateNew}, newBudget)
  BY <1>1, <1>2, LeftOutFacts
<1>4. /\ n \in Nat /\ Len(new) = l + n /\ Len(new) <= Limit /\ DOMAIN new = 1..Len(new)
      /\ \A i \in 1..l : new[i] = items[i]
      /\ \A i \in l+1..Len(new) : /\ new[i].card \in Matching({StateNew})
                                  /\ new[i].state = cards[new[i].card].state
  <2> DEFINE which == {StateNew}
  <2>1. Extended(new, which, newBudget) /\ n = Len(Batch(which, newBudget))
    BY <1>2
  <2> HIDE DEF which, n
  <2>2. /\ n \in Nat /\ Len(new) = l + n /\ Len(new) <= Limit /\ new \in Seq(Items)
        /\ \A i \in 1..l : new[i] = items[i]
        /\ \A i \in l+1..Len(new) : /\ new[i].card \in Matching(which)
                                    /\ new[i].state = cards[new[i].card].state
    BY <2>1 DEF Extended
  <2>3. DOMAIN new = 1..Len(new)
    BY <2>2
  <2> QED
    BY <2>2, <2>3 DEF which
<1>5. \A c \in Out({StateNew}, new) :
        /\ Len(new) = l + newBudget \/ Len(new) = Limit
        /\ \A i \in l+1..Len(new) : new[i].due <= cards[c].due
  BY <1>3 DEF LeftOut
<1> HIDE DEF l, n
<1>6. /\ \A i \in 1..Len(new) : i \in 1..l \/ i \in l+1..Len(new)
      /\ \A i \in 1..l : i \in 1..Len(new) /\ i \notin l+1..Len(new)
      /\ \A i \in l+1..Len(new) : i \in 1..Len(new) /\ i \notin 1..l
      /\ Len(new) \in Nat
  BY <1>1, <1>4
<1>7. /\ \A i \in 1..l : new[i].state \in Old
      /\ \A i \in l+1..Len(new) : new[i].state = StateNew
  <2>1. \A i \in 1..l : items[i].state \in Old
    BY <1>1 DEF ReviewsRead, l
  <2>2. \A i \in l+1..Len(new) : new[i].state = StateNew
    BY <1>4 DEF Matching
  <2> QED
    BY <1>4, <2>1, <2>2
<1>8. StateNew \notin Old
  BY DEF OnLadder, OffLadder, StateLearning, StateRelearning, StateReview, StateNew
<1>9. /\ In(Old, new) = 1..l
      /\ In({StateNew}, new) = l+1..Len(new)
  <2> DEFINE later == l+1..Len(new)
             first == 1..l
  <2>1. /\ \A i \in DOMAIN new : i \in first \/ i \in later
        /\ \A i \in first : i \in DOMAIN new /\ new[i].state \in Old
        /\ \A i \in later : i \in DOMAIN new /\ new[i].state = StateNew
    BY <1>4, <1>6, <1>7
  <2> HIDE DEF first, later, Old
  <2>2. In(Old, new) = first /\ In({StateNew}, new) = later
    BY <1>8, <2>1 DEF In
  <2> QED
    BY <2>2 DEF first, later
<1>10. \A which \in {OnLadder, OffLadder} : /\ In(which, new) = In(which, items)
                                            /\ \A i \in In(which, items) : new[i] = items[i]
  <2> TAKE which \in {OnLadder, OffLadder}
  <2>1. which \subseteq Old
    OBVIOUS
  <2>2. \A i \in In(which, new) : i \in 1..l /\ new[i] = items[i] /\ i \in DOMAIN items
    BY <1>1, <1>4, <1>6, <1>7, <1>8, <2>1 DEF In
  <2>3. \A i \in In(which, items) : i \in 1..l /\ new[i] = items[i] /\ i \in DOMAIN new
    BY <1>1, <1>4, <1>6 DEF In
  <2> QED
    BY <2>2, <2>3 DEF In
<1>11. \A which : Out(which, new) \subseteq Out(which, items)
  <2>1. \A i \in DOMAIN items : i \in DOMAIN new /\ new[i] = items[i]
    BY <1>1, <1>4, <1>6
  <2> QED
    BY <2>1 DEF Out
<1>12. Out(OnLadder, new) # {} => In(OffLadder, new) = {}
  <2>1. /\ Out(OnLadder, items) # {} => In(OffLadder, items) = {}
        /\ Out(OnLadder, new) \subseteq Out(OnLadder, items)
        /\ In(OffLadder, new) = In(OffLadder, items)
    BY <1>1, <1>10, <1>11 DEF ReviewsRead
  <2> QED
    BY <2>1
<1>13. \A which \in {OnLadder, OffLadder} : DueFirst(which, new)
  <2> TAKE which \in {OnLadder, OffLadder}
  <2>1. DueFirst(which, items)
    BY <1>1 DEF ReviewsRead
  <2> QED
    BY <1>10, <1>11, <2>1 DEF DueFirst
<1>14. DueFirst({StateNew}, new)
  BY <1>5, <1>9 DEF DueFirst
<1>15. ASSUME Out(Old, new) # {}
       PROVE  Len(new) = Limit \/ Cardinality(In(Old, new)) = ReviewAllowance
  <2>1. l = Limit \/ l = ReviewAllowance
    <3>1. Out(Old, items) # {}
      BY <1>11, <1>15
    <3> QED
      BY <1>1, <3>1 DEF ReviewsRead, l
  <2>2. Cardinality(In(Old, new)) = l
    <3>1. Cardinality(1..l) = l
      BY <1>1, FS_Interval
    <3> QED
      BY <1>9, <3>1
  <2>3. l = Limit => Len(new) = Limit
    BY <1>1, <1>4, QueueAssumption
  <2> QED
    BY <2>1, <2>2, <2>3
<1>16. ASSUME Out({StateNew}, new) # {}
       PROVE  Len(new) = Limit \/ Cardinality(In({StateNew}, new)) = NewAllowance
  <2>1. Len(new) = l + newBudget \/ Len(new) = Limit
    BY <1>5, <1>16
  <2>2. Cardinality(l+1..Len(new)) = n
    <3>1. l \in Nat /\ n \in Nat /\ Len(new) = l + n
      BY <1>1, <1>4
    <3> DEFINE len == Len(new)
    <3>2. len = l + n
      BY <3>1
    <3> HIDE DEF len
    <3>3. /\ l + 1 \in Int /\ len \in Int /\ len - (l + 1) + 1 = n
          /\ l + 1 > len => n = 0
      BY <3>1, <3>2
    <3>4. Cardinality(l+1..len) = n
      BY <3>3, FS_Interval
    <3> QED
      BY <3>4 DEF len
  <2>3. Len(new) = l + newBudget => n = newBudget
    BY <1>1, <1>4
  <2> QED
    BY <1>1, <1>9, <2>1, <2>2, <2>3
<1> QED
  BY <1>12, <1>13, <1>14, <1>15, <1>16 DEF NewRead

(* What was read of an unchanged database still is so. *)
LEMMA FairKept ==
  ASSUME FairInv, UNCHANGED <<db, build, quiet>>
  PROVE  FairInv'
<1>1. /\ cards' = cards /\ reviews' = reviews /\ step' = step /\ at' = at
      /\ newBudget' = newBudget /\ reviewBudget' = reviewBudget /\ items' = items
      /\ quiet' = quiet
  BY DEF db, build
<1>2. NewAllowance' = NewAllowance /\ ReviewAllowance' = ReviewAllowance
  BY <1>1 DEF NewAllowance, ReviewAllowance, NewToday, ReviewsToday
<1> QED
  BY <1>1, <1>2 DEF FairInv, LearningRead, ReviewsRead, NewRead, DueFirst, In, Out, Matching

LEMMA FairStep ==
  ASSUME SessionInv, FairInv, [Next]_vars
  PROVE  FairInv'
<1>1. CASE Receive
  BY <1>1 DEF Receive, FairInv
<1>2. CASE ReadTotals
  <2>1. /\ newBudget' = NewAllowance /\ reviewBudget' = ReviewAllowance /\ step' = "learning"
        /\ cards' = cards /\ reviews' = reviews /\ at' = at
    BY <1>2 DEF ReadTotals, NewAllowance, ReviewAllowance, db
  <2>2. NewAllowance' = NewAllowance /\ ReviewAllowance' = ReviewAllowance
    BY <2>1 DEF NewAllowance, ReviewAllowance, NewToday, ReviewsToday
  <2> QED
    BY <2>1, <2>2 DEF FairInv
<1>3. CASE ReadLearning \/ ReadReview \/ ReadNew
  <2> SUFFICES ASSUME quiet' PROVE FairInv'
    BY DEF FairInv
  <2>1. /\ cards' = cards /\ reviews' = reviews /\ at' = at /\ newBudget' = newBudget
        /\ quiet
    BY <1>3 DEF ReadLearning, ReadReview, ReadNew, db
  <2>2. NewAllowance' = NewAllowance /\ ReviewAllowance' = ReviewAllowance
    BY <2>1 DEF NewAllowance, ReviewAllowance, NewToday, ReviewsToday
  <2>3. CASE ReadLearning
    <3>1. /\ step = "learning" /\ step' = "review"
          /\ items' = items \o Batch(OnLadder, reviewBudget)
          /\ reviewBudget' = reviewBudget - Len(Batch(OnLadder, reviewBudget))
      BY <2>3 DEF ReadLearning, OnLadder
    <3>2. LearningRead(items', reviewBudget')
      BY <2>1, <3>1, FairLearning
    <3>3. LearningRead(items, reviewBudget)'
      BY <2>1, <2>2, <3>2 DEF LearningRead, DueFirst, In, Out, Matching
    <3>4. newBudget = NewAllowance
      BY <2>1, <3>1 DEF FairInv
    <3> QED
      BY <2>1, <2>2, <3>1, <3>3, <3>4 DEF FairInv
  <2>4. CASE ReadReview
    <3>1. /\ step = "review" /\ step' = "new"
          /\ items' = items \o Batch(OffLadder, reviewBudget)
      BY <2>4 DEF ReadReview, OffLadder
    <3>2. ReviewsRead(items')
      BY <2>1, <3>1, FairReview
    <3>3. ReviewsRead(items)'
      BY <2>1, <2>2, <3>2 DEF ReviewsRead, DueFirst, In, Out, Matching
    <3>4. newBudget = NewAllowance
      BY <2>1, <3>1 DEF FairInv
    <3> QED
      BY <2>1, <2>2, <3>1, <3>3, <3>4 DEF FairInv
  <2>5. CASE ReadNew
    <3>1. /\ step = "new" /\ step' = "done"
          /\ items' = items \o Batch({StateNew}, newBudget)
      BY <2>5 DEF ReadNew
    <3>2. NewRead(items')
      BY <2>1, <3>1, FairNew
    <3>3. NewRead(items)'
      BY <2>1, <2>2, <3>2 DEF NewRead, DueFirst, In, Out, Matching
    <3> QED
      BY <3>1, <3>3 DEF FairInv
  <2> QED
    BY <1>3, <2>3, <2>4, <2>5
<1>4. CASE Respond \/ Fail
  BY <1>4 DEF Respond, Fail, Idle, FairInv
<1>5. CASE Commit
  <2>1. /\ step' = step /\ step # "done" /\ quiet' = (step = "idle")
    BY <1>5, CommitEffect DEF SessionInv, Concurrently, build
  <2> QED
    BY <2>1 DEF FairInv
<1>6. CASE Tick \/ UNCHANGED vars
  BY <1>6, FairKept DEF Tick, vars
<1> QED
  BY <1>1, <1>2, <1>3, <1>4, <1>5, <1>6, NextCases DEF Handle

(* handleQueue on a database at rest: a card that is due is left out only   *)
(* because the session is full or the allowance it falls under is used up,  *)
(* learning cards go before review cards, the sooner due before the later.  *)
THEOREM NoDueCardIsWithheld == StatsSpec => []NothingWithheld
<1>1. Init => FairInv
  BY DEF Init, FairInv
<1>2. SessionInv /\ FairInv /\ [Next]_vars => FairInv'
  BY FairStep
<1>3. Spec => [](SessionInv /\ FairInv)
  BY <1>1, <1>2, SessionInit, SessionStep, PTL DEF Spec
<1>4. FairInv => NothingWithheld
  BY DEF FairInv, NewRead, NothingWithheld, DueFirst, In, Out, Served, Withheld, Full,
         ReviewAllowance, NewAllowance
<1> QED
  BY <1>3, <1>4, StatisticsOnlyRead, PTL

-----------------------------------------------------------------------------
(* The bars of the histogram *)

(* What SumFunction computes: it takes one argument after the other.        *)
Taken(s) == CHOOSE x \in s : TRUE
Sums(f, g, sets) ==
  g = [s \in sets |-> IF s = {} THEN 0 ELSE f[Taken(s)] + g[s \ {Taken(s)}]]

(* A finite function has a sum; by the least size for which it would not.   *)
LEMMA SumExists ==
  ASSUME NEW f, IsFiniteSet(DOMAIN f)
  PROVE  \E g : Sums(f, g, SUBSET DOMAIN f) /\ SumFunction(f) = g[DOMAIN f]
<1> DEFINE Small(n) == {s \in SUBSET DOMAIN f : Cardinality(s) <= n}
           Bad      == {n \in Nat : ~ \E g : Sums(f, g, Small(n))}
<1>1. \A s \in SUBSET DOMAIN f : /\ IsFiniteSet(s) /\ Cardinality(s) \in Nat
                                 /\ Cardinality(s) <= Cardinality(DOMAIN f)
                                 /\ Cardinality(s) = 0 <=> s = {}
  BY FS_Subset, FS_CardinalityType, FS_EmptySet
<1>2. Bad = {}
  <2> SUFFICES ASSUME Bad # {} PROVE FALSE
    OBVIOUS
  <2> DEFINE m == Min(Bad)
  <2>1. m \in Bad /\ \A x \in Bad : m <= x
    <3> Bad \in SUBSET Nat
      OBVIOUS
    <3> HIDE DEF Bad
    <3> QED
      BY MinOf
  <2>2. m \in Nat /\ ~ \E g : Sums(f, g, Small(m))
    BY <2>1
  <2>3. m = 0 \/ m - 1 \in Nat \ Bad
    <3> HIDE DEF m, Bad
    <3> QED
      BY <2>1, <2>2
  <2> HIDE DEF m
  <2>4. CASE m = 0
    <3>1. \A s \in Small(m) : s = {}
      BY <1>1, <2>4
    <3> DEFINE g == [s \in Small(m) |-> 0]
    <3>2. Sums(f, g, Small(m))
      BY <3>1 DEF Sums
    <3> QED
      BY <2>2, <3>2
  <2>5. CASE m - 1 \in Nat \ Bad
    <3>1. PICK g : Sums(f, g, Small(m - 1))
      BY <2>5
    <3> DEFINE h == [s \in Small(m) |->
                       IF s = {} THEN 0 ELSE f[Taken(s)] + g[s \ {Taken(s)}]]
    <3>2. ASSUME NEW s \in Small(m), s # {}
          PROVE  s \ {Taken(s)} \in Small(m - 1) /\ s \ {Taken(s)} \in Small(m)
      <4>1. Taken(s) \in s
        BY <3>2 DEF Taken
      <4>2. Cardinality(s \ {Taken(s)}) = Cardinality(s) - 1
        BY <1>1, <4>1, FS_RemoveElement
      <4> QED
        BY <1>1, <2>2, <4>2
    <3>3. \A r \in Small(m - 1) : r \in Small(m) => g[r] = h[r]
      <4> HIDE DEF Small
      <4> QED
        BY <3>1 DEF Sums
    <3>4. \A s \in Small(m) : s # {} => g[s \ {Taken(s)}] = h[s \ {Taken(s)}]
      <4> HIDE DEF Small, h
      <4> QED
        BY <3>2, <3>3
    <3>5. h = [s \in Small(m) |-> IF s = {} THEN 0 ELSE f[Taken(s)] + h[s \ {Taken(s)}]]
      <4> DEFINE k == [s \in Small(m) |->
                         IF s = {} THEN 0 ELSE f[Taken(s)] + h[s \ {Taken(s)}]]
      <4> HIDE DEF Small
      <4>1. \A s \in Small(m) : h[s] = k[s]
        BY <3>4
      <4>2. h = [s \in Small(m) |-> h[s]] /\ k = [s \in Small(m) |-> k[s]]
        OBVIOUS
      <4> HIDE DEF h, k
      <4>3. h = k
        BY <4>1, <4>2
      <4> QED
        BY <4>3 DEF k
    <3> HIDE DEF h
    <3>6. Sums(f, h, Small(m))
      BY <3>5 DEF Sums
    <3> QED
      BY <2>2, <3>6
  <2> QED
    BY <2>3, <2>4, <2>5
<1>3. \E g : Sums(f, g, SUBSET DOMAIN f)
  <2> DEFINE n == Cardinality(DOMAIN f)
  <2>1. n \in Nat /\ Small(n) = SUBSET DOMAIN f
    BY <1>1
  <2>2. n \notin Bad
    BY <1>2
  <2> HIDE DEF n
  <2> QED
    BY <2>1, <2>2
<1> DEFINE Eq(g) == g = [s \in SUBSET DOMAIN f |->
             IF s = {} THEN 0
             ELSE f[CHOOSE x \in s : TRUE] + g[s \ {CHOOSE x \in s : TRUE}]]
<1>4. SumFunction(f) = (CHOOSE g : Eq(g))[DOMAIN f]
  BY DEF SumFunction, SumFunctionOnSet, FoldFunctionOnSet, MapThenFoldSet
<1>5. \E g : Eq(g)
  BY <1>3 DEF Sums, Taken
<1>6. Eq(CHOOSE g : Eq(g))
  <2> HIDE DEF Eq
  <2> QED
    BY <1>5
<1>7. Sums(f, CHOOSE g : Eq(g), SUBSET DOMAIN f)
  BY <1>6 DEF Sums, Taken
<1> QED
  BY <1>4, <1>7

(* The bars are as high together as there are rows in the window.           *)
LEMMA BarsAddUp ==
  ASSUME DbInv, NEW t
  PROVE  /\ HeightOf(Histogram(t)) = Cardinality(Window(t))
         /\ IsFiniteSet(Window(t)) /\ IsFiniteSet(DOMAIN Histogram(t))
<1> DEFINE W        == Window(t)
           f        == Histogram(t)
           In_(s)   == {rv \in W : UTCDay(rv.at) \in s}
           Count(s) == Cardinality(In_(s))
<1>1. IsFiniteSet(W)
  BY FS_Subset DEF Window, DbInv
<1>2. /\ DOMAIN f = {UTCDay(rv.at) : rv \in W}
      /\ \A day \in DOMAIN f : f[day] = Count({day})
  <2>1. \A day : In_({day}) = {rv \in W : UTCDay(rv.at) = day}
    OBVIOUS
  <2> QED
    BY <2>1 DEF Histogram
<1>3. IsFiniteSet(DOMAIN f)
  <2> DEFINE day == [rv \in W |-> UTCDay(rv.at)]
  <2>1. day \in Surjection(W, DOMAIN f)
    BY <1>2 DEF Surjection
  <2> HIDE DEF day, W, f
  <2> QED
    BY <1>1, <2>1, FS_Surjection
<1> HIDE DEF W, f
<1>4. \A s : IsFiniteSet(In_(s)) /\ Count(s) \in Nat
  <2> TAKE s
  <2>1. In_(s) \subseteq W
    OBVIOUS
  <2> QED
    BY <1>1, <2>1, FS_Subset, FS_CardinalityType
<1>5. PICK g : Sums(f, g, SUBSET DOMAIN f) /\ SumFunction(f) = g[DOMAIN f]
  BY <1>3, SumExists
<1>6. \A s \in SUBSET DOMAIN f :
        g[s] = IF s = {} THEN 0 ELSE f[Taken(s)] + g[s \ {Taken(s)}]
  BY <1>5 DEF Sums
<1> HIDE DEF Count
<1> DEFINE Bad == {n \in Nat : \E s \in SUBSET DOMAIN f : Cardinality(s) = n /\ g[s] # Count(s)}
<1>7. Bad = {}
  <2> SUFFICES ASSUME Bad # {} PROVE FALSE
    OBVIOUS
  <2> DEFINE m == Min(Bad)
  <2>1. m \in Bad /\ \A x \in Bad : m <= x
    <3> Bad \in SUBSET Nat
      OBVIOUS
    <3> HIDE DEF Bad
    <3> QED
      BY MinOf
  <2> HIDE DEF m
  <2>2. PICK s \in SUBSET DOMAIN f : Cardinality(s) = m /\ g[s] # Count(s)
    BY <2>1
  <2>3. IsFiniteSet(s) /\ m \in Nat
    BY <1>3, <2>1, FS_Subset
  <2>4. CASE s = {}
    <3>1. In_(s) = {}
      BY <2>4
    <3>2. Count(s) = 0
      BY <3>1, FS_EmptySet DEF Count
    <3> QED
      BY <1>6, <2>2, <2>4, <3>2
  <2>5. CASE s # {}
    <3> DEFINE day == Taken(s)
               r   == s \ {day}
    <3>1. day \in s
      BY <2>5 DEF Taken
    <3> HIDE DEF day
    <3>2. Cardinality(r) = m - 1 /\ r \in SUBSET DOMAIN f
      BY <2>2, <2>3, <3>1, FS_RemoveElement
    <3>3. IsFiniteSet(r) /\ Cardinality(r) \in Nat
      BY <2>3, FS_Subset, FS_CardinalityType
    <3> HIDE DEF r
    <3>4. Cardinality(r) \notin Bad
      <4> HIDE DEF Bad
      <4> QED
        BY <2>1, <2>3, <3>2, <3>3
    <3>5. g[r] = Count(r)
      BY <3>2, <3>3, <3>4
    <3>6. g[s] = f[day] + g[r] /\ f[day] = Count({day})
      BY <1>2, <1>6, <2>5, <3>1 DEF r, day
    <3>7. Count(s) = Count({day}) + Count(r)
      <4>1. In_(s) = In_({day}) \cup In_(r) /\ In_({day}) \cap In_(r) = {}
        BY <3>1 DEF r
      <4> DEFINE A == In_({day})
                 B == In_(r)
      <4>2. IsFiniteSet(A) /\ IsFiniteSet(B) /\ Cardinality(A) \in Nat /\ Cardinality(B) \in Nat
        BY <1>4, FS_CardinalityType
      <4>3. A \cap B = {} /\ Count(s) = Cardinality(A \cup B)
        BY <4>1 DEF Count
      <4> HIDE DEF A, B
      <4>4. Cardinality(A \cup B) = Cardinality(A) + Cardinality(B) - Cardinality(A \cap B)
        BY <4>2, FS_Union
      <4>5. Cardinality(A \cap B) = 0
        BY <4>3, FS_EmptySet
      <4>6. Count(s) = Cardinality(A) + Cardinality(B)
        BY <4>2, <4>3, <4>4, <4>5
      <4> QED
        BY <4>6 DEF A, B, Count
    <3> QED
      BY <2>2, <3>5, <3>6, <3>7
  <2> QED
    BY <2>4, <2>5
<1>8. g[DOMAIN f] = Count(DOMAIN f)
  <2>1. Cardinality(DOMAIN f) \in Nat
    BY <1>3, FS_CardinalityType
  <2> QED
    BY <1>7, <2>1
<1>9. In_(DOMAIN f) = W
  BY <1>2
<1> QED
  BY <1>1, <1>3, <1>5, <1>8, <1>9 DEF HeightOf, W, f, Count

LEMMA DayEndType ==
  ASSUME NEW t \in Int
  PROVE  DayStart(t) \in Int /\ DayEnd(t) \in Int
<1>1. \A y \in Int : Offset(y) \in Int /\ LocalTime(y) \in Int /\ InstantOf(y) \in Int
  BY QueueAssumption DEF Offset, LocalTime, InstantOf
<1>2. LocalDate(t) \in Int
  BY <1>1, Midnights DEF LocalDate
<1>3. LocalDate(t) * DayLength \in Int /\ DayLength \in Int
  BY <1>2, DayLengthAssumption
<1>4. DayStart(t) \in Int
  BY <1>1, <1>3 DEF DayStart
<1> QED
  BY <1>1, <1>3, <1>4 DEF DayEnd

(* As many times 24 hours touch one UTC day more at the most.               *)
LEMMA BarsAreFew ==
  ASSUME DbInv, NEW t \in Times
  PROVE  Cardinality(DOMAIN Histogram(t)) <= Days + 1
<1> DEFINE lo == DayEnd(t) - Days * DayLength
           q  == lo \div DayLength
           hi == q + Days
<1>1. /\ Days \in Nat /\ DayLength \in Nat \ {0} /\ Days * DayLength \in Nat
      /\ DayEnd(t) \in Int /\ lo \in Int
  <2>1. Days \in Nat /\ DayLength \in Nat \ {0}
    BY StatisticsAssumption, DayLengthAssumption
  <2>2. \A m, n \in Nat : m * n \in Nat
    OBVIOUS
  <2>3. Days * DayLength \in Nat
    BY <2>1, <2>2
  <2>4. t \in Int
    BY QueueAssumption DEF Times
  <2> QED
    BY <2>1, <2>3, <2>4, DayEndType
<1> HIDE DEF lo
<1>2. q \in Int /\ Midnight[q] <= lo /\ lo < Midnight[q] + DayLength
  BY <1>1, Midnights
<1> HIDE DEF q
<1>3. Midnight[hi] = Midnight[q] + Days * DayLength /\ hi \in Int
  <2>1. \A a, b, c \in Int : (a + b) * c = a * c + b * c
    OBVIOUS
  <2> QED
    BY <1>1, <1>2, <2>1 DEF Midnight
<1>4. DayEnd(t) = lo + Days * DayLength
  BY <1>1 DEF lo
<1> HIDE DEF hi
<1>5. ASSUME NEW rv \in Window(t)
      PROVE  UTCDay(rv.at) \in q..hi
  <2> DEFINE d == UTCDay(rv.at)
             x == rv.at
  <2>1. x \in Int /\ lo <= x /\ x < DayEnd(t)
    BY QueueAssumption DEF Window, DbInv, LogEntries, Times, lo
  <2> HIDE DEF x
  <2>2. d \in Int /\ Midnight[d] <= x /\ x < Midnight[d] + DayLength
    BY <2>1, Midnights DEF UTCDay, x
  <2> HIDE DEF d
  <2>3. /\ d < q => Midnight[d] + DayLength <= Midnight[q]
        /\ hi < d => Midnight[hi] + DayLength <= Midnight[d]
        /\ Midnight[d] \in Int /\ Midnight[q] \in Int /\ Midnight[hi] \in Int
    BY <1>2, <1>3, <2>2, Midnights
  <2>4. ~(d < q) /\ ~(hi < d)
    BY <1>1, <1>2, <1>3, <1>4, <2>1, <2>2, <2>3
  <2> QED
    BY <1>2, <1>3, <2>2, <2>4 DEF d
<1>6. DOMAIN Histogram(t) \subseteq q..hi
  BY <1>5 DEF Histogram
<1>7. IsFiniteSet(q..hi) /\ Cardinality(q..hi) = Days + 1
  <2>1. q \in Int /\ hi \in Int /\ hi - q + 1 = Days + 1 /\ q <= hi
    BY <1>1, <1>2 DEF hi
  <2> QED
    BY <2>1, FS_Interval
<1>8. Cardinality(DOMAIN Histogram(t)) <= Cardinality(q..hi)
  BY <1>6, <1>7, FS_Subset
<1> QED
  BY <1>7, <1>8

(* ReviewHistogram: today's reviews are all in the bars, unless the day is  *)
(* longer than the window that was asked for, and the bars are no more than *)
(* one over the days asked for.                                             *)
THEOREM TodayIsInTheBars == StatsSpec => []TodayIsCharted
<1>1. SessionInv /\ StatInv => TodayIsCharted
  <2> SUFFICES ASSUME SessionInv, StatInv, Complete PROVE
        /\ DayEnd(asOf) - DayStart(asOf) <= Days * DayLength
             => answer.reviewsToday <= HeightOf(answer.histogram)
        /\ Cardinality(DOMAIN answer.histogram) <= Days + 1
    BY DEF TodayIsCharted
  <2>1. /\ asOf \in Times /\ DbInv
        /\ answer.reviewsToday = Cardinality(ReviewsToday(asOf))
        /\ answer.histogram = Histogram(asOf)
    BY DEF SessionInv, StatInv, Complete
  <2>2. ASSUME DayEnd(asOf) - DayStart(asOf) <= Days * DayLength
        PROVE  Cardinality(ReviewsToday(asOf)) <= HeightOf(Histogram(asOf))
    <3>1. DayStart(asOf) \in Int /\ DayEnd(asOf) \in Int /\ Days * DayLength \in Int
      <4>1. asOf \in Int /\ Days \in Int /\ DayLength \in Int
        BY <2>1, QueueAssumption, StatisticsAssumption, DayLengthAssumption DEF Times
      <4> QED
        BY <4>1, DayEndType
    <3>2. ReviewsToday(asOf) \subseteq Window(asOf)
      <4>1. \A rv \in reviews : rv.at \in Int
        BY <2>1, QueueAssumption DEF DbInv, LogEntries, Times
      <4>2. \A rv \in reviews : DayStart(asOf) <= rv.at
                                  => DayEnd(asOf) - Days * DayLength <= rv.at
        BY <2>2, <3>1, <4>1
      <4> QED
        BY <4>2 DEF ReviewsToday, Window
    <3>3. /\ HeightOf(Histogram(asOf)) = Cardinality(Window(asOf))
          /\ IsFiniteSet(Window(asOf))
      BY <2>1, BarsAddUp
    <3> QED
      BY <3>2, <3>3, FS_Subset
  <2> QED
    BY <2>1, <2>2, BarsAreFew
<1> QED
  BY <1>1, StatAlways, PTL
=============================================================================
