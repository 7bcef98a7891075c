--------------------------- MODULE CardLedgerProofs ---------------------------
(* Proofs about CardLedger for every set of cards, decks and instants.      *)
EXTENDS CardLedger, SchedulerProofs, FiniteSetTheorems

-----------------------------------------------------------------------------
LEMMA InitIInv == Init => IInv
<1> SUFFICES ASSUME Init PROVE IInv
  OBVIOUS
<1>1. TypeOK
  BY DEF Init, TypeOK, NoRows
<1>2. ScheduleExists
  BY DEF Init, ScheduleExists, NoRows
<1>3. RepsCountReviews /\ NewUntilReviewed /\ IntroducedOnce
  BY DEF Init, RepsCountReviews, NewUntilReviewed, IntroducedOnce, NoRows
<1> QED
  BY <1>1, <1>2, <1>3, FS_EmptySet DEF Init, IInv

LEMMA CreateDeckStep ==
  ASSUME IInv, NEW d \in Decks, CreateDeck(d)
  PROVE  IInv'
BY DEF CreateDeck, IInv, TypeOK, CardRows, LogRows, ScheduleExists, RepsCountReviews,
   NewUntilReviewed, IntroducedOnce, RowsOf, ForgottenOf

(* The new card has no rows: every row is of a card already handed out. *)
LEMMA CreateCardStep ==
  ASSUME IInv, NEW c \in Cards, NEW d \in Decks, NEW at \in Times, CreateCard(c, d, at)
  PROVE  IInv'
<1> USE DEF CreateCard, IInv
<1>1. at \in Nat
  BY LedgerAssumption
<1>2. c \notin DOMAIN cards /\ \A rv \in reviews : rv.card # c
  BY DEF TypeOK, LogRows
<1>3. TypeOK'
  BY <1>1, NewCardStateType DEF TypeOK, CardRows, LogRows
<1>4. ScheduleExists'
  BY DEF ScheduleExists
<1>5. RowsOf(c)' = {} /\ ForgottenOf(c)' = {}
  BY <1>2 DEF RowsOf, ForgottenOf
<1>6. \A x \in DOMAIN cards : /\ states'[x] = states[x]
                              /\ RowsOf(x)' = RowsOf(x)
                              /\ ForgottenOf(x)' = ForgottenOf(x)
  BY <1>2 DEF RowsOf, ForgottenOf, ScheduleExists
<1>7. states'[c] = NewCardState(at)
  BY DEF ScheduleExists
<1>8. RepsCountReviews'
  BY <1>5, <1>6, <1>7, FS_EmptySet DEF RepsCountReviews, NewCardState
<1>9. NewUntilReviewed'
  BY <1>5, <1>6, <1>7 DEF NewUntilReviewed, NewCardState
<1>10. IntroducedOnce'
  BY DEF IntroducedOnce
<1> QED
  BY <1>3, <1>4, <1>8, <1>9, <1>10 DEF TypeOK

LEMMA SetCardSuspendedStep ==
  ASSUME IInv, NEW c \in Cards, NEW suspended \in BOOLEAN, SetCardSuspended(c, suspended)
  PROVE  IInv'
<1> USE DEF SetCardSuspended, IInv
<1>1. TypeOK'
  BY DEF TypeOK, CardRows, LogRows
<1>2. DOMAIN cards' = DOMAIN cards /\ \A x \in DOMAIN cards : cards'[x].deck = cards[x].deck
  BY DEF TypeOK, CardRows
<1>3. ScheduleExists'
  BY <1>2 DEF ScheduleExists
<1>4. RepsCountReviews' /\ NewUntilReviewed' /\ IntroducedOnce'
  BY <1>2 DEF RepsCountReviews, NewUntilReviewed, IntroducedOnce, RowsOf, ForgottenOf
<1> QED
  BY <1>1, <1>3, <1>4

(* A cascade takes all the rows of a card or none of them. *)
LEMMA RemoveCardsStep ==
  ASSUME IInv, NEW gone, RemoveCards(gone), UNCHANGED <<nextId, used>>,
         decks' \subseteq decks,
         \A x \in DOMAIN cards \ gone : cards[x].deck \in decks'
  PROVE  IInv'
<1> USE DEF RemoveCards, Restrict, IInv
<1>1. TypeOK'
  BY DEF TypeOK, CardRows, LogRows
<1>2. ScheduleExists'
  BY DEF ScheduleExists
<1>3. IsFiniteSet(reviews')
  BY FS_Subset
<1>4. \A x \in DOMAIN cards' : /\ x \in DOMAIN cards
                               /\ states'[x] = states[x]
                               /\ RowsOf(x)' = RowsOf(x)
                               /\ ForgottenOf(x)' = ForgottenOf(x)
  BY DEF RowsOf, ForgottenOf, ScheduleExists
<1>5. RepsCountReviews'
  BY <1>4 DEF RepsCountReviews
<1>6. NewUntilReviewed'
  BY <1>4 DEF NewUntilReviewed
<1>7. IntroducedOnce'
  BY DEF IntroducedOnce
<1> QED
  BY <1>1, <1>2, <1>3, <1>5, <1>6, <1>7

(* The row added is new to the log, so it adds one to the rows of its card, *)
(* and one to the forgotten ones just when the schedule counts a lapse.     *)
LEMMA ReviewStep ==
  ASSUME IInv, NEW c \in Cards, NEW rating \in Ratings, NEW at \in Times,
         Review(c, rating, at)
  PROVE  IInv'
<1> DEFINE row == [ReviewFrom(c, states[c], rating, at) EXCEPT !.id = nextId]
           after == Apply(states[c], rating, at)
<1>1. c \in DOMAIN cards /\ c \in used /\ at \in Nat /\ nextId \in Nat
  BY LedgerAssumption DEF Review, CanReview, IInv, TypeOK
<1>2. states[c] \in CardStates
  BY <1>1 DEF IInv, TypeOK, ScheduleExists
<1>3. /\ row \in LogRows(used)
      /\ row.id = nextId /\ row.card = c /\ row.rating = rating
      /\ row.state = states[c].state
  BY <1>1, <1>2, ReviewFromType
<1>4. /\ after \in CardStates
      /\ after.state # StateNew
      /\ after.reps = states[c].reps + 1
      /\ after.lapses = IF Lapses(states[c], rating) THEN states[c].lapses + 1
                        ELSE states[c].lapses
  BY <1>1, <1>2, ApplyType
<1>5. /\ reviews' = reviews \cup {row} /\ nextId' = nextId + 1
      /\ states' = [states EXCEPT ![c] = after]
      /\ UNCHANGED <<decks, cards, used>>
  BY DEF Review, LogRow
<1> HIDE DEF row, after
<1>6. row \notin reviews
  BY <1>1, <1>3 DEF IInv
<1>7. TypeOK'
  <2>1. states' \in [DOMAIN states' -> CardStates]
    BY <1>4, <1>5 DEF IInv, TypeOK
  <2>2. reviews' \subseteq LogRows(used)'
    BY <1>3, <1>5 DEF IInv, TypeOK, LogRows
  <2> QED
    BY <1>1, <1>5, <2>1, <2>2 DEF IInv, TypeOK
<1>8. ScheduleExists'
  BY <1>1, <1>3, <1>5 DEF IInv, ScheduleExists
<1>9. IsFiniteSet(reviews') /\ \A rv \in reviews' : rv.id < nextId'
  BY <1>1, <1>3, <1>5, FS_AddElement DEF IInv, TypeOK, LogRows
<1>10. \A x \in DOMAIN cards \ {c} : /\ states'[x] = states[x]
                                     /\ RowsOf(x)' = RowsOf(x)
                                     /\ ForgottenOf(x)' = ForgottenOf(x)
  BY <1>3, <1>5 DEF RowsOf, ForgottenOf, IInv, ScheduleExists
<1>11. /\ states'[c] = after
       /\ RowsOf(c)' = RowsOf(c) \cup {row}
       /\ ForgottenOf(c)' = IF Lapses(states[c], rating) THEN ForgottenOf(c) \cup {row}
                            ELSE ForgottenOf(c)
  <2>1. Lapses(row, row.rating) <=> Lapses(states[c], rating)
    BY <1>3 DEF Lapses
  <2>2. states'[c] = after
    BY <1>1, <1>5 DEF IInv, ScheduleExists
  <2>3. RowsOf(c)' = RowsOf(c) \cup {row}
    BY <1>3, <1>5 DEF RowsOf
  <2> QED
    BY <2>1, <2>2, <2>3 DEF ForgottenOf, Lapses
<1>12. /\ row \notin RowsOf(c) /\ row \notin ForgottenOf(c)
       /\ IsFiniteSet(RowsOf(c)) /\ IsFiniteSet(ForgottenOf(c))
  <2>1. RowsOf(c) \in SUBSET reviews /\ ForgottenOf(c) \in SUBSET reviews
    BY DEF RowsOf, ForgottenOf
  <2>2. IsFiniteSet(reviews)
    BY DEF IInv
  <2>3. IsFiniteSet(RowsOf(c)) /\ IsFiniteSet(ForgottenOf(c))
    BY <2>1, <2>2, FS_Subset
  <2> QED
    BY <1>6, <2>1, <2>3
<1>13. RepsCountReviews'
  <2>1. /\ states[c].reps = Cardinality(RowsOf(c))
        /\ states[c].lapses = Cardinality(ForgottenOf(c))
    BY <1>1 DEF IInv, RepsCountReviews
  <2>2. Cardinality(RowsOf(c)') = Cardinality(RowsOf(c)) + 1
    BY <1>11, <1>12, FS_AddElement
  <2>3. Cardinality(ForgottenOf(c) \cup {row}) = Cardinality(ForgottenOf(c)) + 1
    BY <1>12, FS_AddElement
  <2>4. states'[c].reps = Cardinality(RowsOf(c)')
    BY <1>4, <1>11, <2>1, <2>2
  <2>5. states'[c].lapses = Cardinality(ForgottenOf(c)')
    BY <1>4, <1>11, <2>1, <2>3
  <2> QED
    BY <1>5, <1>10, <2>4, <2>5 DEF IInv, RepsCountReviews
<1>14. NewUntilReviewed'
  BY <1>4, <1>5, <1>10, <1>11 DEF IInv, NewUntilReviewed
<1>15. IntroducedOnce'
  <2>1. ASSUME states[c].state = StateNew PROVE RowsOf(c) = {}
    BY <1>1, <2>1 DEF IInv, NewUntilReviewed
  <2> QED
    BY <1>3, <1>5, <2>1 DEF IInv, IntroducedOnce, RowsOf
<1> QED
  BY <1>7, <1>8, <1>9, <1>13, <1>14, <1>15 DEF IInv

LEMMA NextIInv == IInv /\ [Next]_vars => IInv'
<1> SUFFICES ASSUME IInv, [Next]_vars PROVE IInv'
  OBVIOUS
<1>1. ASSUME NEW d \in Decks, CreateDeck(d) PROVE IInv'
  BY <1>1, CreateDeckStep
<1>2. ASSUME NEW d \in Decks, DeleteDeck(d) PROVE IInv'
  BY <1>2, RemoveCardsStep DEF DeleteDeck, IInv, ScheduleExists
<1>3. ASSUME NEW c \in Cards, NEW d \in Decks, NEW at \in Times, CreateCard(c, d, at)
      PROVE  IInv'
  BY <1>3, CreateCardStep
<1>4. ASSUME NEW c \in Cards, NEW suspended \in BOOLEAN, SetCardSuspended(c, suspended)
      PROVE  IInv'
  BY <1>4, SetCardSuspendedStep
<1>5. ASSUME NEW c \in Cards, DeleteCard(c) PROVE IInv'
  BY <1>5, RemoveCardsStep DEF DeleteCard, IInv, ScheduleExists
<1>6. ASSUME NEW c \in Cards, NEW rating \in Ratings, NEW at \in Times, Review(c, rating, at)
      PROVE  IInv'
  BY <1>6, ReviewStep
<1>7. CASE UNCHANGED vars
  BY <1>7 DEF vars, IInv, TypeOK, ScheduleExists, RepsCountReviews, NewUntilReviewed,
     IntroducedOnce, RowsOf, ForgottenOf
<1> QED
  BY <1>1, <1>2, <1>3, <1>4, <1>5, <1>6, <1>7 DEF Next

-----------------------------------------------------------------------------
LEMMA Invariance == Spec => []IInv
BY InitIInv, NextIInv, PTL DEF Spec

(* The tables keep their shape. *)
THEOREM TypeCorrect == Spec => []TypeOK
BY Invariance, PTL DEF IInv

(* A card never exists without its schedule and its deck, nor a schedule or *)
(* a log row without its card (CreateCard, DeleteCard, DeleteDeck).         *)
THEOREM ScheduleAlwaysExists == Spec => []ScheduleExists
BY Invariance, PTL DEF IInv

(* reps and lapses agree with the log, however many reviews there were.     *)
THEOREM RepsAlwaysCountReviews == Spec => []RepsCountReviews
BY Invariance, PTL DEF IInv

(* No card is introduced twice, so NewCards counts introductions.           *)
THEOREM AlwaysIntroducedOnce == Spec => []IntroducedOnce
BY Invariance, PTL DEF IInv

-----------------------------------------------------------------------------
(* The log only loses the rows of cards that are gone, and grows by rows    *)
(* with the next id (appendReviewTx, the cascades).                         *)
THEOREM LogIsAppendOnly == Spec => AppendOnly
<1> DEFINE A == /\ \A rv \in reviews : rv.card \in DOMAIN cards' => rv \in reviews'
                /\ \A rv \in reviews' \ reviews : rv.id = nextId /\ nextId' = nextId + 1
<1>1. ASSUME IInv, [Next]_vars PROVE A \/ UNCHANGED vars
  <2>1. ASSUME NEW gone, RemoveCards(gone) PROVE A
    BY <2>1, <1>1 DEF RemoveCards, Restrict
  <2>2. ASSUME NEW c \in Cards, NEW rating \in Ratings, NEW at \in Times,
               Review(c, rating, at)
        PROVE  A
    BY <2>2 DEF Review, LogRow, ReviewFrom
  <2>3. ASSUME UNCHANGED reviews PROVE A
    BY <2>3
  <2> HIDE DEF A
  <2> QED
    BY <1>1, <2>1, <2>2, <2>3 DEF Next, vars, CreateDeck, DeleteDeck, CreateCard,
       SetCardSuspended, DeleteCard
<1> QED
  BY <1>1, Invariance, PTL DEF Spec, AppendOnly

(* A suspended card's schedule and log stay as they are (ApplyReview's      *)
(* check, SetCardSuspended).                                                *)
THEOREM SuspendedStayFrozen == Spec => SuspendedFrozen
<1> DEFINE A == \A c \in DOMAIN cards :
                  cards[c].suspended /\ c \in DOMAIN cards' =>
                    /\ states'[c] = states[c]
                    /\ {rv \in reviews' : rv.card = c} = RowsOf(c)
<1>1. ASSUME IInv, [Next]_vars PROVE A \/ UNCHANGED vars
  <2>1. ASSUME NEW gone, RemoveCards(gone) PROVE A
    BY <2>1, <1>1 DEF RemoveCards, Restrict, RowsOf, IInv, ScheduleExists
  <2>2. ASSUME NEW c \in Cards, NEW rating \in Ratings, NEW at \in Times,
               Review(c, rating, at)
        PROVE  A
    <3>1. \A x \in DOMAIN cards : cards[x].suspended => x # c /\ x \in DOMAIN states
      BY <1>1, <2>2 DEF Review, CanReview, IInv, ScheduleExists
    <3> QED
      BY <2>2, <3>1 DEF Review, LogRow, ReviewFrom, RowsOf
  <2>3. ASSUME NEW c \in Cards, NEW d \in Decks, NEW at \in Times, CreateCard(c, d, at)
        PROVE  A
    BY <1>1, <2>3 DEF CreateCard, RowsOf, IInv, TypeOK, ScheduleExists
  <2>4. ASSUME UNCHANGED <<states, reviews>> PROVE A
    BY <2>4 DEF RowsOf
  <2> HIDE DEF A
  <2> QED
    BY <1>1, <2>1, <2>2, <2>3, <2>4 DEF Next, vars, CreateDeck, DeleteDeck,
       SetCardSuspended, DeleteCard
<1> QED
  BY <1>1, Invariance, PTL DEF Spec, SuspendedFrozen

-----------------------------------------------------------------------------
(* Replaying the log *)

RowAt(rows, k) == {rv \in rows : rv.id = k}
Then(rows, k, before) ==
  IF RowAt(rows, k) = {} THEN before
  ELSE LET rv == CHOOSE rv \in RowAt(rows, k) : TRUE
       IN  Apply(before, rv.rating, rv.at)

(* Replayed, of any rows and any first schedule. *)
Replays(f, rows, first, n) ==
  f = [k \in 0..n |-> IF k = 0 THEN first ELSE Then(rows, k, f[k - 1])]
ReplayOf(rows, first, n) == (CHOOSE f : Replays(f, rows, first, n))[n]

(* There is a replay of every length, and one only: by the least length or  *)
(* the least row for which it would not be so.                              *)
LEMMA ReplayExists ==
  ASSUME NEW rows, NEW first, NEW n \in Nat
  PROVE  \E f : Replays(f, rows, first, n)
<1> DEFINE Bad == {m \in Nat : ~ \E f : Replays(f, rows, first, m)}
<1>1. Bad = {}
  <2> SUFFICES ASSUME Bad # {} PROVE FALSE
    OBVIOUS
  <2>1. PICK m \in Bad : \A y \in Bad : m <= y
    <3> Bad \in SUBSET Nat
      OBVIOUS
    <3> HIDE DEF Bad
    <3> QED
      BY LeastOf
  <2>2. CASE m = 0
    <3> DEFINE f == [k \in 0..0 |-> first]
    <3>1. Replays(f, rows, first, 0)
      BY DEF Replays
    <3> QED
      BY <2>1, <2>2, <3>1
  <2>3. CASE m # 0
    <3>1. m - 1 \in Nat /\ m - 1 \notin Bad /\ m \in Nat
      <4> HIDE DEF Bad
      <4>1. m \in Nat
        BY <2>1 DEF Bad
      <4> QED
        BY <2>1, <2>3, <4>1
    <3>2. PICK g : Replays(g, rows, first, m - 1)
      BY <3>1
    <3> DEFINE f == [k \in 0..m |-> IF k = 0 THEN first ELSE Then(rows, k, g[k - 1])]
    <3>3. \A k \in 0..m-1 : g[k] = f[k]
      BY <3>1, <3>2 DEF Replays
    <3>4. \A k \in 0..m : k # 0 => g[k - 1] = f[k - 1]
      <4> HIDE DEF f
      <4>1. \A k \in 0..m : k # 0 => k - 1 \in 0..m-1
        BY <3>1
      <4> QED
        BY <3>3, <4>1
    <3> DEFINE h == [k \in 0..m |-> IF k = 0 THEN first ELSE Then(rows, k, f[k - 1])]
    <3>5. \A k \in 0..m : f[k] = h[k]
      <4> TAKE k \in 0..m
      <4> DEFINE a == g[k - 1]
                 b == f[k - 1]
      <4>1. f[k] = (IF k = 0 THEN first ELSE Then(rows, k, a))
        OBVIOUS
      <4>2. h[k] = (IF k = 0 THEN first ELSE Then(rows, k, b))
        OBVIOUS
      <4>3. k # 0 => a = b
        BY <3>4
      <4> HIDE DEF a, b, f, h
      <4> QED
        BY <4>1, <4>2, <4>3
    <3>6. f = [k \in 0..m |-> f[k]] /\ h = [k \in 0..m |-> h[k]]
      OBVIOUS
    <3> HIDE DEF f, h
    <3>7. f = h
      BY <3>5, <3>6
    <3>8. Replays(f, rows, first, m)
      BY <3>7 DEF Replays, h
    <3> QED
      BY <2>1, <3>8
  <2> QED
    BY <2>2, <2>3
<1> QED
  BY <1>1

LEMMA ReplayUnique ==
  ASSUME NEW rows, NEW first, NEW m \in Nat, NEW n \in Nat, NEW f, NEW g,
         Replays(f, rows, first, m), Replays(g, rows, first, n)
  PROVE  \A k \in Nat : k <= m /\ k <= n => f[k] = g[k]
<1> DEFINE Bad == {k \in Nat : k <= m /\ k <= n /\ f[k] # g[k]}
<1>1. Bad = {}
  <2> SUFFICES ASSUME Bad # {} PROVE FALSE
    OBVIOUS
  <2>1. PICK k \in Bad : \A y \in Bad : k <= y
    <3> Bad \in SUBSET Nat
      OBVIOUS
    <3> HIDE DEF Bad
    <3> QED
      BY LeastOf
  <2>2. /\ k \in 0..m /\ k \in 0..n /\ f[k] # g[k]
    BY <2>1
  <2>3. /\ f[k] = IF k = 0 THEN first ELSE Then(rows, k, f[k - 1])
        /\ g[k] = IF k = 0 THEN first ELSE Then(rows, k, g[k - 1])
    BY <2>2 DEF Replays
  <2>4. k # 0
    BY <2>2, <2>3
  <2>5. k - 1 \in Nat /\ k - 1 <= m /\ k - 1 <= n /\ k - 1 \notin Bad
    <3> HIDE DEF Bad
    <3>1. k \in Nat /\ k <= m /\ k <= n
      BY <2>2
    <3> QED
      BY <2>1, <2>4, <3>1
  <2>6. f[k - 1] = g[k - 1]
    BY <2>5
  <2> QED
    BY <2>2, <2>3, <2>4, <2>6
<1> QED
  BY <1>1

LEMMA ReplaySteps ==
  ASSUME NEW rows, NEW first, NEW n \in Nat
  PROVE  ReplayOf(rows, first, n) =
           IF n = 0 THEN first ELSE Then(rows, n, ReplayOf(rows, first, n - 1))
<1> DEFINE f == CHOOSE f : Replays(f, rows, first, n)
           g == CHOOSE g : Replays(g, rows, first, n - 1)
<1>1. Replays(f, rows, first, n)
  BY ReplayExists
<1>2. f[n] = IF n = 0 THEN first ELSE Then(rows, n, f[n - 1])
  <2> HIDE DEF f
  <2> QED
    BY <1>1 DEF Replays
<1>3. ASSUME n # 0
      PROVE  f[n - 1] = g[n - 1]
  <2>1. n - 1 \in Nat /\ n - 1 <= n
    BY <1>3
  <2>2. Replays(g, rows, first, n - 1)
    BY <2>1, ReplayExists
  <2> HIDE DEF f, g
  <2> QED
    BY <1>1, <2>1, <2>2, ReplayUnique
<1>4. ReplayOf(rows, first, n) = f[n] /\ ReplayOf(rows, first, n - 1) = g[n - 1]
  BY DEF ReplayOf
<1> HIDE DEF f, g
<1> QED
  BY <1>2, <1>3, <1>4

(* A replay is not changed by rows that come later. *)
LEMMA ReplayPrefix ==
  ASSUME NEW rows, NEW more, NEW first, NEW n \in Nat,
         \A k \in 1..n : RowAt(rows, k) = RowAt(more, k)
  PROVE  ReplayOf(rows, first, n) = ReplayOf(more, first, n)
<1> DEFINE Bad == {k \in Nat : k <= n /\ ReplayOf(rows, first, k) # ReplayOf(more, first, k)}
<1>1. Bad = {}
  <2> SUFFICES ASSUME Bad # {} PROVE FALSE
    OBVIOUS
  <2>1. PICK k \in Bad : \A y \in Bad : k <= y
    <3> Bad \in SUBSET Nat
      OBVIOUS
    <3> HIDE DEF Bad
    <3> QED
      BY LeastOf
  <2>2. k \in Nat /\ k <= n /\ ReplayOf(rows, first, k) # ReplayOf(more, first, k)
    BY <2>1
  <2>3. k # 0
    BY <2>2, ReplaySteps
  <2>4. k - 1 \in Nat /\ k - 1 <= n /\ k - 1 \notin Bad
    <3> HIDE DEF Bad
    <3> QED
      BY <2>1, <2>2, <2>3
  <2>5. ReplayOf(rows, first, k - 1) = ReplayOf(more, first, k - 1)
    BY <2>4
  <2>6. RowAt(rows, k) = RowAt(more, k)
    BY <2>2, <2>3
  <2>7. \A s : Then(rows, k, s) = Then(more, k, s)
    BY <2>6 DEF Then
  <2> QED
    BY <2>2, <2>3, <2>5, <2>7, ReplaySteps
<1> QED
  BY <1>1

(* A card that was never reviewed replays to its first schedule. *)
LEMMA ReplayOfNothing ==
  ASSUME NEW first, NEW n \in Nat
  PROVE  ReplayOf({}, first, n) = first
<1> DEFINE Bad == {k \in Nat : ReplayOf({}, first, k) # first}
<1>1. Bad = {}
  <2> SUFFICES ASSUME Bad # {} PROVE FALSE
    OBVIOUS
  <2>1. PICK k \in Bad : \A y \in Bad : k <= y
    <3> Bad \in SUBSET Nat
      OBVIOUS
    <3> HIDE DEF Bad
    <3> QED
      BY LeastOf
  <2>2. k \in Nat /\ ReplayOf({}, first, k) # first
    BY <2>1
  <2>3. k # 0
    BY <2>2, ReplaySteps
  <2>4. k - 1 \in Nat /\ k - 1 \notin Bad
    <3> HIDE DEF Bad
    <3> QED
      BY <2>1, <2>2, <2>3
  <2>5. ReplayOf({}, first, k - 1) = first
    BY <2>4
  <2>6. RowAt({}, k) = {}
    BY DEF RowAt
  <2> QED
    BY <2>2, <2>3, <2>5, <2>6, ReplaySteps DEF Then
<1> QED
  BY <1>1

LEMMA ReplayedIs ==
  ASSUME NEW c, NEW n
  PROVE  Replayed(c, n) = ReplayOf(RowsOf(c), NewCardState(cards[c].created), n)
  BY DEF Replayed, ReplayOf, Replays, Then, RowAt

(* The log of every card replays to its schedule, and each row to the state *)
(* it records.  Ids start at one, where the replay does.                    *)
ReplayInv ==
  /\ nextId >= 1
  /\ \A rv \in reviews : rv.id >= 1
  /\ LogReplays

LEMMA ReplayInit == Init => ReplayInv
  BY DEF Init, ReplayInv, LogReplays, NoRows

(* A card keeps its replay as long as its rows and its creation stay.       *)
LEMMA ReplayKept ==
  ASSUME IInv, ReplayInv, UNCHANGED nextId, reviews' \subseteq reviews,
         \A rv \in reviews' : rv.card \in DOMAIN cards',
         \A x \in DOMAIN cards' :
           \/ /\ x \in DOMAIN cards /\ states'[x] = states[x]
              /\ cards'[x].created = cards[x].created /\ RowsOf(x)' = RowsOf(x)
           \/ /\ states'[x] = NewCardState(cards'[x].created) /\ RowsOf(x)' = {}
  PROVE  ReplayInv'
<1>1. nextId - 1 \in Nat
  BY DEF IInv, TypeOK, ReplayInv
<1>2. \A x \in DOMAIN cards' : \A n :
        Replayed(x, n)' = ReplayOf(RowsOf(x)', NewCardState(cards'[x].created), n)
  BY DEF Replayed, ReplayOf, Replays, Then, RowAt
<1>3. ASSUME NEW x \in DOMAIN cards'
      PROVE  states'[x] = Replayed(x, nextId - 1)'
  <2>1. CASE /\ x \in DOMAIN cards /\ states'[x] = states[x]
             /\ cards'[x].created = cards[x].created /\ RowsOf(x)' = RowsOf(x)
    BY <1>2, <2>1, ReplayedIs DEF ReplayInv, LogReplays
  <2>2. CASE states'[x] = NewCardState(cards'[x].created) /\ RowsOf(x)' = {}
    <3> DEFINE first == NewCardState(cards'[x].created)
    <3>1. Replayed(x, nextId - 1)' = ReplayOf({}, first, nextId - 1)
      BY <1>2, <2>2
    <3> HIDE DEF first
    <3>2. ReplayOf({}, first, nextId - 1) = first
      BY <1>1, ReplayOfNothing
    <3> QED
      BY <2>2, <3>1, <3>2 DEF first
  <2> QED
    BY <2>1, <2>2
<1>4. ASSUME NEW rv \in reviews'
      PROVE  /\ rv.id >= 1
             /\ rv = [ReviewFrom(rv.card, Replayed(rv.card, rv.id - 1)', rv.rating, rv.at)
                        EXCEPT !.id = rv.id]
  <2> DEFINE x == rv.card
  <2>1. rv \in reviews /\ x \in DOMAIN cards' /\ rv \in RowsOf(x)'
    BY DEF RowsOf
  <2>2. /\ x \in DOMAIN cards
        /\ cards'[x].created = cards[x].created /\ RowsOf(x)' = RowsOf(x)
    BY <2>1
  <2>3. Replayed(x, rv.id - 1)' = Replayed(x, rv.id - 1)
    BY <1>2, <2>1, <2>2, ReplayedIs
  <2> QED
    BY <2>1, <2>3 DEF ReplayInv, LogReplays
<1> QED
  BY <1>3, <1>4 DEF ReplayInv, LogReplays

(* The row added is the last, and what it takes its card's replay to is     *)
(* what the operation takes its schedule to.                                *)
LEMMA ReplayReview ==
  ASSUME IInv, ReplayInv, NEW c \in Cards, NEW rating \in Ratings, NEW at \in Times,
         Review(c, rating, at)
  PROVE  ReplayInv'
<1> DEFINE row   == LogRow(c, rating, at)
           after == Apply(states[c], rating, at)
<1>0. PICK n \in Nat : n = nextId
  BY DEF IInv, TypeOK
<1>1. /\ c \in DOMAIN cards /\ c \in DOMAIN states /\ n \in Nat /\ n >= 1 /\ n - 1 \in Nat
      /\ reviews' = reviews \cup {row} /\ nextId' = n + 1 /\ cards' = cards
      /\ states' = [states EXCEPT ![c] = after]
  BY <1>0 DEF Review, CanReview, IInv, TypeOK, ScheduleExists, ReplayInv
<1>2. /\ row.id = n /\ row.card = c /\ row.rating = rating /\ row.at = at
      /\ row = [ReviewFrom(c, states[c], rating, at) EXCEPT !.id = n]
  BY <1>0 DEF LogRow, ReviewFrom
<1>3. \A rv \in reviews : rv.id \in Nat /\ rv.id < n /\ rv.id >= 1
  BY <1>0 DEF IInv, TypeOK, LogRows, ReplayInv
<1> HIDE DEF row, after
<1>4. \A x \in DOMAIN cards : \A k :
        Replayed(x, k)' = ReplayOf(RowsOf(x)', NewCardState(cards[x].created), k)
  BY <1>1 DEF Replayed, ReplayOf, Replays, Then, RowAt
<1>5. \A x : /\ \A k \in Nat : k < n => RowAt(RowsOf(x)', k) = RowAt(RowsOf(x), k)
             /\ RowAt(RowsOf(x), n) = {}
             /\ RowAt(RowsOf(x)', n) = IF x = c THEN {row} ELSE {}
  <2> TAKE x
  <2>1. RowsOf(x)' = RowsOf(x) \cup (IF x = c THEN {row} ELSE {})
    BY <1>1, <1>2 DEF RowsOf
  <2>2. \A rv \in RowsOf(x) : rv.id < n /\ rv.id # n
    BY <1>1, <1>3 DEF RowsOf
  <2> DEFINE rows == RowsOf(x)
             more == RowsOf(x)'
  <2>3. more = rows \cup (IF x = c THEN {row} ELSE {}) /\ \A rv \in rows : rv.id < n /\ rv.id # n
    BY <2>1, <2>2
  <2> HIDE DEF rows, more
  <2>4. \A k \in Nat : k < n => RowAt(more, k) = RowAt(rows, k)
    <3> TAKE k \in Nat
    <3> HAVE k < n
    <3>1. row.id # k
      BY <1>1, <1>2
    <3> QED
      BY <2>3, <3>1 DEF RowAt
  <2>5. RowAt(rows, n) = {} /\ RowAt(more, n) = IF x = c THEN {row} ELSE {}
    BY <1>2, <2>3 DEF RowAt
  <2> QED
    BY <2>4, <2>5 DEF rows, more
<1>6. \A x \in DOMAIN cards, k \in Nat : k < n => Replayed(x, k)' = Replayed(x, k)
  <2> TAKE x \in DOMAIN cards, k \in Nat
  <2> HAVE k < n
  <2> DEFINE rows  == RowsOf(x)
             more  == RowsOf(x)'
             first == NewCardState(cards[x].created)
  <2>1. \A j \in 1..k : RowAt(rows, j) = RowAt(more, j)
    BY <1>1, <1>5
  <2> HIDE DEF rows, more, first
  <2>2. ReplayOf(rows, first, k) = ReplayOf(more, first, k)
    BY <2>1, ReplayPrefix
  <2> QED
    BY <1>4, <2>2, ReplayedIs DEF rows, more, first
<1>7. ASSUME NEW x \in DOMAIN cards
      PROVE  Replayed(x, n)' = IF x = c THEN after ELSE states[x]
  <2> DEFINE more  == RowsOf(x)'
             first == NewCardState(cards[x].created)
  <2>1. Replayed(x, n)' = ReplayOf(more, first, n)
    BY <1>4
  <2>2. ReplayOf(more, first, n - 1) = states[x]
    <3>1. Replayed(x, n - 1)' = ReplayOf(more, first, n - 1)
      BY <1>4
    <3>2. n - 1 < n
      BY <1>1
    <3>3. Replayed(x, n - 1) = states[x]
      BY <1>0 DEF ReplayInv, LogReplays
    <3> QED
      BY <1>1, <1>6, <3>1, <3>2, <3>3
  <2> HIDE DEF more, first
  <2>3. ReplayOf(more, first, n) = Then(more, n, states[x])
    BY <1>1, <2>2, ReplaySteps
  <2>4. RowAt(more, n) = IF x = c THEN {row} ELSE {}
    BY <1>5 DEF more
  <2>5. Then(more, n, states[x]) = IF x = c THEN after ELSE states[x]
    <3>1. CASE x = c
      <4>1. RowAt(more, n) = {row} /\ (CHOOSE rv \in {row} : TRUE) = row
        BY <2>4, <3>1
      <4>2. Then(more, n, states[x]) = Apply(states[x], row.rating, row.at)
        BY <4>1 DEF Then
      <4> QED
        BY <1>2, <3>1, <4>2 DEF after
    <3>2. CASE x # c
      BY <2>4, <3>2 DEF Then
    <3> QED
      BY <3>1, <3>2
  <2> QED
    BY <2>1, <2>3, <2>5
<1>8. \A x \in DOMAIN cards' : states'[x] = Replayed(x, nextId - 1)'
  <2>1. n + 1 - 1 = n
    BY <1>1
  <2>2. \A x \in DOMAIN cards : Replayed(x, nextId - 1)' = Replayed(x, n)'
    <3> TAKE x \in DOMAIN cards
    <3>1. Replayed(x, nextId - 1)' =
            ReplayOf(RowsOf(x)', NewCardState(cards'[x].created), nextId' - 1)
      BY DEF Replayed, ReplayOf, Replays, Then, RowAt
    <3>2. nextId' - 1 = n
      BY <1>1, <2>1
    <3> QED
      BY <1>1, <1>4, <3>1, <3>2
  <2>3. \A x \in DOMAIN cards : states'[x] = IF x = c THEN after ELSE states[x]
    BY <1>1 DEF IInv, ScheduleExists
  <2> QED
    BY <1>1, <1>7, <2>2, <2>3
<1>9. ASSUME NEW rv \in reviews'
      PROVE  /\ rv.id >= 1
             /\ rv = [ReviewFrom(rv.card, Replayed(rv.card, rv.id - 1)', rv.rating, rv.at)
                        EXCEPT !.id = rv.id]
  <2>1. CASE rv \in reviews
    <3>1. rv.card \in DOMAIN cards /\ rv.id - 1 \in Nat /\ rv.id - 1 < n
      BY <1>1, <1>3, <2>1 DEF IInv, ScheduleExists
    <3>2. Replayed(rv.card, rv.id - 1)' = Replayed(rv.card, rv.id - 1)
      BY <1>6, <3>1
    <3> QED
      BY <1>3, <2>1, <3>2 DEF ReplayInv, LogReplays
  <2>2. CASE rv = row
    <3>1. Replayed(c, n - 1) = states[c]
      BY <1>0, <1>1 DEF ReplayInv, LogReplays
    <3>2. Replayed(c, n - 1)' = states[c]
      BY <1>1, <1>6, <3>1
    <3> QED
      BY <1>1, <1>2, <2>2, <3>2
  <2> QED
    BY <1>1, <2>1, <2>2
<1>10. nextId' >= 1
  BY <1>1
<1> QED
  BY <1>8, <1>9, <1>10 DEF ReplayInv, LogReplays

LEMMA ReplayCreateCard ==
  ASSUME IInv, ReplayInv, NEW c \in Cards, NEW d \in Decks, NEW at \in Times,
         CreateCard(c, d, at)
  PROVE  ReplayInv'
<1>1. /\ c \notin DOMAIN cards /\ DOMAIN states = DOMAIN cards
      /\ \A rv \in reviews : rv.card \in DOMAIN cards
  BY DEF CreateCard, IInv, TypeOK, ScheduleExists
<1>2. /\ reviews' = reviews /\ nextId' = nextId
      /\ DOMAIN cards' = DOMAIN cards \cup {c}
      /\ cards'[c].created = at /\ states'[c] = NewCardState(at)
      /\ \A x \in DOMAIN cards : cards'[x] = cards[x] /\ states'[x] = states[x]
  BY <1>1 DEF CreateCard
<1>3. \A x : RowsOf(x)' = RowsOf(x)
  BY <1>2 DEF RowsOf
<1>4. RowsOf(c)' = {}
  BY <1>1, <1>2 DEF RowsOf
<1> QED
  BY <1>1, <1>2, <1>3, <1>4, ReplayKept

LEMMA ReplaySetCardSuspended ==
  ASSUME IInv, ReplayInv, NEW c \in Cards, NEW suspended \in BOOLEAN,
         SetCardSuspended(c, suspended)
  PROVE  ReplayInv'
<1>1. \A rv \in reviews : rv.card \in DOMAIN cards
  BY DEF IInv, ScheduleExists
<1>2. /\ reviews' = reviews /\ nextId' = nextId /\ states' = states
      /\ DOMAIN cards' = DOMAIN cards
      /\ \A x \in DOMAIN cards : cards'[x].created = cards[x].created
  BY DEF SetCardSuspended, IInv, TypeOK, CardRows
<1>3. \A x : RowsOf(x)' = RowsOf(x)
  BY <1>2 DEF RowsOf
<1> QED
  BY <1>1, <1>2, <1>3, ReplayKept

(* A cascade leaves a card all of its rows.                                 *)
LEMMA ReplayRemoveCards ==
  ASSUME IInv, ReplayInv, NEW gone, RemoveCards(gone), UNCHANGED nextId
  PROVE  ReplayInv'
<1>1. DOMAIN states = DOMAIN cards /\ \A rv \in reviews : rv.card \in DOMAIN cards
  BY DEF IInv, ScheduleExists
<1>2. /\ reviews' = {rv \in reviews : rv.card \notin gone}
      /\ DOMAIN cards' = DOMAIN cards \ gone
      /\ \A x \in DOMAIN cards \ gone : cards'[x] = cards[x] /\ states'[x] = states[x]
  BY <1>1 DEF RemoveCards, Restrict
<1>3. \A x \in DOMAIN cards' : RowsOf(x)' = RowsOf(x)
  BY <1>2 DEF RowsOf
<1> QED
  BY <1>1, <1>2, <1>3, ReplayKept

LEMMA ReplayStep == IInv /\ ReplayInv /\ [Next]_vars => ReplayInv'
<1> SUFFICES ASSUME IInv, ReplayInv, [Next]_vars PROVE ReplayInv'
  OBVIOUS
<1>1. ASSUME UNCHANGED <<cards, states, reviews, nextId>> PROVE ReplayInv'
  <2>1. \A x : RowsOf(x)' = RowsOf(x)
    BY <1>1 DEF RowsOf
  <2>2. \A rv \in reviews : rv.card \in DOMAIN cards
    BY DEF IInv, ScheduleExists
  <2> QED
    BY <1>1, <2>1, <2>2, ReplayKept
<1>2. ASSUME NEW gone, RemoveCards(gone), UNCHANGED nextId PROVE ReplayInv'
  BY <1>2, ReplayRemoveCards
<1>3. ASSUME NEW d \in Decks, CreateDeck(d) \/ DeleteDeck(d) PROVE ReplayInv'
  BY <1>1, <1>2, <1>3 DEF CreateDeck, DeleteDeck
<1>4. ASSUME NEW c \in Cards, DeleteCard(c) PROVE ReplayInv'
  BY <1>2, <1>4 DEF DeleteCard
<1>5. CASE UNCHANGED vars
  BY <1>1, <1>5 DEF vars
<1> QED
  BY <1>3, <1>4, <1>5, ReplayCreateCard, ReplaySetCardSuspended, ReplayReview DEF Next

(* However many reviews, suspensions and deletions there were, replaying a  *)
(* card's log from its creation gives its present schedule, and every row   *)
(* records the state the replay had just before it (ApplyReview,            *)
(* appendReviewTx, the scheduler's ReviewFrom, the cascades).               *)
THEOREM LogAlwaysReplays == Spec => []LogReplays
<1>1. Spec => []ReplayInv
  BY Invariance, ReplayInit, ReplayStep, PTL DEF Spec
<1> QED
  BY <1>1, PTL DEF ReplayInv
=============================================================================
