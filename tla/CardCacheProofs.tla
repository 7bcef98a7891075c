---------------------------- MODULE CardCacheProofs ----------------------------
(* Proofs about the cached card lists, for any lists and any cards.         *)
EXTENDS CardCache, TLAPS

Rows  == [card : Cards, suspended : BOOLEAN, placeholder : BOOLEAN]
Lists == (SUBSET Rows) \cup {NoData}
Fetches ==
  [at : {"idle", "asked", "answered"}, rows : SUBSET Rows, knows : SUBSET New, late : BOOLEAN]

TypeOK ==
  /\ DOMAIN deck \subseteq Cards /\ \A c \in DOMAIN deck : deck[c] \in BOOLEAN
  /\ list \in [Keys -> Lists]
  /\ stale \in [Keys -> BOOLEAN] /\ isError \in [Keys -> BOOLEAN] /\ missed \in [Keys -> BOOLEAN]
  /\ fetch \in [Keys -> Fetches]
  /\ watched \in Keys \cup {Nobody}
  /\ adding \in [New -> {"none", "sent", "applied", "refused", "stray", "done"}]
  /\ snapshot \in [New -> [Keys -> Lists]]
  /\ change \in [Changeable ->
       [kind : Kinds, at : {"none", "sent", "applied", "refused", "stray"}]]

(* Only the list on the screen is being fetched. *)
WatchInv == \A k \in Keys : fetch[k] # NoFetch => watched = k

(* No mutation still owes the lists their invalidation: every creation      *)
(* does until it has settled, a change once it has been applied.            *)
NothingOwed ==
  /\ \A c \in New : ~Pending(adding[c])
  /\ \A c \in Changeable : change[c].at # "applied"

(* Then a list that is not invalidated is the server's, and so is what is   *)
(* about to arrive, unless a change was missed.                             *)
CurrentInv ==
  NothingOwed => \A k \in Keys :
    /\ Known(k) /\ ~stale[k] /\ ~missed[k] => list[k] = CardsOf(deck)
    /\ fetch[k].at = "answered" /\ ~fetch[k].late => fetch[k].rows = CardsOf(deck)

(* Every fetch in flight was sent after every creation so far began, and    *)
(* placeholders are of creations that have begun; the server has none.      *)
KnowsInv ==
  /\ \A k \in Keys : fetch[k] # NoFetch =>
       \A c \in New : adding[c] # "none" => c \in fetch[k].knows
  /\ \A c \in New, k \in Keys :
       /\ Known(k) /\ Placeholder(c) \in list[k] => adding[c] # "none"
       /\ Placeholder(c) \notin fetch[k].rows
       /\ \A d \in New : snapshot[d][k] # NoData /\ Placeholder(c) \in snapshot[d][k]
            => adding[c] # "none"

Inv == TypeOK /\ WatchInv /\ CurrentInv /\ KnowsInv

-----------------------------------------------------------------------------
LEMMA FetchTypes ==
  /\ NoFetch \in Fetches /\ NoFetch.at = "idle" /\ NoFetch.rows = {}
  /\ Asked \in Fetches /\ Asked.at = "asked" /\ Asked # NoFetch /\ Asked.rows = {}
  /\ Asked.knows = {c \in New : adding[c] # "none"}
  /\ \A f \in Fetches : /\ Continued(f) \in Fetches /\ Continued(f).at = f.at
                        /\ Continued(f).rows = f.rows /\ Continued(f).knows = f.knows
                        /\ Continued(f).at = "answered" => Continued(f).late
                        /\ f = NoFetch => Continued(f) = NoFetch
<1>1. /\ NoFetch \in Fetches /\ NoFetch.at = "idle" /\ NoFetch.rows = {}
      /\ Asked \in Fetches /\ Asked.at = "asked" /\ Asked # NoFetch /\ Asked.rows = {}
      /\ Asked.knows = {c \in New : adding[c] # "none"}
  BY DEF NoFetch, Asked, Fetches
<1>2. ASSUME NEW f \in Fetches
      PROVE  /\ Continued(f) \in Fetches /\ Continued(f).at = f.at
             /\ Continued(f).rows = f.rows /\ Continued(f).knows = f.knows
             /\ Continued(f).at = "answered" => Continued(f).late
             /\ f = NoFetch => Continued(f) = NoFetch
  <2>1. /\ f = [at |-> f.at, rows |-> f.rows, knows |-> f.knows, late |-> f.late]
        /\ f.at \in {"idle", "asked", "answered"} /\ f.rows \in SUBSET Rows
        /\ f.knows \in SUBSET New /\ f.late \in BOOLEAN
    BY DEF Fetches
  <2> DEFINE late == f.late \/ f.at = "answered"
  <2>2. late \in BOOLEAN
    OBVIOUS
  <2>3. Continued(f) = [at |-> f.at, rows |-> f.rows, knows |-> f.knows, late |-> late]
    BY <2>1 DEF Continued
  <2>4. f = NoFetch => late = FALSE
    BY DEF NoFetch
  <2> HIDE DEF late
  <2>5. Continued(f) \in Fetches
    BY <2>1, <2>2, <2>3 DEF Fetches
  <2>6. /\ Continued(f).at = f.at /\ Continued(f).rows = f.rows
        /\ Continued(f).knows = f.knows /\ Continued(f).late = late
    BY <2>3
  <2>7. f.at = "answered" => late
    BY DEF late
  <2>8. f = NoFetch => Continued(f) = NoFetch
    <3>1. NoFetch.at = "idle" /\ NoFetch.rows = {} /\ NoFetch.knows = {}
      BY DEF NoFetch
    <3>2. SUFFICES ASSUME f = NoFetch PROVE Continued(f) = NoFetch
      OBVIOUS
    <3>3. Continued(f) = [at |-> "idle", rows |-> {}, knows |-> {}, late |-> FALSE]
      BY <2>3, <2>4, <3>1, <3>2
    <3> QED
      BY <3>3 DEF NoFetch
  <2> QED
    BY <2>5, <2>6, <2>7, <2>8
<1> QED
  BY <1>1, <1>2

(* The rows of the server are no placeholders. *)
LEMMA ServerRows ==
  ASSUME TypeOK
  PROVE  /\ CardsOf(deck) \subseteq Rows
         /\ \A c \in New : Placeholder(c) \notin CardsOf(deck)
<1>1. \A c \in DOMAIN deck : Row(c, deck[c]) \in Rows
  <2> TAKE c \in DOMAIN deck
  <2>1. c \in Cards /\ deck[c] \in BOOLEAN
    BY DEF TypeOK
  <2> QED
    BY <2>1 DEF Row, Rows
<1>2. CardsOf(deck) \subseteq Rows
  BY <1>1 DEF CardsOf
<1>3. ASSUME NEW c \in New, Placeholder(c) \in CardsOf(deck) PROVE FALSE
  <2>1. PICK d \in DOMAIN deck : Placeholder(c) = Row(d, deck[d])
    BY <1>3 DEF CardsOf
  <2>2. Placeholder(c).placeholder = TRUE /\ Row(d, deck[d]).placeholder = FALSE
    BY DEF Placeholder, Row
  <2> QED
    BY <2>1, <2>2
<1> QED
  BY <1>2, <1>3

(* Invalidation leaves no list that is cached fresh, and no answer on its   *)
(* way that counts as current.                                              *)
LEMMA InvalidateFacts ==
  ASSUME Inv, NEW data, Invalidate(data)
  PROVE  /\ stale' \in [Keys -> BOOLEAN] /\ fetch' \in [Keys -> Fetches]
         /\ \A k \in Keys : stale[k] \/ data[k] # NoData => stale'[k]
         /\ \A k \in Keys : fetch'[k] # NoFetch => watched = k
         /\ \A k \in Keys : fetch'[k].at = "answered" => fetch'[k].late
         /\ \A k \in Keys : fetch'[k] # NoFetch =>
              \A c \in New : adding[c] # "none" => c \in fetch'[k].knows
         /\ \A k \in Keys, c \in New : Placeholder(c) \notin fetch'[k].rows
<1>1. /\ stale' = [k \in Keys |-> stale[k] \/ data[k] # NoData]
      /\ fetch' = [k \in Keys |->
           IF k # watched THEN fetch[k]
           ELSE IF data[k] # NoData \/ fetch[k] = NoFetch THEN Asked
           ELSE Continued(fetch[k])]
  BY DEF Invalidate
<1>2. stale \in [Keys -> BOOLEAN] /\ fetch \in [Keys -> Fetches]
  BY DEF Inv, TypeOK
<1>3. stale' \in [Keys -> BOOLEAN] /\ \A k \in Keys : stale[k] \/ data[k] # NoData => stale'[k]
  BY <1>1, <1>2
<1>4. ASSUME NEW k \in Keys
      PROVE  \/ k # watched /\ fetch'[k] = NoFetch
             \/ k = watched /\ fetch'[k] = Asked
             \/ k = watched /\ fetch[k] # NoFetch /\ fetch'[k] = Continued(fetch[k])
  BY <1>1 DEF Inv, WatchInv
<1>5. fetch' \in [Keys -> Fetches]
  BY <1>1, <1>2, FetchTypes
<1>6. ASSUME NEW k \in Keys
      PROVE  /\ fetch'[k] # NoFetch => watched = k
             /\ fetch'[k].at = "answered" => fetch'[k].late
             /\ fetch'[k] # NoFetch => \A c \in New : adding[c] # "none" => c \in fetch'[k].knows
             /\ \A c \in New : Placeholder(c) \notin fetch'[k].rows
  <2>1. CASE k # watched /\ fetch'[k] = NoFetch
    BY <2>1, FetchTypes
  <2>2. CASE k = watched /\ fetch'[k] = Asked
    BY <2>2, FetchTypes
  <2>3. CASE k = watched /\ fetch[k] # NoFetch /\ fetch'[k] = Continued(fetch[k])
    BY <1>2, <2>3, FetchTypes DEF Inv, KnowsInv
  <2> QED
    BY <1>4, <2>1, <2>2, <2>3
<1> QED
  BY <1>3, <1>5, <1>6

(* What a mutation whose sender has given up does to the server, the lists  *)
(* have missed.                                                             *)
LEMMA MissesFacts ==
  ASSUME Inv, Misses
  PROVE  /\ missed' = [k \in Keys |-> TRUE] /\ fetch' \in [Keys -> Fetches]
         /\ \A k \in Keys : fetch'[k] # NoFetch => watched = k
         /\ \A k \in Keys : fetch'[k].at = "answered" => fetch'[k].late
         /\ \A k \in Keys : fetch'[k] # NoFetch =>
              \A c \in New : adding[c] # "none" => c \in fetch'[k].knows
         /\ \A k \in Keys, c \in New : Placeholder(c) \notin fetch'[k].rows
<1>1. /\ missed' = [k \in Keys |-> TRUE] /\ fetch' = [k \in Keys |-> Continued(fetch[k])]
      /\ fetch \in [Keys -> Fetches]
  BY DEF Misses, Inv, TypeOK
<1>2. fetch' \in [Keys -> Fetches]
  BY <1>1, FetchTypes
<1>3. ASSUME NEW k \in Keys
      PROVE  /\ fetch'[k] # NoFetch => watched = k
             /\ fetch'[k].at = "answered" => fetch'[k].late
             /\ fetch'[k] # NoFetch => \A c \in New : adding[c] # "none" => c \in fetch'[k].knows
             /\ \A c \in New : Placeholder(c) \notin fetch'[k].rows
  <2>1. fetch'[k] = Continued(fetch[k]) /\ fetch[k] \in Fetches
    BY <1>1
  <2> QED
    BY <2>1, FetchTypes DEF Inv, KnowsInv, WatchInv
<1> QED
  BY <1>1, <1>2, <1>3

LEMMA InvInit == Init => Inv
<1> SUFFICES ASSUME Init PROVE Inv
  OBVIOUS
<1> USE DEF Init
<1>1. TypeOK
  <2>1. DOMAIN deck \subseteq Cards /\ \A c \in DOMAIN deck : deck[c] \in BOOLEAN
    BY DEF Cards
  <2>2. list \in [Keys -> Lists]
    BY DEF Lists
  <2>3. /\ stale \in [Keys -> BOOLEAN] /\ isError \in [Keys -> BOOLEAN]
        /\ missed \in [Keys -> BOOLEAN]
    OBVIOUS
  <2>4. fetch \in [Keys -> Fetches] /\ watched \in Keys \cup {Nobody}
    BY FetchTypes
  <2>5. adding \in [New -> {"none", "sent", "applied", "refused", "stray", "done"}]
    OBVIOUS
  <2>6. snapshot \in [New -> [Keys -> Lists]]
    <3>1. [k \in Keys |-> NoData] \in [Keys -> Lists]
      BY DEF Lists
    <3> QED
      BY <3>1
  <2>7. change \in [Changeable ->
             [kind : Kinds, at : {"none", "sent", "applied", "refused", "stray"}]]
    BY DEF NoChange, Kinds
  <2> HIDE DEF Init
  <2> QED
    BY <2>1, <2>2, <2>3, <2>4, <2>5, <2>6, <2>7 DEF TypeOK
<1>2. WatchInv
  BY DEF WatchInv
<1>3. CurrentInv
  BY FetchTypes DEF CurrentInv, Known
<1>4. KnowsInv
  BY FetchTypes DEF KnowsInv, Known
<1> QED
  BY <1>1, <1>2, <1>3, <1>4 DEF Inv

-----------------------------------------------------------------------------
(* A step that only gives fetches up and sends new ones. *)
LEMMA FetchesOnly ==
  ASSUME Inv, UNCHANGED <<deck, lists, adding, snapshot, change, missed>>,
         watched' \in Keys \cup {Nobody}, fetch' \in [Keys -> Fetches],
         \A k \in Keys : /\ fetch'[k] \in {NoFetch, Asked, fetch[k]}
                         /\ fetch'[k] # NoFetch => watched' = k
  PROVE  Inv'
<1> USE DEF lists
<1>1. TypeOK'
  BY DEF Inv, TypeOK
<1>2. WatchInv'
  BY DEF WatchInv
<1>3. CurrentInv'
  <2>1. SUFFICES ASSUME NothingOwed', NEW k \in Keys
                 PROVE  /\ (Known(k) /\ ~stale[k] /\ ~missed[k] => list[k] = CardsOf(deck))'
                        /\ (fetch[k].at = "answered" /\ ~fetch[k].late
                              => fetch[k].rows = CardsOf(deck))'
    BY DEF CurrentInv
  <2>2. NothingOwed
    BY <2>1 DEF NothingOwed
  <2>3. (Known(k) /\ ~stale[k] /\ ~missed[k] => list[k] = CardsOf(deck))'
    BY <2>2 DEF Inv, CurrentInv, Known, CardsOf
  <2>4. (fetch[k].at = "answered" /\ ~fetch[k].late => fetch[k].rows = CardsOf(deck))'
    BY <2>2, FetchTypes DEF Inv, CurrentInv, CardsOf
  <2> QED
    BY <2>3, <2>4
<1>4. KnowsInv'
  <2>1. ASSUME NEW k \in Keys, fetch'[k] # NoFetch, NEW c \in New, adding'[c] # "none"
        PROVE  c \in fetch'[k].knows
    BY <2>1, FetchTypes DEF Inv, KnowsInv
  <2>2. ASSUME NEW c \in New, NEW k \in Keys
        PROVE  /\ (Known(k) /\ Placeholder(c) \in list[k] => adding[c] # "none")'
               /\ Placeholder(c) \notin fetch'[k].rows
               /\ \A d \in New : snapshot'[d][k] # NoData /\ Placeholder(c) \in snapshot'[d][k]
                    => adding'[c] # "none"
    BY FetchTypes DEF Inv, KnowsInv, Known
  <2> QED
    BY <2>1, <2>2 DEF KnowsInv, Placeholder
<1> QED
  BY <1>1, <1>2, <1>3, <1>4 DEF Inv

LEMMA InvShow ==
  ASSUME Inv, NEW k \in Keys, Show(k) \/ ShowFresh(k)
  PROVE  Inv'
<1>1. /\ watched' = k /\ UNCHANGED <<deck, lists, adding, snapshot, change, missed>>
      /\ fetch \in [Keys -> Fetches]
      /\ \/ fetch' = [l \in Keys |->
              IF l = watched THEN NoFetch ELSE IF l = k THEN Asked ELSE fetch[l]]
         \/ fetch' = [l \in Keys |-> IF l = watched THEN NoFetch ELSE fetch[l]]
  BY DEF Show, ShowFresh, Inv, TypeOK
<1>2. fetch' \in [Keys -> Fetches]
  BY <1>1, FetchTypes
<1>3. \A l \in Keys : /\ fetch'[l] \in {NoFetch, Asked, fetch[l]}
                      /\ fetch'[l] # NoFetch => watched' = l
  BY <1>1 DEF Inv, WatchInv
<1> QED
  BY <1>1, <1>2, <1>3, FetchesOnly

LEMMA InvClose == Inv /\ Close => Inv'
<1> SUFFICES ASSUME Inv, Close PROVE Inv'
  OBVIOUS
<1>1. /\ watched' = Nobody /\ watched \in Keys
      /\ UNCHANGED <<deck, lists, adding, snapshot, change, missed>>
      /\ fetch \in [Keys -> Fetches] /\ fetch' = [fetch EXCEPT ![watched] = NoFetch]
  BY DEF Close, Inv, TypeOK
<1>2. fetch' \in [Keys -> Fetches]
  BY <1>1, FetchTypes
<1>3. \A l \in Keys : fetch'[l] = NoFetch
  BY <1>1 DEF Inv, WatchInv
<1> QED
  BY <1>1, <1>2, <1>3, FetchesOnly

LEMMA InvRefetch ==
  ASSUME Inv, NEW k \in Keys, Refetch(k)
  PROVE  Inv'
<1>1. /\ watched = k /\ watched' = watched
      /\ UNCHANGED <<deck, lists, adding, snapshot, change, missed>>
      /\ fetch \in [Keys -> Fetches] /\ fetch' = [fetch EXCEPT ![k] = Asked]
  BY DEF Refetch, Inv, TypeOK
<1>2. fetch' \in [Keys -> Fetches]
  BY <1>1, FetchTypes
<1>3. \A l \in Keys : /\ fetch'[l] \in {NoFetch, Asked, fetch[l]}
                      /\ fetch'[l] # NoFetch => watched' = l
  BY <1>1 DEF Inv, WatchInv
<1> QED
  BY <1>1, <1>2, <1>3, FetchesOnly

-----------------------------------------------------------------------------
LEMMA InvExpire ==
  ASSUME Inv, NEW k \in Keys, Expire(k)
  PROVE  Inv'
<1>1. /\ UNCHANGED <<deck, fetch, watched, adding, snapshot, change, missed>>
      /\ list' = [list EXCEPT ![k] = NoData]
      /\ stale' = [stale EXCEPT ![k] = FALSE] /\ isError' = [isError EXCEPT ![k] = FALSE]
  BY DEF Expire
<1>2. TypeOK'
  <2>1. list' \in [Keys -> Lists]
    BY <1>1 DEF Inv, TypeOK, Lists
  <2>2. stale' \in [Keys -> BOOLEAN] /\ isError' \in [Keys -> BOOLEAN]
    BY <1>1 DEF Inv, TypeOK
  <2> QED
    BY <1>1, <2>1, <2>2 DEF Inv, TypeOK
<1>3. WatchInv'
  BY <1>1 DEF Inv, WatchInv
<1>4. list'[k] = NoData
      /\ \A l \in Keys \ {k} : list'[l] = list[l] /\ stale'[l] = stale[l]
  BY <1>1 DEF Inv, TypeOK
<1>5. CurrentInv'
  BY <1>1, <1>4 DEF Inv, CurrentInv, NothingOwed, Known, CardsOf
<1>6. KnowsInv'
  BY <1>1, <1>4 DEF Inv, KnowsInv, Known, Placeholder
<1> QED
  BY <1>2, <1>3, <1>5, <1>6 DEF Inv

LEMMA InvFetchAnswered ==
  ASSUME Inv, NEW k \in Keys, FetchAnswered(k)
  PROVE  Inv'
<1>1. /\ UNCHANGED <<deck, list, stale, isError, watched, adding, snapshot, change, missed>>
      /\ fetch' = [fetch EXCEPT ![k].at = "answered", ![k].rows = CardsOf(deck)]
      /\ fetch[k].at = "asked" /\ fetch \in [Keys -> Fetches] /\ fetch[k] \in Fetches
  BY DEF FetchAnswered, lists, Inv, TypeOK
<1>2. CardsOf(deck) \in SUBSET Rows /\ \A c \in New : Placeholder(c) \notin CardsOf(deck)
  BY ServerRows DEF Inv
<1>3. /\ fetch'[k].at = "answered" /\ fetch'[k].rows = CardsOf(deck)
      /\ fetch'[k].knows = fetch[k].knows /\ fetch'[k] \in Fetches
      /\ \A l \in Keys \ {k} : fetch'[l] = fetch[l]
  BY <1>1, <1>2 DEF Fetches
<1>4. fetch[k] # NoFetch
  BY <1>1, FetchTypes
<1>5. TypeOK'
  <2>1. fetch' \in [Keys -> Fetches]
    BY <1>1, <1>3
  <2> QED
    BY <1>1, <2>1 DEF Inv, TypeOK
<1>6. WatchInv'
  BY <1>1, <1>3, <1>4 DEF Inv, WatchInv
<1>7. CurrentInv'
  <2>1. CardsOf(deck)' = CardsOf(deck)
    BY <1>1 DEF CardsOf
  <2>2. SUFFICES ASSUME NothingOwed', NEW l \in Keys
                 PROVE  /\ (Known(l) /\ ~stale[l] /\ ~missed[l] => list[l] = CardsOf(deck))'
                        /\ (fetch[l].at = "answered" /\ ~fetch[l].late
                              => fetch[l].rows = CardsOf(deck))'
    BY DEF CurrentInv
  <2>3. NothingOwed
    BY <1>1, <2>2 DEF NothingOwed
  <2> QED
    BY <1>1, <1>3, <2>1, <2>3 DEF Inv, CurrentInv, Known
<1>8. KnowsInv'
  BY <1>1, <1>2, <1>3, <1>4 DEF Inv, KnowsInv, Known, Placeholder
<1> QED
  BY <1>5, <1>6, <1>7, <1>8 DEF Inv

LEMMA InvFetchArrives ==
  ASSUME Inv, NEW k \in Keys, FetchArrives(k)
  PROVE  Inv'
<1>1. /\ UNCHANGED <<deck, watched, adding, snapshot, change>>
      /\ list' = [list EXCEPT ![k] = fetch[k].rows]
      /\ stale' = [stale EXCEPT ![k] = FALSE] /\ isError' = [isError EXCEPT ![k] = FALSE]
      /\ missed' = [missed EXCEPT ![k] = fetch[k].late]
      /\ fetch' = [fetch EXCEPT ![k] = NoFetch]
      /\ fetch[k].at = "answered" /\ fetch[k] \in Fetches
  BY DEF FetchArrives, Inv, TypeOK
<1>2. fetch[k].rows \in SUBSET Rows /\ fetch[k].late \in BOOLEAN
  BY <1>1 DEF Fetches
<1>3. TypeOK'
  <2>1. list' \in [Keys -> Lists]
    BY <1>1, <1>2 DEF Inv, TypeOK, Lists
  <2>2. stale' \in [Keys -> BOOLEAN] /\ isError' \in [Keys -> BOOLEAN]
        /\ missed' \in [Keys -> BOOLEAN]
    BY <1>1, <1>2 DEF Inv, TypeOK
  <2>3. fetch' \in [Keys -> Fetches]
    BY <1>1, FetchTypes DEF Inv, TypeOK
  <2> QED
    BY <1>1, <2>1, <2>2, <2>3 DEF Inv, TypeOK
<1>4. /\ list'[k] = fetch[k].rows /\ missed'[k] = fetch[k].late /\ fetch'[k] = NoFetch
      /\ \A l \in Keys \ {k} : /\ list'[l] = list[l] /\ stale'[l] = stale[l]
                               /\ missed'[l] = missed[l] /\ fetch'[l] = fetch[l]
  BY <1>1 DEF Inv, TypeOK
<1>5. WatchInv'
  BY <1>1, <1>4 DEF Inv, WatchInv
<1>6. CurrentInv'
  <2>1. CardsOf(deck)' = CardsOf(deck)
    BY <1>1 DEF CardsOf
  <2>2. SUFFICES ASSUME NothingOwed', NEW l \in Keys
                 PROVE  /\ (Known(l) /\ ~stale[l] /\ ~missed[l] => list[l] = CardsOf(deck))'
                        /\ (fetch[l].at = "answered" /\ ~fetch[l].late
                              => fetch[l].rows = CardsOf(deck))'
    BY DEF CurrentInv
  <2>3. NothingOwed
    BY <1>1, <2>2 DEF NothingOwed
  <2> QED
    BY <1>1, <1>4, <2>1, <2>3, FetchTypes DEF Inv, CurrentInv, Known
<1>7. KnowsInv'
  BY <1>1, <1>4, FetchTypes DEF Inv, KnowsInv, Known, Placeholder
<1> QED
  BY <1>3, <1>5, <1>6, <1>7 DEF Inv

LEMMA InvFetchFails ==
  ASSUME Inv, NEW k \in Keys, FetchFails(k)
  PROVE  Inv'
<1>1. /\ UNCHANGED <<deck, list, watched, adding, snapshot, change, missed>>
      /\ stale' = [stale EXCEPT ![k] = Known(k)] /\ isError' = [isError EXCEPT ![k] = TRUE]
      /\ fetch' = [fetch EXCEPT ![k] = NoFetch]
  BY DEF FetchFails
<1>2. TypeOK'
  <2>1. stale' \in [Keys -> BOOLEAN] /\ isError' \in [Keys -> BOOLEAN]
    BY <1>1 DEF Inv, TypeOK, Known
  <2>2. fetch' \in [Keys -> Fetches]
    BY <1>1, FetchTypes DEF Inv, TypeOK
  <2> QED
    BY <1>1, <2>1, <2>2 DEF Inv, TypeOK
<1>3. /\ Known(k) => stale'[k]
      /\ fetch'[k] = NoFetch
      /\ \A l \in Keys \ {k} : stale'[l] = stale[l] /\ fetch'[l] = fetch[l]
  BY <1>1 DEF Inv, TypeOK
<1>4. WatchInv'
  BY <1>1, <1>3 DEF Inv, WatchInv
<1>5. CurrentInv'
  <2>1. CardsOf(deck)' = CardsOf(deck)
    BY <1>1 DEF CardsOf
  <2>2. SUFFICES ASSUME NothingOwed', NEW l \in Keys
                 PROVE  /\ (Known(l) /\ ~stale[l] /\ ~missed[l] => list[l] = CardsOf(deck))'
                        /\ (fetch[l].at = "answered" /\ ~fetch[l].late
                              => fetch[l].rows = CardsOf(deck))'
    BY DEF CurrentInv
  <2>3. NothingOwed
    BY <1>1, <2>2 DEF NothingOwed
  <2> QED
    BY <1>1, <1>3, <2>1, <2>3, FetchTypes DEF Inv, CurrentInv, Known
<1>6. KnowsInv'
  BY <1>1, <1>3, FetchTypes DEF Inv, KnowsInv, Known, Placeholder
<1> QED
  BY <1>2, <1>4, <1>5, <1>6 DEF Inv

-----------------------------------------------------------------------------
LEMMA InvSave ==
  ASSUME Inv, NEW c \in New, Save(c)
  PROVE  Inv'
<1>1. /\ UNCHANGED <<deck, watched, change, missed>>
      /\ list' = [k \in Keys |->
           IF Known(k) THEN list[k] \cup {Placeholder(c)} ELSE NoData]
      /\ stale' = [k \in Keys |-> ~Known(k) /\ stale[k]]
      /\ isError' = [k \in Keys |-> ~Known(k) /\ isError[k]]
      /\ snapshot' = [snapshot EXCEPT ![c] = list]
      /\ adding' = [adding EXCEPT ![c] = "sent"]
      /\ fetch' = [k \in Keys |-> NoFetch]
  BY DEF Save, Append
<1>2. Placeholder(c) \in Rows
  BY DEF Placeholder, Rows, Cards
<1>3. TypeOK'
  <2>1. ASSUME NEW k \in Keys
        PROVE  (IF Known(k) THEN list[k] \cup {Placeholder(c)} ELSE NoData) \in Lists
    BY <1>2 DEF Inv, TypeOK, Lists, Known
  <2>2. list' \in [Keys -> Lists]
    BY <1>1, <2>1
  <2>3. stale' \in [Keys -> BOOLEAN] /\ isError' \in [Keys -> BOOLEAN]
    BY <1>1
  <2>4. snapshot' \in [New -> [Keys -> Lists]]
    BY <1>1 DEF Inv, TypeOK
  <2>5. adding' \in [New -> {"none", "sent", "applied", "refused", "stray", "done"}]
    BY <1>1 DEF Inv, TypeOK
  <2>6. fetch' \in [Keys -> Fetches]
    BY <1>1, FetchTypes
  <2> QED
    BY <1>1, <2>2, <2>3, <2>4, <2>5, <2>6 DEF Inv, TypeOK
<1>4. WatchInv'
  BY <1>1 DEF WatchInv
<1>5. adding'[c] = "sent" /\ \A d \in New \ {c} : adding'[d] = adding[d]
  BY <1>1 DEF Inv, TypeOK
<1>6. CurrentInv'
  BY <1>5 DEF CurrentInv, NothingOwed, Pending
<1>7. KnowsInv'
  <2>1. \A k \in Keys : fetch'[k] = NoFetch
    BY <1>1
  <2>2. ASSUME NEW d \in New, NEW k \in Keys,
               list'[k] # NoData, Placeholder(d) \in list'[k], d # c
        PROVE  adding'[d] # "none"
    <3>1. Placeholder(d) # Placeholder(c)
      BY <2>2 DEF Placeholder
    <3>2. Known(k) /\ Placeholder(d) \in list[k]
      BY <1>1, <2>2, <3>1
    <3> QED
      BY <1>5, <2>2, <3>2 DEF Inv, KnowsInv
  <2>3. ASSUME NEW d \in New, NEW e \in New, NEW k \in Keys, snapshot'[e][k] # NoData,
               Placeholder(d) \in snapshot'[e][k]
        PROVE  adding'[d] # "none"
    <3>1. snapshot'[e] = IF e = c THEN list ELSE snapshot[e]
      BY <1>1 DEF Inv, TypeOK
    <3>2. adding[d] # "none"
      BY <2>3, <3>1 DEF Inv, KnowsInv, Known
    <3> QED
      BY <1>5, <3>2
  <2>4. \A d \in New, k \in Keys : Known(k)' /\ Placeholder(d)' \in list'[k] => adding'[d] # "none"
    BY <1>5, <2>2 DEF Known, Placeholder
  <2> QED
    BY <2>1, <2>3, <2>4, FetchTypes DEF KnowsInv, Placeholder
<1> QED
  BY <1>3, <1>4, <1>6, <1>7 DEF Inv

(* A step of a creation that leaves the lists as they are while the         *)
(* creation still owes them their invalidation.                             *)
LEMMA CreationPending ==
  ASSUME Inv, NEW c \in New, adding[c] = "sent",
         NEW at \in {"applied", "refused"}, adding' = [adding EXCEPT ![c] = at],
         DOMAIN deck' \subseteq Cards, \A d \in DOMAIN deck' : deck'[d] \in BOOLEAN,
         UNCHANGED <<lists, fetch, watched, snapshot, change, missed>>
  PROVE  Inv'
<1>1. adding'[c] = at /\ \A d \in New \ {c} : adding'[d] = adding[d]
  BY DEF Inv, TypeOK
<1>2. TypeOK'
  <2>1. adding' \in [New -> {"none", "sent", "applied", "refused", "stray", "done"}]
    BY DEF Inv, TypeOK
  <2> QED
    BY <2>1 DEF Inv, TypeOK, lists
<1>3. WatchInv'
  BY DEF Inv, WatchInv
<1>4. CurrentInv'
  BY <1>1 DEF CurrentInv, NothingOwed, Pending
<1>5. KnowsInv'
  BY <1>1 DEF Inv, KnowsInv, Known, Placeholder, lists
<1> QED
  BY <1>2, <1>3, <1>4, <1>5 DEF Inv

LEMMA InvCreateAnswered ==
  ASSUME Inv, NEW c \in New, CreateApplied(c) \/ CreateRefused(c)
  PROVE  Inv'
<1>1. CASE CreateApplied(c)
  <2>1. deck' = [x \in DOMAIN deck \cup {c} |-> x # c /\ deck[x]]
    BY <1>1 DEF CreateApplied
  <2>2. DOMAIN deck' \subseteq Cards /\ \A d \in DOMAIN deck' : deck'[d] \in BOOLEAN
    BY <2>1 DEF Inv, TypeOK, Cards
  <2> QED
    BY <1>1, <2>2, CreationPending DEF CreateApplied
<1>2. CASE CreateRefused(c)
  BY <1>2, CreationPending DEF CreateRefused, Inv, TypeOK
<1> QED
  BY <1>1, <1>2

(* Once everything known is invalidated nothing is left to be current, and  *)
(* so the lists themselves may be anything.                                 *)
LEMMA AfterInvalidate ==
  ASSUME Inv, Invalidate(list'), watched' = watched, missed' = missed,
         list' \in [Keys -> Lists],
         \A k \in Keys : list[k] # NoData => list'[k] # NoData
  PROVE  /\ WatchInv'
         /\ CurrentInv'
         /\ stale' \in [Keys -> BOOLEAN] /\ fetch' \in [Keys -> Fetches]
         /\ \A k \in Keys : fetch'[k] # NoFetch =>
              \A c \in New : adding[c] # "none" => c \in fetch'[k].knows
         /\ \A k \in Keys, c \in New : Placeholder(c) \notin fetch'[k].rows
<1>1. /\ stale' \in [Keys -> BOOLEAN] /\ fetch' \in [Keys -> Fetches]
      /\ \A k \in Keys : stale[k] \/ list'[k] # NoData => stale'[k]
      /\ \A k \in Keys : fetch'[k] # NoFetch => watched = k
      /\ \A k \in Keys : fetch'[k].at = "answered" => fetch'[k].late
      /\ \A k \in Keys : fetch'[k] # NoFetch =>
           \A c \in New : adding[c] # "none" => c \in fetch'[k].knows
      /\ \A k \in Keys, c \in New : Placeholder(c) \notin fetch'[k].rows
  <2> DEFINE data == list'
  <2>1. Invalidate(data)
    OBVIOUS
  <2> HIDE DEF data
  <2>2. /\ stale' \in [Keys -> BOOLEAN] /\ fetch' \in [Keys -> Fetches]
        /\ \A k \in Keys : stale[k] \/ data[k] # NoData => stale'[k]
        /\ \A k \in Keys : fetch'[k] # NoFetch => watched = k
        /\ \A k \in Keys : fetch'[k].at = "answered" => fetch'[k].late
        /\ \A k \in Keys : fetch'[k] # NoFetch =>
             \A c \in New : adding[c] # "none" => c \in fetch'[k].knows
        /\ \A k \in Keys, c \in New : Placeholder(c) \notin fetch'[k].rows
    BY <2>1, InvalidateFacts
  <2> QED
    BY <2>2 DEF data
<1>2. WatchInv'
  BY <1>1 DEF WatchInv
<1>3. CurrentInv'
  BY <1>1 DEF CurrentInv, Known
<1> QED
  BY <1>1, <1>2, <1>3

LEMMA InvCreateSucceeds ==
  ASSUME Inv, NEW c \in New, CreateSucceeds(c)
  PROVE  Inv'
<1>1. /\ UNCHANGED <<deck, list, isError, watched, change, missed>>
      /\ adding[c] = "applied" /\ adding' = [adding EXCEPT ![c] = "done"]
      /\ snapshot' = [snapshot EXCEPT ![c] = [k \in Keys |-> NoData]]
      /\ Invalidate(list)
  BY DEF CreateSucceeds
<1>2. /\ WatchInv' /\ CurrentInv'
      /\ stale' \in [Keys -> BOOLEAN] /\ fetch' \in [Keys -> Fetches]
      /\ \A k \in Keys : fetch'[k] # NoFetch =>
           \A d \in New : adding[d] # "none" => d \in fetch'[k].knows
      /\ \A k \in Keys, d \in New : Placeholder(d) \notin fetch'[k].rows
  BY <1>1, AfterInvalidate DEF Inv, TypeOK
<1>3. adding'[c] = "done" /\ \A d \in New \ {c} : adding'[d] = adding[d]
  BY <1>1 DEF Inv, TypeOK
<1>4. snapshot' \in [New -> [Keys -> Lists]]
  <2>1. [k \in Keys |-> NoData] \in [Keys -> Lists]
    BY DEF Lists
  <2> QED
    BY <1>1, <2>1 DEF Inv, TypeOK
<1>5. TypeOK'
  <2>1. adding' \in [New -> {"none", "sent", "applied", "refused", "stray", "done"}]
    BY <1>1 DEF Inv, TypeOK
  <2> QED
    BY <1>1, <1>2, <1>4, <2>1 DEF Inv, TypeOK
<1>6. KnowsInv'
  <2>1. \A d \in New, k \in Keys : /\ d # c => snapshot'[d][k] = snapshot[d][k]
                                   /\ d = c => snapshot'[d][k] = NoData
    BY <1>1 DEF Inv, TypeOK
  <2> QED
    BY <1>1, <1>2, <1>3, <2>1 DEF Inv, KnowsInv, Known, Placeholder
<1> QED
  BY <1>2, <1>5, <1>6 DEF Inv

LEMMA InvCreateFails ==
  ASSUME Inv, NEW c \in New, CreateFails(c)
  PROVE  Inv'
<1> DEFINE put == [k \in Keys |-> IF snapshot[c][k] # NoData THEN snapshot[c][k] ELSE list[k]]
<1>1. /\ UNCHANGED <<deck, watched, change, missed>>
      /\ Pending(adding[c])
      /\ adding' = [adding EXCEPT ![c] = IF @ = "sent" THEN "stray" ELSE "done"]
      /\ list' = put
      /\ isError' = [k \in Keys |-> snapshot[c][k] = NoData /\ isError[k]]
      /\ snapshot' = [snapshot EXCEPT ![c] = [k \in Keys |-> NoData]]
      /\ Invalidate(list')
  BY DEF CreateFails, RolledBack
<1>2. \A k \in Keys : list'[k] = IF snapshot[c][k] # NoData THEN snapshot[c][k] ELSE list[k]
  BY <1>1
<1>3. list' \in [Keys -> Lists]
  <2>1. \A k \in Keys : snapshot[c][k] \in Lists /\ list[k] \in Lists
    BY DEF Inv, TypeOK
  <2> QED
    BY <1>1, <2>1
<1>4. /\ WatchInv' /\ CurrentInv'
      /\ stale' \in [Keys -> BOOLEAN] /\ fetch' \in [Keys -> Fetches]
      /\ \A k \in Keys : fetch'[k] # NoFetch =>
           \A d \in New : adding[d] # "none" => d \in fetch'[k].knows
      /\ \A k \in Keys, d \in New : Placeholder(d) \notin fetch'[k].rows
  <2>1. \A k \in Keys : list[k] # NoData => list'[k] # NoData
    BY <1>2
  <2> QED
    BY <1>1, <1>3, <2>1, AfterInvalidate
<1>5. adding'[c] \in {"stray", "done"} /\ adding[c] # "none"
      /\ \A d \in New \ {c} : adding'[d] = adding[d]
  BY <1>1 DEF Inv, TypeOK, Pending
<1>6. snapshot' \in [New -> [Keys -> Lists]]
  <2>1. [k \in Keys |-> NoData] \in [Keys -> Lists]
    BY DEF Lists
  <2> QED
    BY <1>1, <2>1 DEF Inv, TypeOK
<1>7. TypeOK'
  <2>1. adding' \in [New -> {"none", "sent", "applied", "refused", "stray", "done"}]
    BY <1>1 DEF Inv, TypeOK
  <2>2. isError' \in [Keys -> BOOLEAN]
    BY <1>1
  <2> QED
    BY <1>1, <1>3, <1>4, <1>6, <2>1, <2>2 DEF Inv, TypeOK
<1>8. KnowsInv'
  <2>1. \A d \in New, k \in Keys : /\ d # c => snapshot'[d][k] = snapshot[d][k]
                                   /\ d = c => snapshot'[d][k] = NoData
    BY <1>1 DEF Inv, TypeOK
  <2>2. ASSUME NEW d \in New, NEW k \in Keys, list'[k] # NoData, Placeholder(d) \in list'[k]
        PROVE  adding'[d] # "none"
    <3>1. adding[d] # "none"
      BY <1>2, <2>2 DEF Inv, KnowsInv, Known
    <3> QED
      BY <1>5, <3>1
  <2>3. ASSUME NEW d \in New, NEW e \in New, NEW k \in Keys, snapshot'[e][k] # NoData,
               Placeholder(d) \in snapshot'[e][k]
        PROVE  adding'[d] # "none"
    <3>1. adding[d] # "none"
      BY <2>1, <2>3 DEF Inv, KnowsInv
    <3> QED
      BY <1>5, <3>1
  <2>4. ASSUME NEW d \in New, NEW k \in Keys, fetch'[k] # NoFetch, adding'[d] # "none"
        PROVE  d \in fetch'[k].knows
    BY <1>4, <1>5, <2>4
  <2> HIDE DEF put
  <2>5. \A d \in New, k \in Keys :
             Known(k)' /\ Placeholder(d)' \in list'[k] => adding'[d] # "none"
    BY <2>2 DEF Known, Placeholder
  <2> QED
    BY <1>4, <2>3, <2>4, <2>5 DEF KnowsInv, Placeholder
<1> QED
  BY <1>4, <1>7, <1>8 DEF Inv

-----------------------------------------------------------------------------
(* When the lists have missed what was done, none of them counts as the     *)
(* server's.                                                                *)
LEMMA AfterMisses ==
  ASSUME Inv, Misses, UNCHANGED <<lists, watched, snapshot>>,
         \A c \in New : adding[c] # "none" <=> adding'[c] # "none"
  PROVE  /\ WatchInv' /\ CurrentInv' /\ KnowsInv'
         /\ missed' \in [Keys -> BOOLEAN] /\ fetch' \in [Keys -> Fetches]
<1>1. /\ missed' = [k \in Keys |-> TRUE] /\ fetch' \in [Keys -> Fetches]
      /\ \A k \in Keys : fetch'[k] # NoFetch => watched = k
      /\ \A k \in Keys : fetch'[k].at = "answered" => fetch'[k].late
      /\ \A k \in Keys : fetch'[k] # NoFetch =>
           \A c \in New : adding[c] # "none" => c \in fetch'[k].knows
      /\ \A k \in Keys, c \in New : Placeholder(c) \notin fetch'[k].rows
  BY MissesFacts
<1>2. WatchInv'
  BY <1>1 DEF WatchInv
<1>3. CurrentInv'
  BY <1>1 DEF CurrentInv
<1>4. KnowsInv'
  <2>1. UNCHANGED <<list, snapshot>>
    BY DEF lists
  <2>2. \A k \in Keys : fetch'[k] # NoFetch =>
           \A c \in New : adding'[c] # "none" => c \in fetch'[k].knows
    BY <1>1
  <2>3. \A c \in New, k \in Keys :
          /\ Known(k)' /\ Placeholder(c)' \in list'[k] => adding'[c] # "none"
          /\ \A d \in New : snapshot'[d][k] # NoData /\ Placeholder(c)' \in snapshot'[d][k]
               => adding'[c] # "none"
    BY <2>1 DEF Inv, KnowsInv, Known, Placeholder
  <2> QED
    BY <1>1, <2>2, <2>3 DEF KnowsInv, Placeholder
<1> QED
  BY <1>1, <1>2, <1>3, <1>4

LEMMA InvStrayCreation ==
  ASSUME Inv, NEW c \in New, StrayCreation(c)
  PROVE  Inv'
<1>1. /\ adding[c] = "stray" /\ adding' = [adding EXCEPT ![c] = "done"]
      /\ UNCHANGED <<lists, watched, snapshot, change>>
  BY DEF StrayCreation
<1>2. adding'[c] = "done" /\ \A d \in New \ {c} : adding'[d] = adding[d]
  BY <1>1 DEF Inv, TypeOK
<1>3. adding' \in [New -> {"none", "sent", "applied", "refused", "stray", "done"}]
  BY <1>1 DEF Inv, TypeOK
<1>4. \A d \in New : adding[d] # "none" <=> adding'[d] # "none"
  BY <1>1, <1>2
<1>5. CASE deck' = [x \in DOMAIN deck \cup {c} |-> x # c /\ deck[x]] /\ Misses
  <2>1. DOMAIN deck' \subseteq Cards /\ \A d \in DOMAIN deck' : deck'[d] \in BOOLEAN
    BY <1>5 DEF Inv, TypeOK, Cards
  <2>2. /\ WatchInv' /\ CurrentInv' /\ KnowsInv'
        /\ missed' \in [Keys -> BOOLEAN] /\ fetch' \in [Keys -> Fetches]
    BY <1>1, <1>4, <1>5, AfterMisses
  <2>3. TypeOK'
    BY <1>1, <1>3, <2>1, <2>2 DEF Inv, TypeOK, lists
  <2> QED
    BY <2>2, <2>3 DEF Inv
<1>6. CASE UNCHANGED <<deck, fetch, missed>>
  <2>1. TypeOK'
    BY <1>1, <1>3, <1>6 DEF Inv, TypeOK, lists
  <2>2. WatchInv'
    BY <1>1, <1>6 DEF Inv, WatchInv
  <2>3. CurrentInv'
    <3>1. NothingOwed' => NothingOwed
      BY <1>1, <1>2 DEF NothingOwed, Pending
    <3> QED
      BY <1>1, <1>6, <3>1 DEF Inv, CurrentInv, Known, CardsOf, lists
  <2>4. KnowsInv'
    BY <1>1, <1>4, <1>6 DEF Inv, KnowsInv, Known, Placeholder, lists
  <2> QED
    BY <2>1, <2>2, <2>3, <2>4 DEF Inv
<1> QED
  BY <1>5, <1>6 DEF StrayCreation

-----------------------------------------------------------------------------
Stages == {"none", "sent", "applied", "refused", "stray"}

(* A step of a change that touches nothing else: either it still owes the   *)
(* lists their invalidation or the server has not been changed.             *)
LEMMA ChangeOnly ==
  ASSUME Inv, NEW c \in Changeable,
         NEW new \in [kind : Kinds, at : Stages], change' = [change EXCEPT ![c] = new],
         UNCHANGED <<lists, fetch, watched, adding, snapshot, missed>>,
         DOMAIN deck' \subseteq Cards, \A d \in DOMAIN deck' : deck'[d] \in BOOLEAN,
         new.at = "applied" \/ (deck' = deck /\ change[c].at # "applied")
  PROVE  Inv'
<1>1. change'[c] = new /\ \A d \in Changeable \ {c} : change'[d] = change[d]
  BY DEF Inv, TypeOK
<1>2. change' \in [Changeable -> [kind : Kinds, at : Stages]]
  BY DEF Inv, TypeOK, Stages
<1>3. TypeOK'
  BY <1>2 DEF Inv, TypeOK, lists, Stages
<1>4. WatchInv'
  BY DEF Inv, WatchInv
<1>5. CurrentInv'
  <2>1. CASE new.at = "applied"
    BY <1>1, <2>1 DEF CurrentInv, NothingOwed
  <2>2. CASE deck' = deck /\ change[c].at # "applied"
    <3>1. NothingOwed' => NothingOwed
      BY <1>1, <2>2 DEF NothingOwed
    <3> QED
      BY <2>2, <3>1 DEF Inv, CurrentInv, Known, CardsOf, lists
  <2> QED
    BY <2>1, <2>2
<1>6. KnowsInv'
  BY DEF Inv, KnowsInv, Known, Placeholder, lists
<1> QED
  BY <1>3, <1>4, <1>5, <1>6 DEF Inv

LEMMA ChangeTypes ==
  ASSUME Inv, NEW c \in Changeable
  PROVE  /\ change[c] \in [kind : Kinds, at : Stages] /\ NoChange \in [kind : Kinds, at : Stages]
         /\ NoChange.at = "none"
         /\ \A kind \in Kinds, at \in Stages : Change(kind, at) \in [kind : Kinds, at : Stages]
         /\ DOMAIN Changed(c) \subseteq Cards
         /\ \A d \in DOMAIN Changed(c) : Changed(c)[d] \in BOOLEAN
<1>1. change[c] \in [kind : Kinds, at : Stages]
  BY DEF Inv, TypeOK, Stages
<1>2. /\ NoChange \in [kind : Kinds, at : Stages] /\ NoChange.at = "none"
      /\ \A kind \in Kinds, at \in Stages : Change(kind, at) \in [kind : Kinds, at : Stages]
  BY DEF NoChange, Kinds, Stages, Change
<1>3. DOMAIN deck \subseteq Cards /\ \A d \in DOMAIN deck : deck[d] \in BOOLEAN
  BY DEF Inv, TypeOK
<1>4. change[c].kind \in Kinds
  BY <1>1
<1>5. \/ Changed(c) = Restrict(deck, DOMAIN deck \ {c})
      \/ Changed(c) = [deck EXCEPT ![c] = TRUE]
      \/ Changed(c) = [deck EXCEPT ![c] = FALSE]
      \/ Changed(c) = deck
  BY <1>4 DEF Changed, Kinds
<1>6. /\ DOMAIN Changed(c) \subseteq Cards
      /\ \A d \in DOMAIN Changed(c) : Changed(c)[d] \in BOOLEAN
  <2>1. CASE Changed(c) = Restrict(deck, DOMAIN deck \ {c})
    <3>1. Changed(c) = [d \in DOMAIN deck \ {c} |-> deck[d]]
      BY <2>1 DEF Restrict
    <3> QED
      BY <1>3, <3>1
  <2>2. CASE Changed(c) = [deck EXCEPT ![c] = TRUE]
    BY <1>3, <2>2
  <2>3. CASE Changed(c) = [deck EXCEPT ![c] = FALSE]
    BY <1>3, <2>3
  <2>4. CASE Changed(c) = deck
    BY <1>3, <2>4
  <2> QED
    BY <1>5, <2>1, <2>2, <2>3, <2>4
<1> QED
  BY <1>1, <1>2, <1>6

LEMMA InvAskChange ==
  ASSUME Inv, NEW c \in Changeable, NEW kind \in Kinds, AskChange(c, kind)
  PROVE  Inv'
<1>1. Change(kind, "sent") \in [kind : Kinds, at : Stages]
  BY ChangeTypes DEF Stages
<1>2. /\ change' = [change EXCEPT ![c] = Change(kind, "sent")] /\ change[c].at = "none"
      /\ UNCHANGED <<deck, lists, fetch, watched, adding, snapshot, missed>>
  BY DEF AskChange
<1>3. DOMAIN deck' \subseteq Cards /\ \A d \in DOMAIN deck' : deck'[d] \in BOOLEAN
  BY <1>2 DEF Inv, TypeOK
<1> QED
  BY <1>1, <1>2, <1>3, ChangeOnly

LEMMA InvChangeApplied ==
  ASSUME Inv, NEW c \in Changeable, ChangeApplied(c)
  PROVE  Inv'
<1>1. change[c].at = "sent" /\ UNCHANGED <<lists, fetch, watched, adding, snapshot, missed>>
  BY DEF ChangeApplied
<1>2. change[c] \in [kind : Kinds, at : Stages]
  BY ChangeTypes
<1>3. CASE deck' = Changed(c) /\ change' = [change EXCEPT ![c].at = "applied"]
  <2> DEFINE new == [change[c] EXCEPT !.at = "applied"]
  <2>1. new \in [kind : Kinds, at : Stages] /\ new.at = "applied"
    BY <1>2 DEF Stages
  <2>2. change' = [change EXCEPT ![c] = new]
    BY <1>3
  <2>3. DOMAIN deck' \subseteq Cards /\ \A d \in DOMAIN deck' : deck'[d] \in BOOLEAN
    BY <1>3, ChangeTypes
  <2> HIDE DEF new
  <2> QED
    BY <1>1, <2>1, <2>2, <2>3, ChangeOnly
<1>4. CASE change' = [change EXCEPT ![c].at = "refused"] /\ UNCHANGED deck
  <2> DEFINE new == [change[c] EXCEPT !.at = "refused"]
  <2>1. new \in [kind : Kinds, at : Stages]
    BY <1>2 DEF Stages
  <2>2. change' = [change EXCEPT ![c] = new]
    BY <1>4
  <2>3. DOMAIN deck' \subseteq Cards /\ \A d \in DOMAIN deck' : deck'[d] \in BOOLEAN
    BY <1>4 DEF Inv, TypeOK
  <2> HIDE DEF new
  <2> QED
    BY <1>1, <1>4, <2>1, <2>2, <2>3, ChangeOnly
<1> QED
  BY <1>3, <1>4 DEF ChangeApplied

LEMMA InvChangeSucceeds ==
  ASSUME Inv, NEW c \in Changeable, ChangeSucceeds(c)
  PROVE  Inv'
<1>1. /\ UNCHANGED <<deck, list, isError, watched, adding, snapshot, missed>>
      /\ change' = [change EXCEPT ![c] = NoChange] /\ Invalidate(list)
  BY DEF ChangeSucceeds
<1>2. /\ WatchInv' /\ CurrentInv'
      /\ stale' \in [Keys -> BOOLEAN] /\ fetch' \in [Keys -> Fetches]
      /\ \A k \in Keys : fetch'[k] # NoFetch =>
           \A d \in New : adding[d] # "none" => d \in fetch'[k].knows
      /\ \A k \in Keys, d \in New : Placeholder(d) \notin fetch'[k].rows
  BY <1>1, AfterInvalidate DEF Inv, TypeOK
<1>3. change' \in [Changeable -> [kind : Kinds, at : Stages]]
  BY <1>1, ChangeTypes DEF Inv, TypeOK, Stages
<1>4. TypeOK'
  BY <1>1, <1>2, <1>3 DEF Inv, TypeOK, Stages
<1>5. KnowsInv'
  BY <1>1, <1>2 DEF Inv, KnowsInv, Known, Placeholder
<1> QED
  BY <1>2, <1>4, <1>5 DEF Inv

LEMMA InvChangeFails ==
  ASSUME Inv, NEW c \in Changeable, ChangeFails(c)
  PROVE  Inv'
<1> DEFINE new == IF change[c].at = "sent" THEN Change(change[c].kind, "stray") ELSE NoChange
<1>1. /\ UNCHANGED <<deck, lists, watched, adding, snapshot>>
      /\ change' = [change EXCEPT ![c] = new]
      /\ IF change[c].at = "applied" THEN Misses ELSE UNCHANGED <<fetch, missed>>
  BY DEF ChangeFails
<1>2. new \in [kind : Kinds, at : Stages]
  <2>1. change[c].kind \in Kinds
    BY ChangeTypes
  <2> QED
    BY <2>1, ChangeTypes DEF Stages
<1> HIDE DEF new
<1>3. change' \in [Changeable -> [kind : Kinds, at : Stages]]
  BY <1>1, <1>2 DEF Inv, TypeOK, Stages
<1>4. CASE change[c].at = "applied"
  <2>1. /\ WatchInv' /\ CurrentInv' /\ KnowsInv'
        /\ missed' \in [Keys -> BOOLEAN] /\ fetch' \in [Keys -> Fetches]
    BY <1>1, <1>4, AfterMisses
  <2>2. TypeOK'
    BY <1>1, <1>3, <2>1 DEF Inv, TypeOK, lists, Stages
  <2> QED
    BY <2>1, <2>2 DEF Inv
<1>5. CASE change[c].at # "applied"
  <2>1. DOMAIN deck' \subseteq Cards /\ \A d \in DOMAIN deck' : deck'[d] \in BOOLEAN
    BY <1>1 DEF Inv, TypeOK
  <2> QED
    BY <1>1, <1>2, <1>5, <2>1, ChangeOnly
<1> QED
  BY <1>4, <1>5

LEMMA InvStrayChange ==
  ASSUME Inv, NEW c \in Changeable, StrayChange(c)
  PROVE  Inv'
<1>1. /\ UNCHANGED <<lists, watched, adding, snapshot>>
      /\ change[c].at = "stray" /\ change' = [change EXCEPT ![c] = NoChange]
  BY DEF StrayChange
<1>2. change' \in [Changeable -> [kind : Kinds, at : Stages]]
  BY <1>1, ChangeTypes DEF Inv, TypeOK, Stages
<1>3. CASE deck' = Changed(c) /\ Misses
  <2>1. /\ WatchInv' /\ CurrentInv' /\ KnowsInv'
        /\ missed' \in [Keys -> BOOLEAN] /\ fetch' \in [Keys -> Fetches]
    BY <1>1, <1>3, AfterMisses
  <2>2. DOMAIN deck' \subseteq Cards /\ \A d \in DOMAIN deck' : deck'[d] \in BOOLEAN
    BY <1>3, ChangeTypes
  <2>3. TypeOK'
    BY <1>1, <1>2, <2>1, <2>2 DEF Inv, TypeOK, lists, Stages
  <2> QED
    BY <2>1, <2>3 DEF Inv
<1>4. CASE UNCHANGED <<deck, fetch, missed>>
  <2>1. DOMAIN deck' \subseteq Cards /\ \A d \in DOMAIN deck' : deck'[d] \in BOOLEAN
    BY <1>4 DEF Inv, TypeOK
  <2>2. NoChange \in [kind : Kinds, at : Stages]
    BY ChangeTypes
  <2> QED
    BY <1>1, <1>4, <2>1, <2>2, ChangeOnly
<1> QED
  BY <1>3, <1>4 DEF StrayChange

LEMMA InvDecksInvalidated == Inv /\ DecksInvalidated => Inv'
<1> SUFFICES ASSUME Inv, DecksInvalidated PROVE Inv'
  OBVIOUS
<1>1. /\ UNCHANGED <<deck, list, isError, watched, adding, snapshot, change, missed>>
      /\ Invalidate(list)
  BY DEF DecksInvalidated
<1>2. /\ WatchInv' /\ CurrentInv'
      /\ stale' \in [Keys -> BOOLEAN] /\ fetch' \in [Keys -> Fetches]
      /\ \A k \in Keys : fetch'[k] # NoFetch =>
           \A d \in New : adding[d] # "none" => d \in fetch'[k].knows
      /\ \A k \in Keys, d \in New : Placeholder(d) \notin fetch'[k].rows
  BY <1>1, AfterInvalidate DEF Inv, TypeOK
<1>3. TypeOK'
  BY <1>1, <1>2 DEF Inv, TypeOK
<1>4. KnowsInv'
  BY <1>1, <1>2 DEF Inv, KnowsInv, Known, Placeholder
<1> QED
  BY <1>2, <1>3, <1>4 DEF Inv

LEMMA InvStutter == Inv /\ UNCHANGED vars => Inv'
<1> SUFFICES ASSUME Inv, UNCHANGED vars PROVE Inv'
  OBVIOUS
<1> USE DEF vars, lists
<1>1. TypeOK'
  BY DEF Inv, TypeOK
<1>2. WatchInv'
  BY DEF Inv, WatchInv
<1>3. CurrentInv'
  BY DEF Inv, CurrentInv, NothingOwed, Known, CardsOf
<1>4. KnowsInv'
  BY DEF Inv, KnowsInv, Known, Placeholder
<1> QED
  BY <1>1, <1>2, <1>3, <1>4 DEF Inv

LEMMA InvStep == Inv /\ [Next]_vars => Inv'
<1> SUFFICES ASSUME Inv, [Next]_vars PROVE Inv'
  OBVIOUS
<1>1. ASSUME NEW k \in Keys, Show(k) \/ ShowFresh(k) \/ Expire(k) \/ Fetching(k) \/ Refetch(k)
      PROVE  Inv'
  BY <1>1, InvShow, InvExpire, InvFetchAnswered, InvFetchArrives, InvFetchFails, InvRefetch
     DEF Fetching
<1>2. CASE Close \/ DecksInvalidated
  BY <1>2, InvClose, InvDecksInvalidated
<1>3. ASSUME NEW c \in New, Creation(c)
      PROVE  Inv'
  BY <1>3, InvSave, InvCreateAnswered, InvCreateSucceeds, InvCreateFails, InvStrayCreation
     DEF Creation
<1>4. ASSUME NEW c \in Changeable, Changing(c)
      PROVE  Inv'
  BY <1>4, InvAskChange, InvChangeApplied, InvChangeSucceeds, InvChangeFails, InvStrayChange
     DEF Changing
<1>5. CASE UNCHANGED vars
  BY <1>5, InvStutter
<1> QED
  BY <1>1, <1>2, <1>3, <1>4, <1>5 DEF Next

LEMMA Invariance == Spec => []Inv
<1> QED
  BY InvInit, InvStep, PTL DEF Spec

-----------------------------------------------------------------------------
(* The cache and the server's deck stay what their types say.               *)
THEOREM CacheTypeCorrect == Spec => []TypeOK
<1>1. Inv => TypeOK
  BY DEF Inv
<1> QED
  BY <1>1, Invariance, PTL

(* Once every creation and change has settled, a cached list that is not    *)
(* invalidated and not being fetched is the server's, whatever was rolled   *)
(* back in whatever order (onError and onSettled of useCreateCard), unless  *)
(* it missed a change nothing invalidated it for: every mutation ends by    *)
(* invalidating all that it may have made wrong.                            *)
THEOREM QuietListsAreTheServers == Spec => []QuietListIsServers
<1>1. Inv => QuietListIsServers
  <2> SUFFICES ASSUME Inv, NEW k \in Keys, Settled, Known(k), ~stale[k], ~missed[k]
               PROVE  list[k] = CardsOf(deck)
    BY DEF QuietListIsServers
  <2>1. NothingOwed
    BY DEF Settled, NothingOwed, Pending
  <2> QED
    BY <2>1 DEF Inv, CurrentInv
<1> QED
  BY <1>1, Invariance, PTL

(* The answer to a request for a list never takes away a row added since it *)
(* was sent: onMutate cancels what is in flight before it adds the row, and *)
(* so a request under way was sent after every row the list still awaits.   *)
THEOREM AddedRowsStay == Spec => OlderFetchNeverHides
<1> DEFINE Kept ==
      \A k \in Keys, c \in New :
        Arrives(k) /\ Known(k) /\ Placeholder(c) \in list[k] /\ c \notin fetch[k].knows
          => list'[k] \cap {Placeholder(c), Row(c, TRUE), Row(c, FALSE)} # {}
<1>1. Inv => Kept
  <2> SUFFICES ASSUME Inv, NEW k \in Keys, NEW c \in New, Arrives(k), Known(k),
                      Placeholder(c) \in list[k], c \notin fetch[k].knows
               PROVE  FALSE
    BY DEF Kept
  <2>1. adding[c] # "none"
    BY DEF Inv, KnowsInv
  <2>2. fetch[k] # NoFetch
    BY FetchTypes DEF Arrives
  <2> QED
    BY <2>1, <2>2 DEF Inv, KnowsInv
<1> HIDE DEF Kept
<1>2. Spec => [][Kept]_vars
  BY <1>1, Invariance, PTL
<1> QED
  BY <1>2 DEF OlderFetchNeverHides, Kept
=============================================================================
