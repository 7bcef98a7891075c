------------------------------ MODULE CardCache ------------------------------
(***************************************************************************)
(* The card lists the app has cached (app/lib/queries.ts) while cards are  *)
(* added, suspended and deleted: optimistic creation with its rollback,    *)
(* invalidation, and the fetches that invalidation and screens start.      *)
(*                                                                         *)
(* A deck's list is cached once for each search and page; rows that a      *)
(* search or a page leaves out are not told apart, so that every list is   *)
(* of the deck's cards.  The screens stay mounted below those opened from  *)
(* them: a list stays watched while cards are added over it.  What of      *)
(* TanStack Query the hooks rely on is modelled from its behaviour: a      *)
(* cancelled fetch leaves everything as before it, data that is set counts *)
(* as fresh, and invalidation starts the fetch of a watched list again     *)
(* unless it is the first one.                                             *)
(***************************************************************************)
EXTENDS FiniteSets, Functions

CONSTANTS
  Keys,        \* the lists: searches and pages
  Old, New,    \* card ids: there from the beginning; added
  Changeable,  \* bound: the cards that are suspended and deleted
  Nobody, NoData

ASSUME CacheAssumption ==
  Old \cap New = {} /\ Changeable \subseteq Old \cup New /\ Nobody \notin Keys

VARIABLES
  deck,       \* the server: whether each of its cards is suspended
  list,       \* each list's data
  stale,      \* it is invalidated
  isError,    \* its last fetch failed
  fetch,      \* its fetch in flight
  watched,    \* the list on the screen, or Nobody
  adding,     \* how far the creation of each new card is
  snapshot,   \* what it puts back when it fails
  change,     \* the change of each card in flight
  missed      \* history: lists that missed a change nothing invalidates them for

lists == <<list, stale, isError>>
vars  == <<deck, lists, fetch, watched, adding, snapshot, change, missed>>

Cards == Old \cup New

(* How far a mutation is: "none" or, once it is "sent", "applied" or        *)
(* "refused" by the server with the answer on its way, "stray" when it was  *)
(* given up with the request still on its way, or "done".                   *)
Pending(m) == m \in {"sent", "applied", "refused"}

Kinds    == {"suspend", "unsuspend", "delete", "edit"}
NoChange == [kind |-> "delete", at |-> "none"]
Change(kind, at) == [kind |-> kind, at |-> at]

Row(c, suspended) == [card |-> c, suspended |-> suspended, placeholder |-> FALSE]
Placeholder(c)    == [card |-> c, suspended |-> FALSE, placeholder |-> TRUE]

CardsOf(d) == {Row(c, d[c]) : c \in DOMAIN d}

(* A fetch: whether the server has answered it and what, the creations that *)
(* had begun before it, and whether its answer misses a change.             *)
NoFetch == [at |-> "idle", rows |-> {}, knows |-> {}, late |-> FALSE]
Asked   == [at |-> "asked", rows |-> {}, late |-> FALSE,
            knows |-> {c \in New : adding[c] # "none"}]

Known(k) == list[k] # NoData

-----------------------------------------------------------------------------
Init ==
  /\ deck = [c \in Old |-> FALSE]
  /\ list = [k \in Keys |-> NoData]
  /\ stale = [k \in Keys |-> FALSE] /\ isError = [k \in Keys |-> FALSE]
  /\ fetch = [k \in Keys |-> NoFetch]
  /\ watched = Nobody
  /\ adding = [c \in New |-> "none"]
  /\ snapshot = [c \in New |-> [k \in Keys |-> NoData]]
  /\ change = [c \in Changeable |-> NoChange]
  /\ missed = [k \in Keys |-> FALSE]

(* The first fetch of a list goes on, and may have been answered before the *)
(* change was made.                                                         *)
Continued(f) == [f EXCEPT !.late = f.late \/ f.at = "answered"]

(* invalidateQueries of the deck's lists: those that are cached are stale,  *)
(* the watched one is fetched, and a fetch of it in flight is given up for  *)
(* a new one, unless there is nothing to show yet.                          *)
Invalidate(data) ==
  /\ stale' = [k \in Keys |-> stale[k] \/ data[k] # NoData]
  /\ fetch' = [k \in Keys |->
       IF k # watched THEN fetch[k]
       ELSE IF data[k] # NoData \/ fetch[k] = NoFetch THEN Asked
       ELSE Continued(fetch[k])]

-----------------------------------------------------------------------------
(* The card browser shows another list, opens or closes: the fetch of the   *)
(* one it showed is cancelled.  It fetches what it has not got, what is     *)
(* stale, and what has aged; how long that takes is left open.              *)
Show(k) ==
  /\ watched # k
  /\ watched' = k
  /\ fetch' = [l \in Keys |->
       IF l = watched THEN NoFetch ELSE IF l = k THEN Asked ELSE fetch[l]]
  /\ UNCHANGED <<deck, lists, adding, snapshot, change, missed>>

ShowFresh(k) ==
  /\ watched # k /\ Known(k) /\ ~stale[k]
  /\ watched' = k
  /\ fetch' = [l \in Keys |-> IF l = watched THEN NoFetch ELSE fetch[l]]
  /\ UNCHANGED <<deck, lists, adding, snapshot, change, missed>>

Close ==
  /\ watched # Nobody
  /\ watched' = Nobody
  /\ fetch' = [fetch EXCEPT ![watched] = NoFetch]
  /\ UNCHANGED <<deck, lists, adding, snapshot, change, missed>>

(* A list nobody watches is dropped after a while. *)
Expire(k) ==
  /\ watched # k /\ Known(k)
  /\ list' = [list EXCEPT ![k] = NoData]
  /\ stale' = [stale EXCEPT ![k] = FALSE] /\ isError' = [isError EXCEPT ![k] = FALSE]
  /\ UNCHANGED <<deck, fetch, watched, adding, snapshot, change, missed>>

FetchAnswered(k) ==
  /\ fetch[k].at = "asked"
  /\ fetch' = [fetch EXCEPT ![k].at = "answered", ![k].rows = CardsOf(deck)]
  /\ UNCHANGED <<deck, lists, watched, adding, snapshot, change, missed>>

FetchArrives(k) ==
  /\ fetch[k].at = "answered"
  /\ list' = [list EXCEPT ![k] = fetch[k].rows]
  /\ stale' = [stale EXCEPT ![k] = FALSE] /\ isError' = [isError EXCEPT ![k] = FALSE]
  /\ missed' = [missed EXCEPT ![k] = fetch[k].late]
  /\ fetch' = [fetch EXCEPT ![k] = NoFetch]
  /\ UNCHANGED <<deck, watched, adding, snapshot, change>>

(* After its retries.  What is cached stays, invalidated. *)
FetchFails(k) ==
  /\ fetch[k] # NoFetch
  /\ fetch' = [fetch EXCEPT ![k] = NoFetch]
  /\ isError' = [isError EXCEPT ![k] = TRUE]
  /\ stale' = [stale EXCEPT ![k] = Known(k)]
  /\ UNCHANGED <<deck, list, watched, adding, snapshot, change, missed>>

Refetch(k) ==
  /\ watched = k /\ isError[k]
  /\ fetch' = [fetch EXCEPT ![k] = Asked]
  /\ UNCHANGED <<deck, lists, watched, adding, snapshot, change, missed>>

-----------------------------------------------------------------------------
(* useCreateCard *)

Append(c) ==
  /\ list' = [k \in Keys |->
       IF Known(k) THEN list[k] \cup {Placeholder(c)} ELSE NoData]
  /\ stale' = [k \in Keys |-> ~Known(k) /\ stale[k]]
  /\ isError' = [k \in Keys |-> ~Known(k) /\ isError[k]]
  /\ snapshot' = [snapshot EXCEPT ![c] = list]
  /\ adding' = [adding EXCEPT ![c] = "sent"]

(* Mutant: fetches in flight are not cancelled. *)
SaveUncancelled(c) ==
  /\ adding[c] = "none"
  /\ Append(c)
  /\ UNCHANGED <<deck, fetch, watched, change, missed>>

(* onMutate: the fetches are cancelled, the lists are remembered, and a     *)
(* placeholder is added to each.  The request is sent at once.              *)
Save(c) ==
  /\ adding[c] = "none"
  /\ Append(c)
  /\ fetch' = [k \in Keys |-> NoFetch]
  /\ UNCHANGED <<deck, watched, change, missed>>

CreateApplied(c) ==
  /\ adding[c] = "sent"
  /\ deck' = [x \in DOMAIN deck \cup {c} |-> x # c /\ deck[x]]
  /\ adding' = [adding EXCEPT ![c] = "applied"]
  /\ UNCHANGED <<lists, fetch, watched, snapshot, change, missed>>

CreateRefused(c) ==
  /\ adding[c] = "sent"
  /\ adding' = [adding EXCEPT ![c] = "refused"]
  /\ UNCHANGED <<deck, lists, fetch, watched, snapshot, change, missed>>

(* onSettled after an answer of success. *)
CreateSucceeds(c) ==
  /\ adding[c] = "applied"
  /\ adding' = [adding EXCEPT ![c] = "done"]
  /\ snapshot' = [snapshot EXCEPT ![c] = [k \in Keys |-> NoData]]
  /\ Invalidate(list)
  /\ UNCHANGED <<deck, list, isError, watched, change, missed>>

(* onError: every list that was cached is as it was.  A refusal, or the     *)
(* answer or the request itself was lost.                                   *)
RolledBack(c) ==
  /\ Pending(adding[c])
  /\ adding' = [adding EXCEPT ![c] = IF @ = "sent" THEN "stray" ELSE "done"]
  /\ list' = [k \in Keys |-> IF snapshot[c][k] # NoData THEN snapshot[c][k] ELSE list[k]]
  /\ isError' = [k \in Keys |-> snapshot[c][k] = NoData /\ isError[k]]
  /\ snapshot' = [snapshot EXCEPT ![c] = [k \in Keys |-> NoData]]

(* Mutant: lists are invalidated only when the card was created. *)
CreateFailsQuietly(c) ==
  /\ RolledBack(c)
  /\ UNCHANGED <<deck, stale, fetch, watched, change, missed>>

CreateFails(c) ==
  /\ RolledBack(c)
  /\ Invalidate(list')
  /\ UNCHANGED <<deck, watched, change, missed>>

(* What reaches the server after its sender has given up. *)
Misses == /\ missed' = [k \in Keys |-> TRUE]
          /\ fetch' = [k \in Keys |-> Continued(fetch[k])]

StrayCreation(c) ==
  /\ adding[c] = "stray"
  /\ adding' = [adding EXCEPT ![c] = "done"]
  /\ \/ deck' = [x \in DOMAIN deck \cup {c} |-> x # c /\ deck[x]] /\ Misses
     \/ UNCHANGED <<deck, fetch, missed>>
  /\ UNCHANGED <<lists, watched, snapshot, change>>

-----------------------------------------------------------------------------
(* useSetCardSuspended, useDeleteCard and useUpdateCard, of a row on the    *)
(* screen that is not a placeholder: the server knows no such id as a       *)
(* placeholder has.  The editor is opened over the browser, which goes on   *)
(* watching its list.                                                       *)
AskChange(c, kind) ==
  /\ watched # Nobody /\ Known(watched) /\ change[c].at = "none"
  /\ \/ kind \in {"delete", "edit"} /\ \E s \in BOOLEAN : Row(c, s) \in list[watched]
     \/ kind = "suspend" /\ Row(c, FALSE) \in list[watched]
     \/ kind = "unsuspend" /\ Row(c, TRUE) \in list[watched]
  /\ change' = [change EXCEPT ![c] = Change(kind, "sent")]
  /\ UNCHANGED <<deck, lists, fetch, watched, adding, snapshot, missed>>

Changed(c) ==
  CASE change[c].kind = "delete"    -> Restrict(deck, DOMAIN deck \ {c})
    [] change[c].kind = "suspend"   -> [deck EXCEPT ![c] = TRUE]
    [] change[c].kind = "unsuspend" -> [deck EXCEPT ![c] = FALSE]
    [] change[c].kind = "edit"      -> deck

(* A card that is gone is a 404. *)
ChangeApplied(c) ==
  /\ change[c].at = "sent"
  /\ IF c \in DOMAIN deck
     THEN deck' = Changed(c) /\ change' = [change EXCEPT ![c].at = "applied"]
     ELSE change' = [change EXCEPT ![c].at = "refused"] /\ UNCHANGED deck
  /\ UNCHANGED <<lists, fetch, watched, adding, snapshot, missed>>

(* onSuccess *)
ChangeSucceeds(c) ==
  /\ change[c].at = "applied"
  /\ change' = [change EXCEPT ![c] = NoChange]
  /\ Invalidate(list)
  /\ UNCHANGED <<deck, list, isError, watched, adding, snapshot, missed>>

(* Nothing is invalidated when a change fails, also when it was applied and *)
(* only the answer was lost.                                                *)
ChangeFails(c) ==
  /\ Pending(change[c].at)
  /\ change' = [change EXCEPT ![c] =
       IF @.at = "sent" THEN Change(@.kind, "stray") ELSE NoChange]
  /\ IF change[c].at = "applied" THEN Misses ELSE UNCHANGED <<fetch, missed>>
  /\ UNCHANGED <<deck, lists, watched, adding, snapshot>>

StrayChange(c) ==
  /\ change[c].at = "stray"
  /\ change' = [change EXCEPT ![c] = NoChange]
  /\ \/ c \in DOMAIN deck /\ deck' = Changed(c) /\ Misses
     \/ UNCHANGED <<deck, fetch, missed>>
  /\ UNCHANGED <<lists, watched, adding, snapshot>>

(* A deck was made or edited, or a session is over: everything about decks  *)
(* is invalidated, by screens that are not open over the card browser.      *)
DecksInvalidated ==
  /\ watched = Nobody
  /\ Invalidate(list)
  /\ UNCHANGED <<deck, list, isError, watched, adding, snapshot, change, missed>>

-----------------------------------------------------------------------------
Fetching(k) == FetchAnswered(k) \/ FetchArrives(k) \/ FetchFails(k)
Creation(c) ==
  \/ Save(c) \/ CreateApplied(c) \/ CreateRefused(c)
  \/ CreateSucceeds(c) \/ CreateFails(c) \/ StrayCreation(c)
Changing(c) ==
  \/ \E kind \in Kinds : AskChange(c, kind)
  \/ ChangeApplied(c) \/ ChangeSucceeds(c) \/ ChangeFails(c) \/ StrayChange(c)

Next ==
  \/ \E k \in Keys : Show(k) \/ ShowFresh(k) \/ Expire(k) \/ Fetching(k) \/ Refetch(k)
  \/ Close \/ DecksInvalidated
  \/ \E c \in New : Creation(c)
  \/ \E c \in Changeable : Changing(c)

(* Requests for a list are answered, or fail. *)
Spec == Init /\ [][Next]_vars /\ \A k \in Keys : WF_vars(Fetching(k))

-----------------------------------------------------------------------------
Settled == /\ \A c \in New : adding[c] \in {"none", "stray", "done"}
           /\ \A c \in Changeable : change[c].at \in {"none", "stray"}

(* Whatever was rolled back in whatever order, a list that is cached, not   *)
(* invalidated and not being fetched is the server's once every mutation    *)
(* has settled, unless it missed a change it was never told of.             *)
QuietListIsServers ==
  \A k \in Keys :
    Settled /\ Known(k) /\ ~stale[k] /\ fetch[k] = NoFetch /\ ~missed[k]
      => list[k] = CardsOf(deck)

(* A row the user has just added is not taken away by the answer to a       *)
(* request for the list that was sent before it was added.                  *)
Arrives(k) == fetch[k].at = "answered" /\ fetch'[k] = NoFetch
OlderFetchNeverHides ==
  [][\A k \in Keys, c \in New :
       Arrives(k) /\ Known(k) /\ Placeholder(c) \in list[k] /\ c \notin fetch[k].knows
         => list'[k] \cap {Placeholder(c), Row(c, TRUE), Row(c, FALSE)} # {}]_vars

(* A list on the screen comes to show the server's cards, or an error, when *)
(* nothing is under way: also when its first fetch was cancelled for the    *)
(* sake of a placeholder there was no list to put into.                     *)
ListSettles ==
  \A k \in Keys :
    watched = k /\ Settled
      ~> \/ list[k] = CardsOf(deck) \/ isError[k] \/ missed[k]
         \/ watched # k \/ ~Settled
=============================================================================
