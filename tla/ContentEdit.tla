------------------------------ MODULE ContentEdit ------------------------------
(***************************************************************************)
(* PATCH of a card and of a deck (handleUpdateCard, handleUpdateDeck): the *)
(* handler reads the row, edits its copy in memory and writes columns back *)
(* with one UPDATE.  Nothing holds the row in between, so that other       *)
(* edits, suspensions and deletions may commit meanwhile.                  *)
(*                                                                         *)
(* One card and its deck suffice: handlers of other rows do not meet.  A   *)
(* text or a setting is the stamp of the request that chose it, 0 for what *)
(* the row was created with; a mark is a nullable time, 0 for NULL: the    *)
(* card's suspended_at, the deck's archived_at.                            *)
(***************************************************************************)
EXTENDS Naturals

CONSTANTS
  Workers,      \* goroutines that may be serving a PATCH
  CardFields,   \* front, back, hint, tags: the columns UpdateCard writes
  DeckFields,   \* name, description and the settings
  MaxStamp      \* bound: requests and suspensions

ASSUME EditAssumption ==
  /\ CardFields \cap DeckFields = {}
  /\ MaxStamp \in Nat

VARIABLES
  rows,     \* the committed rows: "card" and "deck"
  stamp,    \* the stamps given out
  pc,       \* the call each worker makes next
  req,      \* the request it serves
  draft,    \* its copy of the row
  status,   \* the status it is about to answer
  stale     \* history: workers whose row was written since they read it

vars == <<rows, stamp, pc, req, draft, status, stale>>

Kinds        == {"card", "deck"}
FieldsOf(k)  == IF k = "card" THEN CardFields ELSE DeckFields
Stamps       == 0..MaxStamp
Rows(k)      == [fields : [FieldsOf(k) -> Stamps], mark : Stamps]
Gone         == [gone |-> TRUE]
NoRequest    == [of |-> "none"]

(* archived is absent from the body of a deck's PATCH, true or false; a      *)
(* card's has no such field.                                                *)
Requests ==
  [of : {"card"}, sets : SUBSET CardFields, archived : {"absent"}, n : Stamps]
    \cup
  [of : {"deck"}, sets : SUBSET DeckFields, archived : {"absent", "true", "false"}, n : Stamps]

-----------------------------------------------------------------------------
Init ==
  /\ rows = [k \in Kinds |-> [fields |-> [f \in FieldsOf(k) |-> 0], mark |-> 0]]
  /\ stamp = 0
  /\ pc = [w \in Workers |-> "idle"]
  /\ req = [w \in Workers |-> NoRequest]
  /\ draft = [w \in Workers |-> Gone]
  /\ status = [w \in Workers |-> 0]
  /\ stale = {}

Goto(w, call)   == pc' = [pc EXCEPT ![w] = call]
Answer(w, code) == Goto(w, "respond") /\ status' = [status EXCEPT ![w] = code]
NextStamp       == stamp < MaxStamp /\ stamp' = stamp + 1

(* The row of kind k becomes row: copies others have made of it are stale.  *)
Write(k, row) == rows' = [rows EXCEPT ![k] = row]
Outdates(k)   ==
  stale' = stale \cup {v \in Workers : req[v].of = k /\ pc[v] \in {"edit", "write"}}

Receive(w, r) ==
  /\ pc[w] = "idle" /\ NextStamp
  /\ r.n = stamp + 1
  /\ req' = [req EXCEPT ![w] = r]
  /\ Goto(w, "read")
  /\ UNCHANGED <<rows, draft, status, stale>>

Read(w) ==
  /\ pc[w] = "read"
  /\ LET row == rows[req[w].of] IN
     IF row = Gone THEN Answer(w, 404) /\ UNCHANGED draft
     ELSE /\ draft' = [draft EXCEPT ![w] = row]
          /\ Goto(w, "edit")
          /\ UNCHANGED status
  /\ UNCHANGED <<rows, stamp, req, stale>>

(* Mutant: a field missing from the body is taken as empty. *)
EditedAll(row, r) == [row EXCEPT !.fields = [f \in DOMAIN @ |-> r.n]]

(* The copy with the request's fields in place.  Archiving a deck that is   *)
(* archived keeps its date.                                                 *)
Edited(row, r) ==
  [fields |-> [f \in DOMAIN row.fields |-> IF f \in r.sets THEN r.n ELSE row.fields[f]],
   mark   |-> IF r.archived = "false" THEN 0
              ELSE IF r.archived = "true" /\ row.mark = 0 THEN r.n
              ELSE row.mark]

Edit(w) ==
  /\ pc[w] = "edit"
  /\ draft' = [draft EXCEPT ![w] = Edited(draft[w], req[w])]
  /\ Goto(w, "write")
  /\ UNCHANGED <<rows, stamp, req, status, stale>>

(* A field fails its validation. *)
Refuse(w) ==
  /\ pc[w] = "edit" /\ req[w].sets # {}
  /\ Answer(w, 400)
  /\ UNCHANGED <<rows, stamp, req, draft, stale>>

(* Mutant: UpdateCard writes every column, like UpdateDeck. *)
WrittenWhole(k, copy) == copy

(* UpdateCard writes the content columns, UpdateDeck every mutable one. *)
Written(k, copy) == IF k = "card" THEN [rows[k] EXCEPT !.fields = copy.fields] ELSE copy

(* Mutant: that no row was affected goes unnoticed. *)
UpdateUnaffected(w) ==
  /\ pc[w] = "write"
  /\ LET k == req[w].of IN
     /\ IF rows[k] = Gone THEN UNCHANGED <<rows, stale>>
        ELSE Write(k, Written(k, draft[w])) /\ Outdates(k)
     /\ Answer(w, 200)
  /\ UNCHANGED <<stamp, req, draft>>

Update(w) ==
  /\ pc[w] = "write"
  /\ LET k == req[w].of IN
     IF rows[k] = Gone
     THEN Answer(w, 404) /\ UNCHANGED <<rows, stale>>
     ELSE Write(k, Written(k, draft[w])) /\ Outdates(k) /\ Answer(w, 200)
  /\ UNCHANGED <<stamp, req, draft>>

(* An SQL error, a panic, or a client that went away. *)
Fail(w) ==
  /\ pc[w] \in {"read", "edit", "write"}
  /\ Answer(w, 500)
  /\ UNCHANGED <<rows, stamp, req, draft, stale>>

Respond(w) ==
  /\ pc[w] = "respond"
  /\ Goto(w, "idle")
  /\ req' = [req EXCEPT ![w] = NoRequest]
  /\ draft' = [draft EXCEPT ![w] = Gone]
  /\ status' = [status EXCEPT ![w] = 0]
  /\ stale' = stale \ {w}
  /\ UNCHANGED <<rows, stamp>>

-----------------------------------------------------------------------------
Statement == UNCHANGED <<pc, req, draft, status>>

Suspend ==
  /\ rows["card"] # Gone
  /\ NextStamp
  /\ Write("card", [rows["card"] EXCEPT !.mark = stamp + 1])
  /\ Outdates("card")
  /\ Statement

Unsuspend ==
  /\ rows["card"] # Gone
  /\ Write("card", [rows["card"] EXCEPT !.mark = 0])
  /\ Outdates("card")
  /\ UNCHANGED stamp
  /\ Statement

DeleteCard ==
  /\ rows["card"] # Gone
  /\ Write("card", Gone)
  /\ Outdates("card")
  /\ UNCHANGED stamp
  /\ Statement

(* The cards of a deck go with it. *)
DeleteDeck ==
  /\ rows["deck"] # Gone
  /\ rows' = [k \in Kinds |-> Gone]
  /\ stale' = stale \cup {v \in Workers : pc[v] \in {"edit", "write"}}
  /\ UNCHANGED stamp
  /\ Statement

Next ==
  \/ \E w \in Workers :
       \/ \E r \in Requests : Receive(w, r)
       \/ Read(w) \/ Edit(w) \/ Refuse(w) \/ Update(w) \/ Fail(w) \/ Respond(w)
  \/ Suspend \/ Unsuspend \/ DeleteCard \/ DeleteDeck

Spec == Init /\ [][Next]_vars

-----------------------------------------------------------------------------
(* A worker edits and writes back a copy of a row that was there. *)
TypeOK ==
  /\ DOMAIN rows = Kinds /\ \A k \in Kinds : rows[k] \in Rows(k) \cup {Gone}
  /\ stamp \in Stamps
  /\ pc \in [Workers -> {"idle", "read", "edit", "write", "respond"}]
  /\ DOMAIN req = Workers /\ \A w \in Workers : pc[w] # "idle" => req[w] \in Requests
  /\ DOMAIN draft = Workers
  /\ \A w \in Workers : pc[w] \in {"edit", "write"} => draft[w] \in Rows(req[w].of)
  /\ status \in [Workers -> {0, 200, 400, 404, 500}]
  /\ stale \subseteq Workers

Writing(w) == pc[w] = "write" /\ pc'[w] = "respond" /\ status'[w] = 200

(* A PATCH changes what it was not asked to change only if the row was      *)
(* written between its read and its write: not another column, and not the  *)
(* date of an archived deck that is archived again.                         *)
OnlyWhatWasAsked ==
  [][\A w \in Workers : Writing(w) /\ w \notin stale =>
       LET k == req[w].of
           before == rows[k]
           after  == rows'[k]
       IN  /\ \A f \in FieldsOf(k) \ req[w].sets : after.fields[f] = before.fields[f]
           /\ before.mark # 0 /\ after.mark # 0 => after.mark = before.mark
           /\ req[w].archived = "absent" => after.mark = before.mark]_vars

(* Editing a card never suspends or unsuspends it, not even when it was     *)
(* suspended or unsuspended while the handler held a copy of it.            *)
EditKeepsSuspension ==
  [][\A w \in Workers : Writing(w) /\ req[w].of = "card" =>
       rows'["card"].mark = rows["card"].mark]_vars

(* 200 means that the row is there and holds what was asked for, any error  *)
(* that the request has written nothing; and no edit brings a deleted row   *)
(* back.                                                                    *)
EditsTruthful ==
  [][\A w \in Workers : pc[w] # "respond" /\ pc'[w] = "respond" =>
       IF status'[w] = 200
       THEN /\ rows[req[w].of] # Gone
            /\ \A f \in req[w].sets : rows'[req[w].of].fields[f] = req[w].n
       ELSE rows' = rows]_vars
=============================================================================
