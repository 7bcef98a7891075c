-------------------------- MODULE ContentEditProofs --------------------------
(* Proofs about ContentEdit for any workers, fields and bound on stamps.    *)
EXTENDS ContentEdit, TLAPS

USE DEF Kinds, Gone

LEMMA RequestsHaveAKind ==
  ASSUME NEW r \in Requests
  PROVE  r.of \in Kinds /\ r.n \in Stamps /\ 0 \in Stamps
  BY EditAssumption DEF Requests, Stamps, EditAssumption

LEMMA RowsAreRecords ==
  ASSUME NEW k, NEW row \in Rows(k)
  PROVE  /\ row.fields \in [FieldsOf(k) -> Stamps]
         /\ row.mark \in Stamps
         /\ row = [fields |-> row.fields, mark |-> row.mark]
  BY DEF Rows

(* What a request makes of a row is a row. *)
LEMMA EditedIsARow ==
  ASSUME NEW r \in Requests, NEW row \in Rows(r.of)
  PROVE  Edited(row, r) \in Rows(r.of)
<1>1. row.fields \in [FieldsOf(r.of) -> Stamps] /\ row.mark \in Stamps
  BY RowsAreRecords
<1>2. r.n \in Stamps /\ 0 \in Stamps
  BY RequestsHaveAKind
<1>3. Edited(row, r).fields \in [FieldsOf(r.of) -> Stamps]
  BY <1>1, <1>2 DEF Edited
<1>4. Edited(row, r).mark \in Stamps
  BY <1>1, <1>2 DEF Edited
<1> QED
  BY <1>3, <1>4 DEF Edited, Rows

(* Whatever the UPDATE writes of a copy over a row is a row. *)
LEMMA WrittenIsARow ==
  ASSUME TypeOK, NEW k \in Kinds, NEW copy \in Rows(k), rows[k] # Gone
  PROVE  Written(k, copy) \in Rows(k)
<1>1. rows[k] \in Rows(k)
  BY DEF TypeOK
<1>2. copy.fields \in [FieldsOf(k) -> Stamps]
  BY RowsAreRecords
<1>3. rows[k].mark \in Stamps /\ rows[k] = [fields |-> rows[k].fields, mark |-> rows[k].mark]
  BY <1>1, RowsAreRecords
<1>4. CASE k = "card"
  <2>1. Written(k, copy) = [fields |-> copy.fields, mark |-> rows[k].mark]
    BY <1>3, <1>4 DEF Written
  <2> QED
    BY <1>2, <1>3, <2>1 DEF Rows
<1>5. CASE k # "card"
  BY <1>5 DEF Written
<1> QED
  BY <1>4, <1>5

-----------------------------------------------------------------------------
(* The stamp a request or a suspension is given is one. *)
LEMMA StampsGrow ==
  ASSUME TypeOK, NextStamp
  PROVE  stamp' \in Stamps /\ stamp' = stamp + 1
  BY EditAssumption DEF TypeOK, NextStamp, Stamps, EditAssumption

LEMMA MarkedIsARow ==
  ASSUME NEW k, NEW row \in Rows(k), NEW mark \in Stamps
  PROVE  [row EXCEPT !.mark = mark] \in Rows(k)
<1>1. row.fields \in [FieldsOf(k) -> Stamps] /\ row = [fields |-> row.fields, mark |-> row.mark]
  BY RowsAreRecords
<1>2. [row EXCEPT !.mark = mark] = [fields |-> row.fields, mark |-> mark]
  BY <1>1
<1> QED
  BY <1>1, <1>2 DEF Rows

LEMMA InitTypeOK == Init => TypeOK
<1> SUFFICES ASSUME Init PROVE TypeOK
  OBVIOUS
<1>1. 0 \in Stamps
  BY EditAssumption DEF Stamps, EditAssumption
<1>2. ASSUME NEW k \in Kinds PROVE rows[k] \in Rows(k)
  <2>1. [f \in FieldsOf(k) |-> 0] \in [FieldsOf(k) -> Stamps]
    BY <1>1
  <2>2. rows[k] = [fields |-> [f \in FieldsOf(k) |-> 0], mark |-> 0]
    BY DEF Init
  <2> QED
    BY <1>1, <2>1, <2>2 DEF Rows
<1> QED
  BY <1>1, <1>2 DEF Init, TypeOK

LEMMA StepTypeOK == TypeOK /\ [Next]_vars => TypeOK'
<1> SUFFICES ASSUME TypeOK, [Next]_vars PROVE TypeOK'
  OBVIOUS
<1>1. ASSUME NEW w \in Workers, NEW r \in Requests, Receive(w, r) PROVE TypeOK'
  <2>1. stamp' \in Stamps
    BY <1>1, StampsGrow DEF Receive
  <2> QED
    BY <1>1, <2>1 DEF Receive, Goto, TypeOK
<1>2. ASSUME NEW w \in Workers, Read(w) PROVE TypeOK'
  <2>1. req[w] \in Requests /\ req[w].of \in Kinds
    BY <1>2, RequestsHaveAKind DEF Read, TypeOK
  <2>2. CASE rows[req[w].of] = Gone
    BY <1>2, <2>1, <2>2 DEF Read, Answer, Goto, TypeOK
  <2>3. CASE rows[req[w].of] # Gone
    <3>1. rows[req[w].of] \in Rows(req[w].of)
      BY <2>1, <2>3 DEF TypeOK
    <3> QED
      BY <1>2, <2>1, <2>3, <3>1 DEF Read, Goto, TypeOK
  <2> QED
    BY <2>2, <2>3
<1>3. ASSUME NEW w \in Workers, Edit(w) PROVE TypeOK'
  <2>1. Edited(draft[w], req[w]) \in Rows(req[w].of)
    BY <1>3, EditedIsARow DEF Edit, TypeOK
  <2> QED
    BY <1>3, <2>1 DEF Edit, Goto, TypeOK
<1>4. ASSUME NEW w \in Workers, Refuse(w) PROVE TypeOK'
  BY <1>4 DEF Refuse, Answer, Goto, TypeOK
<1>5. ASSUME NEW w \in Workers, Update(w) PROVE TypeOK'
  <2>1. req[w] \in Requests /\ req[w].of \in Kinds /\ draft[w] \in Rows(req[w].of)
    BY <1>5, RequestsHaveAKind DEF Update, TypeOK
  <2>2. CASE rows[req[w].of] = Gone
    BY <1>5, <2>1, <2>2 DEF Update, Answer, Goto, TypeOK
  <2>3. CASE rows[req[w].of] # Gone
    <3>1. Written(req[w].of, draft[w]) \in Rows(req[w].of)
      BY <2>1, <2>3, WrittenIsARow
    <3> QED
      BY <1>5, <2>1, <2>3, <3>1 DEF Update, Write, Outdates, Answer, Goto, TypeOK
  <2> QED
    BY <2>2, <2>3
<1>6. ASSUME NEW w \in Workers, Fail(w) PROVE TypeOK'
  BY <1>6 DEF Fail, Answer, Goto, TypeOK
<1>7. ASSUME NEW w \in Workers, Respond(w) PROVE TypeOK'
  BY <1>7 DEF Respond, Goto, TypeOK
<1>8. CASE Suspend
  <2>1. stamp' \in Stamps /\ stamp + 1 \in Stamps
    BY <1>8, StampsGrow DEF Suspend
  <2>2. [rows["card"] EXCEPT !.mark = stamp + 1] \in Rows("card")
    BY <1>8, <2>1, MarkedIsARow DEF Suspend, TypeOK
  <2> QED
    BY <1>8, <2>1, <2>2 DEF Suspend, Write, Outdates, Statement, TypeOK
<1>9. CASE Unsuspend
  <2>1. 0 \in Stamps
    BY EditAssumption DEF Stamps, EditAssumption
  <2>2. [rows["card"] EXCEPT !.mark = 0] \in Rows("card")
    BY <1>9, <2>1, MarkedIsARow DEF Unsuspend, TypeOK
  <2> QED
    BY <1>9, <2>2 DEF Unsuspend, Write, Outdates, Statement, TypeOK
<1>10. CASE DeleteCard
  BY <1>10 DEF DeleteCard, Write, Outdates, Statement, TypeOK
<1>11. CASE DeleteDeck
  BY <1>11 DEF DeleteDeck, Statement, TypeOK
<1>12. CASE UNCHANGED vars
  BY <1>12 DEF vars, TypeOK
<1> QED
  BY <1>1, <1>2, <1>3, <1>4, <1>5, <1>6, <1>7, <1>8, <1>9, <1>10, <1>11, <1>12 DEF Next

(* The handlers keep the shape of rows, requests and copies (handleUpdateCard, *)
(* handleUpdateDeck, UpdateCard, UpdateDeck).                                  *)
THEOREM TypeCorrect == Spec => []TypeOK
  BY InitTypeOK, StepTypeOK, PTL DEF Spec
-----------------------------------------------------------------------------
(* What one step of Next is, for a worker that comes to its answer. *)
LEMMA WhoAnswers ==
  ASSUME TypeOK, Next, NEW w \in Workers, pc[w] # "respond", pc'[w] = "respond"
  PROVE  Read(w) \/ Refuse(w) \/ Update(w) \/ Fail(w)
<1>1. ASSUME NEW v \in Workers, NEW r \in Requests, Receive(v, r) PROVE FALSE
  BY <1>1 DEF Receive, Goto, TypeOK
<1>2. ASSUME NEW v \in Workers, Edit(v) \/ Respond(v) PROVE FALSE
  BY <1>2 DEF Edit, Respond, Goto, TypeOK
<1>3. ASSUME NEW v \in Workers, v # w, Read(v) \/ Refuse(v) \/ Update(v) \/ Fail(v) PROVE FALSE
  BY <1>3 DEF Read, Refuse, Update, Fail, Answer, Goto, TypeOK
<1>4. ASSUME Suspend \/ Unsuspend \/ DeleteCard \/ DeleteDeck PROVE FALSE
  BY <1>4 DEF Suspend, Unsuspend, DeleteCard, DeleteDeck, Statement
<1> QED
  BY <1>1, <1>2, <1>3, <1>4 DEF Next

(* An UPDATE that answers 200 has found the row and written it. *)
LEMMA WhatUpdateWrites ==
  ASSUME TypeOK, NEW w \in Workers, Update(w), status'[w] = 200
  PROVE  /\ req[w] \in Requests /\ req[w].of \in Kinds
         /\ draft[w] \in Rows(req[w].of)
         /\ rows[req[w].of] # Gone /\ rows[req[w].of] \in Rows(req[w].of)
         /\ rows'[req[w].of] = Written(req[w].of, draft[w])
<1>1. req[w] \in Requests /\ req[w].of \in Kinds /\ draft[w] \in Rows(req[w].of)
  BY RequestsHaveAKind DEF Update, TypeOK
<1>2. rows[req[w].of] # Gone
  BY DEF Update, Answer, TypeOK
<1>3. rows[req[w].of] \in Rows(req[w].of)
  BY <1>1, <1>2 DEF TypeOK
<1>4. rows'[req[w].of] = Written(req[w].of, draft[w])
  BY <1>1, <1>2 DEF Update, Write, TypeOK
<1> QED
  BY <1>1, <1>2, <1>3, <1>4

LEMMA WritingIsUpdate ==
  ASSUME TypeOK, Next, NEW w \in Workers, Writing(w)
  PROVE  Update(w) /\ status'[w] = 200
<1>1. Read(w) \/ Refuse(w) \/ Update(w) \/ Fail(w)
  BY WhoAnswers DEF Writing
<1> QED
  BY <1>1 DEF Writing, Read, Refuse, Fail, Answer, TypeOK

(* A write of a card leaves suspended_at alone, a write of either row takes *)
(* the fields from the copy.                                                *)
LEMMA WrittenParts ==
  ASSUME TypeOK, NEW k \in Kinds, NEW copy \in Rows(k), rows[k] \in Rows(k)
  PROVE  /\ Written(k, copy).fields = copy.fields
         /\ k = "card" => Written(k, copy).mark = rows[k].mark
         /\ k # "card" => Written(k, copy).mark = copy.mark
<1>1. CASE k = "card"
  <2>1. rows[k] = [fields |-> rows[k].fields, mark |-> rows[k].mark]
    BY RowsAreRecords
  <2>2. Written(k, copy) = [fields |-> copy.fields, mark |-> rows[k].mark]
    BY <1>1, <2>1 DEF Written
  <2> QED
    BY <1>1, <2>2
<1>2. CASE k # "card"
  BY <1>2 DEF Written
<1> QED
  BY <1>1, <1>2

(* Editing a card never suspends or unsuspends it (handleUpdateCard next to *)
(* handleSuspend and handleUnsuspend), whenever the handler made its copy.  *)
THEOREM CardEditsKeepSuspension == Spec => EditKeepsSuspension
<1>1. TypeOK /\ [Next]_vars =>
        [\A w \in Workers : Writing(w) /\ req[w].of = "card" =>
           rows'["card"].mark = rows["card"].mark]_vars
  <2> SUFFICES ASSUME TypeOK, Next, NEW w \in Workers, Writing(w), req[w].of = "card"
               PROVE  rows'["card"].mark = rows["card"].mark
    BY DEF Writing
  <2>1. Update(w) /\ status'[w] = 200
    BY WritingIsUpdate
  <2> QED
    BY <2>1, WhatUpdateWrites, WrittenParts
<1> QED
  BY <1>1, TypeCorrect, PTL DEF Spec, EditKeepsSuspension

-----------------------------------------------------------------------------
(* As long as nobody has written the row, a worker's copy is what it read   *)
(* and then that with the request's fields in place.                        *)
CopyIsCurrent ==
  \A w \in Workers \ stale :
    /\ pc[w] = "edit"  => draft[w] = rows[req[w].of]
    /\ pc[w] = "write" => draft[w] = Edited(rows[req[w].of], req[w])

(* A copy that a write has not outdated is of the other row. *)
LEMMA OutdatesItsCopies ==
  ASSUME TypeOK, NEW k \in Kinds, NEW row, Write(k, row), Outdates(k),
         NEW v \in Workers, v \notin stale', pc[v] \in {"edit", "write"}
  PROVE  v \notin stale /\ rows'[req[v].of] = rows[req[v].of]
<1>1. v \notin stale /\ req[v].of # k
  BY DEF Outdates
<1>2. req[v].of \in Kinds
  BY RequestsHaveAKind DEF TypeOK
<1> QED
  BY <1>1, <1>2 DEF Write, TypeOK

LEMMA StepCopyIsCurrent == TypeOK /\ CopyIsCurrent /\ [Next]_vars => CopyIsCurrent'
<1> SUFFICES ASSUME TypeOK, CopyIsCurrent, [Next]_vars PROVE CopyIsCurrent'
  OBVIOUS
<1>1. ASSUME NEW w \in Workers, NEW r \in Requests, Receive(w, r) PROVE CopyIsCurrent'
  BY <1>1 DEF Receive, Goto, TypeOK, CopyIsCurrent
<1>2. ASSUME NEW w \in Workers, Read(w) PROVE CopyIsCurrent'
  <2>1. CASE rows[req[w].of] = Gone
    BY <1>2, <2>1 DEF Read, Answer, Goto, TypeOK, CopyIsCurrent
  <2>2. CASE rows[req[w].of] # Gone
    BY <1>2, <2>2 DEF Read, Goto, TypeOK, CopyIsCurrent
  <2> QED
    BY <2>1, <2>2
<1>3. ASSUME NEW w \in Workers, Edit(w) PROVE CopyIsCurrent'
  BY <1>3 DEF Edit, Goto, TypeOK, CopyIsCurrent
<1>4. ASSUME NEW w \in Workers, Refuse(w) \/ Fail(w) PROVE CopyIsCurrent'
  BY <1>4 DEF Refuse, Fail, Answer, Goto, TypeOK, CopyIsCurrent
<1>5. ASSUME NEW w \in Workers, Update(w) PROVE CopyIsCurrent'
  <2>1. CASE rows[req[w].of] = Gone
    BY <1>5, <2>1 DEF Update, Answer, Goto, TypeOK, CopyIsCurrent
  <2>2. CASE rows[req[w].of] # Gone
    <3>1. SUFFICES ASSUME NEW v \in Workers, v \notin stale', pc'[v] \in {"edit", "write"}
                   PROVE  /\ pc'[v] = "edit"  => draft'[v] = rows'[req'[v].of]
                          /\ pc'[v] = "write" => draft'[v] = Edited(rows'[req'[v].of], req'[v])
      BY DEF CopyIsCurrent
    <3>2. pc'[v] = pc[v] /\ draft' = draft /\ req' = req
      BY <1>5, <2>2, <3>1 DEF Update, Answer, Goto, TypeOK
    <3>3. /\ req[w].of \in Kinds /\ Outdates(req[w].of)
          /\ Write(req[w].of, Written(req[w].of, draft[w]))
      BY <1>5, <2>2, RequestsHaveAKind DEF Update, TypeOK
    <3>4. v \notin stale /\ rows'[req[v].of] = rows[req[v].of]
      BY <3>1, <3>2, <3>3, OutdatesItsCopies
    <3> QED
      BY <3>2, <3>4 DEF CopyIsCurrent
  <2> QED
    BY <2>1, <2>2
<1>6. ASSUME NEW w \in Workers, Respond(w) PROVE CopyIsCurrent'
  BY <1>6 DEF Respond, Goto, TypeOK, CopyIsCurrent
<1>7. ASSUME Suspend \/ Unsuspend \/ DeleteCard PROVE CopyIsCurrent'
  <2>1. SUFFICES ASSUME NEW v \in Workers, v \notin stale', pc'[v] \in {"edit", "write"}
                 PROVE  /\ pc'[v] = "edit"  => draft'[v] = rows'[req'[v].of]
                        /\ pc'[v] = "write" => draft'[v] = Edited(rows'[req'[v].of], req'[v])
    BY DEF CopyIsCurrent
  <2>2. pc' = pc /\ draft' = draft /\ req' = req
    BY <1>7 DEF Suspend, Unsuspend, DeleteCard, Statement
  <2>3. v \notin stale /\ rows'[req[v].of] = rows[req[v].of]
    BY <1>7, <2>1, <2>2, OutdatesItsCopies DEF Suspend, Unsuspend, DeleteCard
  <2> QED
    BY <2>1, <2>2, <2>3 DEF CopyIsCurrent
<1>8. CASE DeleteDeck
  BY <1>8 DEF DeleteDeck, Statement, TypeOK, CopyIsCurrent
<1>9. CASE UNCHANGED vars
  BY <1>9 DEF vars, CopyIsCurrent
<1> QED
  BY <1>1, <1>2, <1>3, <1>4, <1>5, <1>6, <1>7, <1>8, <1>9 DEF Next

(* An edit of a current copy changes the fields it names and no other, and  *)
(* moves a mark that is set at most by clearing it.                         *)
LEMMA EditedChangesWhatWasAsked ==
  ASSUME NEW r \in Requests, NEW row \in Rows(r.of)
  PROVE  /\ \A f \in FieldsOf(r.of) \ r.sets : Edited(row, r).fields[f] = row.fields[f]
         /\ \A f \in FieldsOf(r.of) \cap r.sets : Edited(row, r).fields[f] = r.n
         /\ row.mark # 0 /\ Edited(row, r).mark # 0 => Edited(row, r).mark = row.mark
         /\ r.archived = "absent" => Edited(row, r).mark = row.mark
<1>1. DOMAIN row.fields = FieldsOf(r.of)
  BY RowsAreRecords
<1> QED
  BY <1>1 DEF Edited

(* A PATCH changes more than it was asked to only from a copy that another  *)
(* write has outdated (handleUpdateCard, handleUpdateDeck).                 *)
THEOREM EditsChangeWhatWasAsked == Spec => OnlyWhatWasAsked
<1>1. Init => CopyIsCurrent
  BY DEF Init, CopyIsCurrent
<1>2. TypeOK /\ CopyIsCurrent /\ [Next]_vars =>
        [\A w \in Workers : Writing(w) /\ w \notin stale =>
           LET k == req[w].of
               before == rows[k]
               after  == rows'[k]
           IN  /\ \A f \in FieldsOf(k) \ req[w].sets : after.fields[f] = before.fields[f]
               /\ before.mark # 0 /\ after.mark # 0 => after.mark = before.mark
               /\ req[w].archived = "absent" => after.mark = before.mark]_vars
  <2> SUFFICES ASSUME TypeOK, CopyIsCurrent, Next, NEW w \in Workers, Writing(w), w \notin stale
               PROVE  LET k == req[w].of
                          before == rows[k]
                          after  == rows'[k]
                      IN  /\ \A f \in FieldsOf(k) \ req[w].sets :
                               after.fields[f] = before.fields[f]
                          /\ before.mark # 0 /\ after.mark # 0 => after.mark = before.mark
                          /\ req[w].archived = "absent" => after.mark = before.mark
    BY DEF Writing
  <2> DEFINE k == req[w].of
  <2>1. Update(w) /\ status'[w] = 200
    BY WritingIsUpdate
  <2>2. draft[w] = Edited(rows[k], req[w])
    BY <2>1 DEF CopyIsCurrent, Update
  <2>3. /\ req[w] \in Requests /\ k \in Kinds /\ draft[w] \in Rows(k)
        /\ rows[k] \in Rows(k) /\ rows'[k] = Written(k, draft[w])
    BY <2>1, WhatUpdateWrites
  <2>4. /\ rows'[k].fields = draft[w].fields
        /\ rows'[k].mark = rows[k].mark \/ rows'[k].mark = draft[w].mark
    BY <2>3, WrittenParts
  <2> QED
    BY <2>2, <2>3, <2>4, EditedChangesWhatWasAsked
<1> QED
  BY <1>1, <1>2, StepCopyIsCurrent, TypeCorrect, PTL DEF Spec, OnlyWhatWasAsked

(* What a worker is about to write holds what it was asked for, current or  *)
(* not.                                                                     *)
CopyIsEdited ==
  \A w \in Workers : pc[w] = "write" =>
    \A f \in req[w].sets : draft[w].fields[f] = req[w].n

LEMMA StepCopyIsEdited == TypeOK /\ CopyIsEdited /\ [Next]_vars => CopyIsEdited'
<1> SUFFICES ASSUME TypeOK, CopyIsEdited, [Next]_vars PROVE CopyIsEdited'
  OBVIOUS
<1>1. ASSUME NEW w \in Workers, NEW r \in Requests, Receive(w, r) PROVE CopyIsEdited'
  BY <1>1 DEF Receive, Goto, TypeOK, CopyIsEdited
<1>2. ASSUME NEW w \in Workers, Edit(w) PROVE CopyIsEdited'
  <2>1. /\ req[w] \in Requests /\ draft[w] \in Rows(req[w].of)
        /\ req[w].sets \subseteq FieldsOf(req[w].of)
    BY <1>2 DEF Edit, TypeOK, Requests, FieldsOf
  <2>2. \A f \in req[w].sets : Edited(draft[w], req[w]).fields[f] = req[w].n
    BY <2>1, EditedChangesWhatWasAsked
  <2> QED
    BY <1>2, <2>2 DEF Edit, Goto, TypeOK, CopyIsEdited
<1>3. ASSUME NEW w \in Workers, Read(w) \/ Refuse(w) \/ Update(w) \/ Fail(w) \/ Respond(w)
      PROVE  CopyIsEdited'
  BY <1>3 DEF Read, Refuse, Update, Fail, Respond, Answer, Goto, TypeOK, CopyIsEdited
<1>4. ASSUME Suspend \/ Unsuspend \/ DeleteCard \/ DeleteDeck PROVE CopyIsEdited'
  BY <1>4 DEF Suspend, Unsuspend, DeleteCard, DeleteDeck, Statement, CopyIsEdited
<1>5. CASE UNCHANGED vars
  BY <1>5 DEF vars, CopyIsEdited
<1> QED
  BY <1>1, <1>2, <1>3, <1>4, <1>5 DEF Next

(* The status of an edit says what happened to the row: the two PATCH       *)
(* handlers and the count of rows their UPDATE affected.                    *)
THEOREM EditAnswersAreTruthful == Spec => EditsTruthful
<1>1. Init => CopyIsEdited
  BY DEF Init, CopyIsEdited
<1>2. TypeOK /\ CopyIsEdited /\ [Next]_vars =>
        [\A w \in Workers : pc[w] # "respond" /\ pc'[w] = "respond" =>
           IF status'[w] = 200
           THEN /\ rows[req[w].of] # Gone
                /\ \A f \in req[w].sets : rows'[req[w].of].fields[f] = req[w].n
           ELSE rows' = rows]_vars
  <2> SUFFICES ASSUME TypeOK, CopyIsEdited, Next, NEW w \in Workers, pc[w] # "respond", pc'[w] = "respond"
               PROVE  IF status'[w] = 200
                      THEN /\ rows[req[w].of] # Gone
                           /\ \A f \in req[w].sets : rows'[req[w].of].fields[f] = req[w].n
                      ELSE rows' = rows
    OBVIOUS
  <2>1. CASE Read(w) \/ Refuse(w) \/ Fail(w)
    BY <2>1 DEF Read, Refuse, Fail, Answer, Goto, TypeOK
  <2>2. CASE Update(w)
    <3>1. CASE rows[req[w].of] = Gone
      BY <2>2, <3>1 DEF Update, Answer, TypeOK
    <3>2. CASE rows[req[w].of] # Gone
      <4>1. status'[w] = 200
        BY <2>2, <3>2 DEF Update, Answer, TypeOK
      <4>2. rows'[req[w].of].fields = draft[w].fields
        BY <2>2, <4>1, WhatUpdateWrites, WrittenParts
      <4> QED
        BY <2>2, <3>2, <4>1, <4>2 DEF Update, CopyIsEdited
    <3> QED
      BY <3>1, <3>2
  <2> QED
    BY <2>1, <2>2, WhoAnswers
<1> QED
  BY <1>1, <1>2, StepCopyIsEdited, TypeCorrect, PTL DEF Spec, EditsTruthful
=============================================================================
