------------------------------- MODULE Delivery -------------------------------
(***************************************************************************)
(* What the review outbox promises the study screen: a review handed over  *)
(* is pending until the server has applied it or refused it, a refused one *)
(* is kept aside and may be tried again, and none is ever dropped, except  *)
(* that a reload of the page forgets those that are not done.              *)
(* Delivery is at least once: the server may apply a review again later.   *)
(***************************************************************************)
CONSTANT Reviews

VARIABLES
  fate,      \* what has become of each review
  applied    \* the reviews the server has applied, once or more

vars == <<fate, applied>>

Fates == {"unrated", "pending", "failed", "done", "forgotten"}

Init ==
  /\ fate = [r \in Reviews |-> "unrated"]
  /\ applied = {}

Become(r, from, to) ==
  /\ fate[r] = from
  /\ fate' = [fate EXCEPT ![r] = to]

HandOver(r) == Become(r, "unrated", "pending") /\ UNCHANGED applied
SetAside(r) == Become(r, "pending", "failed") /\ UNCHANGED applied
Settle(r)   == r \in applied /\ Become(r, "pending", "done") /\ UNCHANGED applied

RetryFailed ==
  /\ fate' = [r \in Reviews |-> IF fate[r] = "failed" THEN "pending" ELSE fate[r]]
  /\ UNCHANGED applied

Forget ==
  /\ fate' = [r \in Reviews |-> IF fate[r] \in {"pending", "failed"} THEN "forgotten" ELSE fate[r]]
  /\ UNCHANGED applied

(* Also of a review that was applied, set aside or settled before. *)
ServerApplies(r) ==
  /\ fate[r] # "unrated"
  /\ applied' = applied \cup {r}
  /\ UNCHANGED fate

Next ==
  \/ \E r \in Reviews : HandOver(r) \/ SetAside(r) \/ Settle(r) \/ ServerApplies(r)
  \/ RetryFailed \/ Forget

Spec == Init /\ [][Next]_vars
=============================================================================
