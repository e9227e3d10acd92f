---------------------------- MODULE TaskApproval ----------------------------
(***************************************************************************)
(* What ApproveFlow promises about a task, seen from its records alone     *)
(* (docs/product/approveflow-spec.md, "two bilateral bridges"): the agency *)
(* hands a task over, a client accepts it for review and then approves it  *)
(* or asks for changes, and the agency confirms closure.  A decision       *)
(* counts for the round it was taken in: a new handoff starts from nothing.*)
(***************************************************************************)
CONSTANT Tasks

VARIABLE round

Rounds == {"drafting", "sent", "accepted", "approved", "closed", "deleted"}

TypeOK == round \in [Tasks -> Rounds]

Init == round = [t \in Tasks |-> "drafting"]

Move(t, from, to) == round[t] = from /\ round' = [round EXCEPT ![t] = to]

Send(t)           == Move(t, "drafting", "sent")
Recall(t)         == Move(t, "sent",     "drafting")
Accept(t)         == Move(t, "sent",     "accepted")
RequestChanges(t) == Move(t, "accepted", "drafting")
Approve(t)        == Move(t, "accepted", "approved")
Close(t)          == Move(t, "approved", "closed")

DeleteAll == round' = [t \in Tasks |-> "deleted"]

Next ==
  \/ DeleteAll
  \/ \E t \in Tasks : \/ Send(t)    \/ Recall(t)         \/ Accept(t)
                      \/ Approve(t) \/ RequestChanges(t) \/ Close(t)

Spec == Init /\ [][Next]_round
=============================================================================
