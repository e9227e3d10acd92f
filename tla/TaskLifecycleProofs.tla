------------------------ MODULE TaskLifecycleProofs -------------------------
(***************************************************************************)
(* Proofs about TaskLifecycle, for every set of users, tasks, concurrent   *)
(* requests and request bodies, and every bound on logs and changes.       *)
(***************************************************************************)
EXTENDS TaskLifecycle, TaskMatrix, FiniteSetTheorems, TLAPS

-----------------------------------------------------------------------------
(* Facts about the matrix operators.                                       *)

\* resolveTransition yields values of the two record enumerations.
LEMMA EventTypeType == \A f, t : EventType(f, t) \in EventTypes
  BY DEF EventType, EventTypes

\* An approval is one of the two decisions or NULL (resolveTransition).
LEMMA ApprovalTypeType ==
  \A f, t : ApprovalType(f, t) \in ApprovalTypes \cup {NoApproval}
  BY DEF ApprovalType, ApprovalTypes

\* The check of a move has three outcomes (assertTransitionWithPayload).
LEMMA VerdictType ==
  \A w, f, t, c : Verdict(w, f, t, c) \in {"ok", "forbidden", "badrequest"}
  BY DEF Verdict

-----------------------------------------------------------------------------
(* The matrix.                                                             *)

MatrixTypes == group \subseteq Roles /\ current \in Statuses /\ asked \in Statuses

LEMMA MatrixKeepsTypes ==
  /\ MatrixInit => MatrixTypes
  /\ MatrixTypes /\ [MatrixNext]_matrixVars => MatrixTypes'
  BY DEF MatrixInit, MatrixTypes, MatrixNext, AskFor, matrixVars

\* No rule leads from a status to itself, or out of DONE: the first test of
\* assertTransitionWithPayload refuses nothing the matrix allows.
LEMMA RulesMove ==
  \A rule \in TRANSITION_RULES :
    /\ rule.from # rule.to /\ rule.from # "DONE"
    /\ rule.from \in Statuses /\ rule.to \in Statuses
    /\ rule.allowedRoles = AGENCY_ROLES \/ rule.allowedRoles = {"CLIENT_VIEW"}
  BY DEF TRANSITION_RULES, Rule, Statuses

LEMMA AcceptedMoves ==
  ASSUME NEW w, NEW f, NEW t
  PROVE  /\ (Verdict(w, f, t, TRUE) = "ok") <=> CanTransition(w, f, t)
         /\ (Verdict(w, f, t, FALSE) = "badrequest") <=>
              (CanTransition(w, f, t) /\ RequiresComment(f, t))
         /\ (t \in GetAllowedTargetStatuses(w, f)) <=> CanTransition(w, f, t)
  <1>1. CanTransition(w, f, t) => f # t
    BY RulesMove DEF CanTransition
  <1>2. ResolvedRequiresComment(f, t) <=> RequiresComment(f, t)
    BY DEF ResolvedRequiresComment, ApprovalType, RequiresComment, NoApproval
  <1>3. (Verdict(w, f, t, TRUE) = "ok") <=> CanTransition(w, f, t)
    BY <1>1 DEF Verdict
  <1>4. (Verdict(w, f, t, FALSE) = "badrequest") <=>
          (CanTransition(w, f, t) /\ RequiresComment(f, t))
    BY <1>1, <1>2 DEF Verdict
  <1>5. (t \in GetAllowedTargetStatuses(w, f)) <=> CanTransition(w, f, t)
    BY DEF GetAllowedTargetStatuses, CanTransition
  <1>. QED BY <1>3, <1>4, <1>5

LEMMA MovesOfTheMatrix ==
  ASSUME NEW w \in Roles, NEW f \in Statuses, NEW t \in Statuses
  PROVE  CanTransition(w, f, t) <=>
           \/ /\ w \in AGENCY_ROLES
              /\ \/ f = "BRIEF" /\ t = "PRODUCTION"
                 \/ f = "PRODUCTION" /\ t = "INTERNAL_REVIEW"
                 \/ f = "INTERNAL_REVIEW" /\ t \in {"PRODUCTION", "CLIENT_HANDOFF"}
                 \/ f = "CLIENT_HANDOFF" /\ t = "INTERNAL_REVIEW"
                 \/ f = "PENDING_CLOSURE" /\ t = "DONE"
           \/ /\ w = "CLIENT_VIEW"
              /\ \/ f = "CLIENT_HANDOFF" /\ t = "CLIENT_APPROVAL"
                 \/ f = "CLIENT_APPROVAL" /\ t \in {"PENDING_CLOSURE", "PRODUCTION"}
  <1>1. CanTransition(w, f, t) <=> f # "DONE" /\ \E rule \in TRANSITION_RULES :
          rule.from = f /\ rule.to = t /\ w \in rule.allowedRoles
    BY DEF CanTransition
  <1>. QED BY <1>1, SMTT(60) DEF TRANSITION_RULES, Rule, AGENCY_ROLES, Statuses, Roles

\* For every group, status and target, after any number of requests, what the
\* API offers and what it accepts are the same (task-transition.ts).
THEOREM OffersAreAccepted == MatrixSpec => []OffersMatchVerdicts
  <1>1. ASSUME NEW w, NEW f, NEW t, NEW o \in BuildAllowedTransitionTargets(w, f), o.to = t
        PROVE  /\ CanTransition(w, f, t)
               /\ o.requiresComment <=> (Verdict(w, f, t, FALSE) = "badrequest")
    <2>1. PICK s \in GetAllowedTargetStatuses(w, f) :
            o = [to |-> s, requiresComment |-> RequiresComment(f, s)]
      BY <1>1 DEF BuildAllowedTransitionTargets
    <2>2. s = t /\ (o.requiresComment <=> RequiresComment(f, t))
      BY <1>1, <2>1 DEF RequiresComment
    <2>3. CanTransition(w, f, t)
      BY <2>1, <2>2, AcceptedMoves
    <2>. QED BY <2>2, <2>3, AcceptedMoves
  <1>2. ASSUME NEW w, NEW f, NEW t, CanTransition(w, f, t)
        PROVE  {o \in BuildAllowedTransitionTargets(w, f) : o.to = t} # {}
    <2>. DEFINE offer == [to |-> t, requiresComment |-> RequiresComment(f, t)]
    <2>1. t \in GetAllowedTargetStatuses(w, f)
      BY <1>2, AcceptedMoves
    <2>2. offer \in BuildAllowedTransitionTargets(w, f) /\ offer.to = t
      BY <2>1 DEF BuildAllowedTransitionTargets
    <2>. QED BY <2>2
  <1>3. OffersMatchVerdicts
    <2>. SUFFICES ASSUME NEW w \in group
                  PROVE  LET offers == {o \in BuildAllowedTransitionTargets(w, current) :
                                          o.to = asked}
                         IN /\ (offers # {}) <=> (Verdict(w, current, asked, TRUE) = "ok")
                            /\ \A o \in offers : o.requiresComment <=>
                                 (Verdict(w, current, asked, FALSE) = "badrequest")
      BY DEF OffersMatchVerdicts
    <2>. DEFINE offers == {o \in BuildAllowedTransitionTargets(w, current) : o.to = asked}
    <2>1. \A o \in offers : o.requiresComment <=>
            (Verdict(w, current, asked, FALSE) = "badrequest")
      BY <1>1
    <2>2. offers # {} => CanTransition(w, current, asked)
      BY <1>1
    <2>3. CanTransition(w, current, asked) => offers # {}
      BY <1>2
    <2>4. (Verdict(w, current, asked, TRUE) = "ok") <=> CanTransition(w, current, asked)
      BY AcceptedMoves
    <2>. HIDE DEF offers
    <2>5. (offers # {}) <=> (Verdict(w, current, asked, TRUE) = "ok")
      BY <2>2, <2>3, <2>4
    <2>. QED BY <2>1, <2>5 DEF offers
  <1>. QED BY <1>3, PTL

\* From any status, with one agency role and the client's, six moves end in DONE.
LEMMA WayToDone ==
  ASSUME NEW roles, NEW a \in roles, a \in AGENCY_ROLES,
         NEW S \in SUBSET Statuses, ClosedUnderMoves(S, roles)
  PROVE  /\ "PENDING_CLOSURE" \in S => "DONE" \in S
         /\ \A s \in S : "CLIENT_VIEW" \in roles => "DONE" \in S
  <1>. DEFINE Leads(s, t) == s \in S => t \in S
  <1>1. a \in Roles /\ "CLIENT_VIEW" \in Roles
    BY DEF AGENCY_ROLES, Roles
  <1>2. ASSUME NEW s \in Statuses, NEW t \in Statuses, NEW w \in roles, CanTransition(w, s, t)
        PROVE  Leads(s, t)
    <2>1. Verdict(w, s, t, TRUE) = "ok"
      BY <1>2, AcceptedMoves
    <2>. QED BY <2>1 DEF ClosedUnderMoves
  <1>. HIDE DEF Leads
  <1>3. /\ Leads("BRIEF", "PRODUCTION") /\ Leads("PRODUCTION", "INTERNAL_REVIEW")
        /\ Leads("INTERNAL_REVIEW", "CLIENT_HANDOFF") /\ Leads("PENDING_CLOSURE", "DONE")
    BY <1>1, <1>2, MovesOfTheMatrix DEF Statuses
  <1>4. "CLIENT_VIEW" \in roles =>
          /\ Leads("CLIENT_HANDOFF", "CLIENT_APPROVAL")
          /\ Leads("CLIENT_APPROVAL", "PENDING_CLOSURE")
    BY <1>1, <1>2, MovesOfTheMatrix DEF Statuses
  <1>. QED BY <1>3, <1>4 DEF Leads, Statuses

\* For every group of roles and every status: the group can close the task
\* exactly if both sides are in it, or only the agency's confirmation is missing
\* (TRANSITION_RULES of task-transition.ts).
THEOREM MatrixNeedsBothSides == MatrixSpec => []BothSidesCloseATask
  <1>1. ASSUME MatrixTypes
        PROVE  BothSidesCloseATask
    <2>. DEFINE agency == group \cap AGENCY_ROLES # {}
                ends == \/ current = "DONE"
                        \/ current = "PENDING_CLOSURE" /\ agency
                        \/ "CLIENT_VIEW" \in group /\ agency
    <2>1. ASSUME ends
          PROVE  CanReach(current, "DONE", group)
      <3>. SUFFICES ASSUME NEW S \in SUBSET Statuses, current \in S,
                           ClosedUnderMoves(S, group)
                    PROVE  "DONE" \in S
        BY DEF CanReach
      <3>1. CASE current = "DONE"
        BY <3>1
      <3>2. CASE agency /\ (current = "PENDING_CLOSURE" \/ "CLIENT_VIEW" \in group)
        <4>1. PICK a \in group : a \in AGENCY_ROLES
          BY <3>2
        <4>. QED BY <3>2, <4>1, WayToDone
      <3>. QED BY <2>1, <3>1, <3>2
    <2>2. ASSUME ~ends
          PROVE  ~CanReach(current, "DONE", group)
      <3>1. ASSUME NEW S \in SUBSET Statuses, current \in S, "DONE" \notin S,
                   \A s \in S, t \in Statuses, w \in group :
                     CanTransition(w, s, t) => t \in S
            PROVE  ~CanReach(current, "DONE", group)
        <4>1. ASSUME NEW s \in S, NEW t \in Statuses, NEW w \in group,
                     Verdict(w, s, t, TRUE) = "ok"
              PROVE  t \in S
          <5>1. CanTransition(w, s, t)
            BY <4>1, AcceptedMoves
          <5>. QED BY <3>1, <5>1
        <4>2. ClosedUnderMoves(S, group)
          BY <4>1 DEF ClosedUnderMoves
        <4>. QED BY <3>1, <4>2 DEF CanReach
      <3>2. CASE ~agency
        <4>. DEFINE S == Statuses \ {"DONE"}
        <4>1. \A w \in group : w \in Roles /\ w \notin AGENCY_ROLES
          BY <1>1, <3>2 DEF MatrixTypes
        <4>2. ASSUME NEW s \in S, NEW t \in Statuses, NEW w \in group,
                     CanTransition(w, s, t)
              PROVE  t \in S
          BY <4>1, <4>2, MovesOfTheMatrix
        <4>3. current \in S
          BY <1>1, <2>2 DEF MatrixTypes
        <4>4. "DONE" \notin S /\ S \in SUBSET Statuses
          OBVIOUS
        <4>. HIDE DEF S
        <4>. QED BY <3>1, <4>2, <4>3, <4>4
      <3>3. CASE agency
        <4>. DEFINE S == Statuses \ {"PENDING_CLOSURE", "DONE"}
        <4>1. "CLIENT_VIEW" \notin group /\ current \in S
          BY <1>1, <2>2, <3>3 DEF MatrixTypes
        <4>2. ASSUME NEW s \in S, NEW t \in Statuses, NEW w \in group,
                     CanTransition(w, s, t)
              PROVE  t \in S
          <5>1. w \in Roles /\ w # "CLIENT_VIEW" /\ s \in Statuses
            BY <1>1, <4>1 DEF MatrixTypes
          <5>2. s # "PENDING_CLOSURE"
            OBVIOUS
          <5>. QED BY <4>2, <5>1, <5>2, MovesOfTheMatrix
        <4>3. "DONE" \notin S /\ S \in SUBSET Statuses
          OBVIOUS
        <4>. HIDE DEF S
        <4>. QED BY <3>1, <4>1, <4>2, <4>3
      <3>. QED BY <3>2, <3>3
    <2>. QED BY <2>1, <2>2 DEF BothSidesCloseATask
  <1>. QED BY <1>1, MatrixKeepsTypes, PTL DEF MatrixSpec

-----------------------------------------------------------------------------
(* What holds of a request at each place.                                  *)

\* Past the role check the request holds a role, and from loading on a status.
Checked == {"member", "project", "noop", "update", "missed", "mail"} \cup InTx

RequestsCarryChecks ==
  \A r \in Requests :
    /\ pc[r] \in Active  => req[r].from # Gone
    /\ pc[r] \in Checked => req[r].role \in Roles

TypeInv == TypeOK /\ RequestsCarryChecks

\* A fresh project satisfies the typing invariant.
LEMMA InitTypeInv == Init => TypeInv
  <1> USE ConstantsOK
  <1>. SUFFICES ASSUME Init PROVE TypeInv  OBVIOUS
  <1>1. TypeOK
    BY DEF Init, TypeOK, Places, Statuses
  <1>2. RequestsCarryChecks
    BY DEF Init, RequestsCarryChecks, Active, Checked, Reading, InTx
  <1>. QED BY <1>1, <1>2 DEF TypeInv

\* A place and the change to the request that keep the types: the shape of
\* every step of one request.
LEMMA StepOfOneRequest ==
  ASSUME TypeInv, NEW r \in Requests, NEW place \in Places, NEW q,
         Goto(r, place), req' = [req EXCEPT ![r] = q],
         place # "idle"   => q \in RequestRecs,
         place = "idle"   => q = NoRequest,
         place \in Active  => q.from # Gone,
         place \in Checked => q.role \in Roles
  PROVE  /\ pc' \in [Requests -> Places]
         /\ req' \in [Requests -> RequestRecs \cup {NoRequest}]
         /\ \A s \in Requests : pc'[s] # "idle" => req'[s] \in RequestRecs
         /\ RequestsCarryChecks'
  BY DEF TypeInv, TypeOK, RequestsCarryChecks, Goto

\* The same when the request itself does not change.
LEMMA StepWithSameRequest ==
  ASSUME TypeInv, NEW r \in Requests, NEW place \in Places \ {"idle"},
         Goto(r, place), UNCHANGED req, pc[r] \in Active,
         place \in Checked => req[r].role \in Roles
  PROVE  /\ pc' \in [Requests -> Places]
         /\ req' \in [Requests -> RequestRecs \cup {NoRequest}]
         /\ \A s \in Requests : pc'[s] # "idle" => req'[s] \in RequestRecs
         /\ RequestsCarryChecks'
  BY DEF TypeInv, TypeOK, RequestsCarryChecks, Goto, Active, Reading, InTx,
         Places, Answers, Rejections

\* A request that stops before its mail names the handoff it has logged.
LEMMA LoseTrackType ==
  ASSUME TypeInv, NEW r \in Requests, LoseTrack(r)
  PROVE  unmailed' \subseteq [task : Tasks, event : Nat]
  <1>1. pc[r] = "mail" => req[r] \in RequestRecs
    BY DEF TypeInv, TypeOK
  <1>. QED BY <1>1 DEF LoseTrack, RequestRecs, TypeInv, TypeOK

\* A transaction that ends without effect keeps the types.
LEMMA RollbackTypeInv ==
  ASSUME TypeInv, NEW r \in Requests, pc[r] \in Active,
         NEW answer \in {"badrequest", "error"}, Rollback(r, answer)
  PROVE  TypeInv'
  <1>1. /\ answer \in Places \ {"idle"} /\ answer \notin Checked
    BY DEF Places, Answers, Rejections, Checked, InTx
  <1>2. Goto(r, answer) /\ UNCHANGED req
    BY DEF Rollback
  <1>3. rowLock' \in [Tasks -> Requests \cup {None}]
    BY DEF Rollback, TypeInv, TypeOK
  <1>4. unmailed' \subseteq [task : Tasks, event : Nat]
    BY LoseTrackType DEF Rollback
  <1>. QED
    BY <1>1, <1>2, <1>3, <1>4, StepWithSameRequest
       DEF Rollback, TypeInv, TypeOK, access, records

\* So does the choice of recipients inside the transaction.
LEMMA AddressTypeInv ==
  ASSUME TypeInv, NEW r \in Requests, pc[r] \in InTx,
         NEW there \in {"adding", "members", "write"},
         NEW recipients \in SUBSET Users, NEW added \in SUBSET Users,
         Address(r, there, recipients, added)
  PROVE  TypeInv'
  <1>. DEFINE q == [req[r] EXCEPT !.recipients = recipients, !.added = added]
  <1>1. pc[r] # "idle" /\ pc[r] \in Active /\ pc[r] \in Checked
    BY DEF InTx, Active, Checked
  <1>2. req[r] \in RequestRecs /\ req[r].from # Gone /\ req[r].role \in Roles
    BY <1>1 DEF TypeInv, TypeOK, RequestsCarryChecks
  <1>3. q \in RequestRecs /\ q.from # Gone /\ q.role \in Roles
    BY <1>2 DEF RequestRecs
  <1>4. Goto(r, there) /\ req' = [req EXCEPT ![r] = q]
    BY DEF Address
  <1>5. there \in Places \ {"idle"}
    BY DEF Places, Active, InTx
  <1>6. /\ pc' \in [Requests -> Places]
        /\ req' \in [Requests -> RequestRecs \cup {NoRequest}]
        /\ \A s \in Requests : pc'[s] # "idle" => req'[s] \in RequestRecs
        /\ RequestsCarryChecks'
    <2>. HIDE DEF q
    <2>. QED BY <1>3, <1>4, <1>5, StepOfOneRequest
  <1>. QED
    BY <1>6 DEF Address, TypeInv, TypeOK, access, records

-----------------------------------------------------------------------------
(* Every step keeps TypeInv: one lemma per action that writes.             *)

\* Loading the task (loadTask) keeps the typing invariant.
LEMMA ReceiveTypeInv ==
  ASSUME TypeInv, NEW r \in Requests, NEW u \in Users, NEW t \in Tasks,
         NEW body \in Bodies, Receive(r, u, t, body)
  PROVE  TypeInv'
  <1>. DEFINE q == [user |-> u, task |-> t, body |-> body, from |-> status[t],
                    role |-> None, recipients |-> {}, added |-> {},
                    seen |-> Len(events[t]), event |-> 0]
              place == IF TaskExists(t) THEN "loaded" ELSE "notfound"
  <1>1. status[t] \in Statuses \cup {Gone} /\ Len(events[t]) \in Nat
    BY DEF TypeInv, TypeOK
  <1>2. q \in RequestRecs
    BY <1>1 DEF RequestRecs
  <1>3. place \in Places \ {"idle"} /\ place \notin Checked
    BY DEF Places, Active, Reading, Answers, Rejections, Checked, InTx
  <1>4. place \in Active => q.from # Gone
    BY DEF TaskExists, Active, Reading, InTx
  <1>5. Goto(r, place) /\ req' = [req EXCEPT ![r] = q]
    BY DEF Receive, ReadStep
  <1>6. /\ pc' \in [Requests -> Places]
        /\ req' \in [Requests -> RequestRecs \cup {NoRequest}]
        /\ \A s \in Requests : pc'[s] # "idle" => req'[s] \in RequestRecs
        /\ RequestsCarryChecks'
    <2>. HIDE DEF q, place
    <2>. QED BY <1>2, <1>3, <1>4, <1>5, StepOfOneRequest
  <1>. QED
    BY <1>6 DEF Receive, ReadStep, TypeInv, TypeOK, access, records

\* Reading the caller's role (getWorkspaceRole) keeps the typing invariant: only
\* a member gets on to a place where the role is used.
LEMMA ReadRoleTypeInv ==
  ASSUME TypeInv, NEW r \in Requests, ReadRole(r)
  PROVE  TypeInv'
  <1>. DEFINE held  == role[req[r].user]
              q     == [req[r] EXCEPT !.role = held]
              place == IF held = None THEN "forbidden"
                       ELSE IF held \in {"CLIENT_VIEW", "MEMBER"} THEN "member"
                       ELSE "project"
  <1>1. pc[r] = "loaded"
    BY DEF ReadRole, ReadStep
  <1>2. req[r] \in RequestRecs /\ req[r].from # Gone
    BY <1>1 DEF TypeInv, TypeOK, RequestsCarryChecks, Active, Reading
  <1>3. held \in Roles \cup {None}
    BY <1>2 DEF RequestRecs, TypeInv, TypeOK
  <1>4. q \in RequestRecs /\ q.from # Gone /\ q.role = held
    BY <1>2, <1>3 DEF RequestRecs
  <1>5. place \in Places \ {"idle"} /\ (place \in Checked => held \in Roles)
    BY <1>3 DEF Places, Active, Reading, Answers, Rejections, Checked, InTx
  <1>6. Goto(r, place) /\ req' = [req EXCEPT ![r] = q]
    BY DEF ReadRole, ReadStep
  <1>7. /\ pc' \in [Requests -> Places]
        /\ req' \in [Requests -> RequestRecs \cup {NoRequest}]
        /\ \A s \in Requests : pc'[s] # "idle" => req'[s] \in RequestRecs
        /\ RequestsCarryChecks'
    <2>. HIDE DEF q, place, held
    <2>. QED BY <1>4, <1>5, <1>6, StepOfOneRequest
  <1>. QED
    BY <1>7 DEF ReadRole, ReadStep, TypeInv, TypeOK, access, records

\* The steps that read the database and only move the request on.
LEMMA ReadStepTypeInv ==
  ASSUME TypeInv, NEW r \in Requests, NEW here \in Active,
         NEW there \in Places \ {"idle"}, ReadStep(r, here, there), UNCHANGED req,
         there \in Checked => here \in Checked
  PROVE  TypeInv'
  <1>1. pc[r] \in Active /\ Goto(r, there)
        /\ (there \in Checked => req[r].role \in Roles)
    BY DEF ReadStep, TypeInv, RequestsCarryChecks
  <1>. QED
    BY <1>1, StepWithSameRequest
       DEF ReadStep, TypeInv, TypeOK, access, records

\* The checks, the no-op and the missed update keep the typing invariant.
LEMMA ReadingTypeInv ==
  ASSUME TypeInv, NEW r \in Requests,
         \/ CheckMembership(r) \/ CheckProject(r) \/ AnswerNoop(r)
         \/ CasMiss(r) \/ Reread(r)
  PROVE  TypeInv'
  <1>. USE ReadStepTypeInv
       DEF Places, Active, Reading, Answers, Rejections, Checked, InTx
  <1>1. CASE CheckMembership(r)  BY <1>1 DEF CheckMembership
  <1>2. CASE CheckProject(r)
    <2>. DEFINE verdict ==
           Verdict(req[r].role, req[r].from, Wants(r), req[r].body.comment)
         place == IF ~ProjectExists THEN "notfound"
                  ELSE IF req[r].from = Wants(r) THEN "noop"
                  ELSE IF verdict = "ok" THEN "update"
                  ELSE verdict
    <2>1. verdict \in {"ok", "forbidden", "badrequest"}
      BY VerdictType
    <2>2. ReadStep(r, "project", place) /\ UNCHANGED req
      BY <1>2 DEF CheckProject
    <2>. HIDE DEF verdict
    <2>3. place \in Places \ {"idle"}
      BY <2>1
    <2>. HIDE DEF place
    <2>. QED BY <2>2, <2>3
  <1>3. CASE AnswerNoop(r)  BY <1>3 DEF AnswerNoop
  <1>4. CASE CasMiss(r)     BY <1>4 DEF CasMiss
  <1>5. CASE Reread(r)      BY <1>5 DEF Reread
  <1>. QED BY <1>1, <1>2, <1>3, <1>4, <1>5

\* The successful compare-and-set keeps the typing invariant.
LEMMA CasHitTypeInv ==
  ASSUME TypeInv, NEW r \in Requests, CasHit(r)
  PROVE  TypeInv'
  <1>. DEFINE place == IF IsHandoff(r) THEN "clients" ELSE "write"
  <1>1. pc[r] = "update" /\ Goto(r, place) /\ UNCHANGED req
    BY DEF CasHit
  <1>2. /\ pc[r] \in Active /\ req[r].role \in Roles
        /\ place \in Places \ {"idle"}
    BY <1>1 DEF TypeInv, RequestsCarryChecks, Active, Reading, Checked, Places, InTx
  <1>3. rowLock' \in [Tasks -> Requests \cup {None}]
    BY DEF CasHit, TypeInv, TypeOK
  <1>. QED
    BY <1>1, <1>2, <1>3, StepWithSameRequest
       DEF CasHit, TypeInv, TypeOK, access, records

\* Finding the clients of a handoff keeps the typing invariant.
LEMMA FindClientsTypeInv ==
  ASSUME TypeInv, NEW r \in Requests,
         FindNamedClients(r) \/ AddNamedClients(r) \/ FindAllClients(r)
           \/ KeepProjectClients(r)
  PROVE  TypeInv'
  <1>1. pc[r] \in InTx /\ pc[r] # "idle" /\ pc[r] \in Active
    BY DEF FindNamedClients, AddNamedClients, FindAllClients, KeepProjectClients, InTx, Active
  <1>2. req[r] \in RequestRecs
    BY <1>1 DEF TypeInv, TypeOK
  <1>3. /\ req[r].body.clients \subseteq Users
        /\ req[r].recipients \subseteq Users
        /\ Clients \subseteq Users
    BY <1>2, ConstantsOK DEF RequestRecs, Clients
  <1>. QED
    BY <1>1, <1>3, AddressTypeInv, RollbackTypeInv
       DEF FindNamedClients, AddNamedClients, FindAllClients, KeepProjectClients

\* The commit writes rows of the right types and a status of the enumeration.
LEMMA CommitTypeInv ==
  ASSUME TypeInv, NEW r \in Requests, Commit(r)
  PROVE  TypeInv'
  <1>. DEFINE t == req[r].task
              u == req[r].user
              type == EventType(req[r].from, Wants(r))
              approval == ApprovalType(req[r].from, Wants(r))
              id == Len(events[t]) + 1
              row == [from |-> req[r].from, to |-> Wants(r), type |-> type,
                      approval |-> approval, comment |-> req[r].body.comment,
                      actor |-> u, role |-> req[r].role]
              q == [req[r] EXCEPT !.event = id]
              place == IF IsHandoff(r) /\ req[r].recipients # {}
                       THEN "mail" ELSE "ok"
  <1>1. pc[r] = "write"
    BY DEF Commit
  <1>2. /\ req[r] \in RequestRecs /\ req[r].from # Gone /\ req[r].role \in Roles
    BY <1>1 DEF TypeInv, TypeOK, RequestsCarryChecks, Active, Checked, InTx
  <1>3. /\ t \in Tasks /\ u \in Users
        /\ req[r].from \in Statuses /\ Wants(r) \in Statuses
        /\ req[r].body.comment \in BOOLEAN
        /\ req[r].added \subseteq Users /\ req[r].recipients \subseteq Users
    BY <1>2, ConstantsOK DEF RequestRecs, Wants
  <1>4. id \in Nat
    BY <1>3 DEF TypeInv, TypeOK
  <1>5. row \in EventRows
    BY <1>2, <1>3, EventTypeType, ApprovalTypeType DEF EventRows
  <1>6. q \in RequestRecs /\ q.from # Gone /\ q.role \in Roles
    BY <1>2, <1>4 DEF RequestRecs
  <1>7. place \in Places \ {"idle"}
    BY DEF Places, Active, Answers
  <1>8. Goto(r, place) /\ req' = [req EXCEPT ![r] = q]
    BY DEF Commit
  <1>9. /\ pc' \in [Requests -> Places]
        /\ req' \in [Requests -> RequestRecs \cup {NoRequest}]
        /\ \A s \in Requests : pc'[s] # "idle" => req'[s] \in RequestRecs
        /\ RequestsCarryChecks'
    <2>. HIDE DEF q, place
    <2>. QED BY <1>6, <1>7, <1>8, StepOfOneRequest
  <1>10. events' \in [Tasks -> Seq(EventRows)]
    <2>1. events' = [events EXCEPT ![t] = Append(@, row)]
      BY DEF Commit
    <2>. HIDE DEF row, t
    <2>. QED BY <1>3, <1>5, <2>1 DEF TypeInv, TypeOK
  <1>11. acks' \subseteq AckRows
    BY <1>3, <1>4 DEF Commit, AckRows, TypeInv, TypeOK
  <1>12. approvals' \subseteq ApprovalRows
    <2>1. approval # NoApproval => approval \in ApprovalTypes
      BY ApprovalTypeType
    <2>2. approvals' = approvals \cup
            (IF type = "CLIENT_APPROVAL" /\ approval # NoApproval
             THEN {[task |-> t, event |-> id, actor |-> u, action |-> approval]}
             ELSE {})
      BY DEF Commit
    <2>. HIDE DEF approval, id, t, u, type
    <2>. QED BY <1>3, <1>4, <2>1, <2>2 DEF ApprovalRows, TypeInv, TypeOK
  <1>13. changeNotes' \in [Tasks -> Nat]
    BY <1>3 DEF Commit, TypeInv, TypeOK
  <1>14. notices' \subseteq NoticeRows
    <2>1. NoticeReaders(r) \subseteq Users
      BY <1>3 DEF NoticeReaders
    <2>2. notices' = notices \cup
            {[task |-> t, event |-> id, user |-> v] : v \in NoticeReaders(r)}
      BY DEF Commit
    <2>. HIDE DEF id, t
    <2>. QED BY <1>3, <1>4, <2>1, <2>2 DEF NoticeRows, TypeInv, TypeOK
  <1>15. /\ status' \in [Tasks -> Statuses \cup {Gone}]
         /\ rowLock' \in [Tasks -> Requests \cup {None}]
         /\ projectMembers' \subseteq Users
         /\ UNCHANGED <<role, changes, outbox, unmailed>>
    BY <1>3 DEF Commit, TypeInv, TypeOK
  <1>. QED
    BY <1>9, <1>10, <1>11, <1>12, <1>13, <1>14, <1>15 DEF TypeInv, TypeOK

\* The outbox row of a handoff is well formed, and so is the note of a lost one.
LEMMA MailTypeInv ==
  ASSUME TypeInv, NEW r \in Requests, EnqueueMail(r) \/ LoseMail(r)
  PROVE  TypeInv'
  <1>1. pc[r] = "mail" /\ Goto(r, "ok") /\ UNCHANGED req
    BY DEF EnqueueMail, LoseMail
  <1>2. pc[r] \in Active /\ "ok" \in Places \ {"idle"} /\ "ok" \notin Checked
    BY <1>1 DEF Active, Places, Answers, Checked, InTx
  <1>3. req[r] \in RequestRecs
    BY <1>1 DEF TypeInv, TypeOK
  <1>4. outbox' \subseteq OutboxRows
    BY <1>3 DEF EnqueueMail, LoseMail, OutboxRows, RequestRecs, TypeInv, TypeOK
  <1>5. unmailed' \subseteq [task : Tasks, event : Nat]
    BY LoseTrackType DEF EnqueueMail, LoseMail, TypeInv, TypeOK
  <1>6. UNCHANGED <<access, status, records, rowLock>>
    BY DEF EnqueueMail, LoseMail
  <1>7. /\ pc' \in [Requests -> Places]
        /\ req' \in [Requests -> RequestRecs \cup {NoRequest}]
        /\ \A s \in Requests : pc'[s] # "idle" => req'[s] \in RequestRecs
        /\ RequestsCarryChecks'
    BY <1>1, <1>2, StepWithSameRequest
  <1>. QED
    BY <1>4, <1>5, <1>6, <1>7 DEF TypeInv, TypeOK, access, records

\* Sending the response frees the slot and keeps the typing invariant.
LEMMA ReturnTypeInv ==
  ASSUME TypeInv, NEW r \in Requests, Return(r)
  PROVE  TypeInv'
  <1>1. "idle" \in Places /\ "idle" \notin Active \cup Checked
    BY DEF Places, Active, Reading, Checked, InTx
  <1>. QED
    BY <1>1, StepOfOneRequest
       DEF Return, TypeInv, TypeOK, access, records

\* Changes of roles and members and the project's deletion keep the typing
\* invariant.
LEMMA EnvironmentTypeInv ==
  ASSUME TypeInv, Environment
  PROVE  TypeInv'
  <1>1. CASE DeleteProject
    BY <1>1, ConstantsOK DEF DeleteProject, Change, TypeInv, TypeOK, RequestsCarryChecks
  <1>2. ASSUME NEW u \in Users, AddProjectMember(u) \/ RemoveProjectMember(u)
        PROVE  TypeInv'
    BY <1>2, ConstantsOK DEF AddProjectMember, RemoveProjectMember, Change, TypeInv, TypeOK,
                RequestsCarryChecks, records
  <1>3. ASSUME NEW u \in Users, NEW to \in NewRoles, SetRole(u, to)
        PROVE  TypeInv'
    BY <1>3, ConstantsOK DEF SetRole, Change, TypeInv, TypeOK, RequestsCarryChecks,
                             records
  <1>. QED BY <1>1, <1>2, <1>3 DEF Environment

\* Every step keeps the typing invariant.
LEMMA NextTypeInv ==
  ASSUME TypeInv, [Next]_vars
  PROVE  TypeInv'
  <1>1. CASE Environment  BY <1>1, EnvironmentTypeInv
  <1>2. ASSUME NEW r \in Requests, NEW u \in Users, NEW t \in Tasks,
               NEW body \in Bodies, Receive(r, u, t, body)
        PROVE  TypeInv'
    BY <1>2, ReceiveTypeInv
  <1>3. ASSUME NEW r \in Requests, Advance(r)
        PROVE  TypeInv'
    BY <1>3, ReadRoleTypeInv, ReadingTypeInv, FindClientsTypeInv, CommitTypeInv,
       MailTypeInv DEF Advance
  <1>4. ASSUME NEW r \in Requests, Cas(r)
        PROVE  TypeInv'
    BY <1>4, CasHitTypeInv, ReadingTypeInv DEF Cas
  <1>5. ASSUME NEW r \in Requests, Fail(r)
        PROVE  TypeInv'
    BY <1>5, RollbackTypeInv DEF Fail
  <1>6. ASSUME NEW r \in Requests, Return(r)
        PROVE  TypeInv'
    BY <1>6, ReturnTypeInv
  <1>7. CASE UNCHANGED vars
    BY <1>7 DEF vars, access, records, TypeInv, TypeOK, RequestsCarryChecks
  <1>. QED BY <1>1, <1>2, <1>3, <1>4, <1>5, <1>6, <1>7 DEF Next

\* Type correctness: every variable keeps its type in every behaviour.
THEOREM TypeCorrect == Spec => []TypeOK
  <1>1. Init => TypeInv  BY InitTypeInv
  <1>2. TypeInv /\ [Next]_vars => TypeInv'  BY NextTypeInv
  <1>3. TypeInv => TypeOK  BY DEF TypeInv
  <1>. QED BY <1>1, <1>2, <1>3, PTL DEF Spec

-----------------------------------------------------------------------------
(* The log explains the status.  HistoryExplainsStatus alone is not        *)
(* inductive: that Commit logs the status the task really has needs the    *)
(* row lock, which keeps the status still from the compare-and-set to the  *)
(* end of the transaction.                                                 *)

LockKeepsStatus ==
  \A r \in Requests : pc[r] \in InTx =>
    /\ rowLock[req[r].task] = r
    /\ status[req[r].task] = req[r].from

HistoryInv == TypeInv /\ LockKeepsStatus /\ HistoryExplainsStatus

\* Steps that leave rows, locks and open transactions as they are.
Quiet ==
  /\ UNCHANGED <<status, events, rowLock>>
  /\ \A s \in Requests : pc'[s] \in InTx =>
       /\ pc[s] \in InTx
       /\ req'[s].task = req[s].task /\ req'[s].from = req[s].from

\* A quiet step keeps the history invariant.
LEMMA QuietHistoryInv ==
  ASSUME HistoryInv, TypeInv', Quiet
  PROVE  HistoryInv'
  BY DEF HistoryInv, LockKeepsStatus, HistoryExplainsStatus, Quiet,
         TaskExists, StatusAfter, StatusBefore

\* Choosing the recipients of a handoff is quiet.
LEMMA AddressIsQuiet ==
  ASSUME TypeInv, NEW r \in Requests, pc[r] \in InTx,
         NEW there, NEW recipients, NEW added, Address(r, there, recipients, added)
  PROVE  Quiet
  <1>1. req[r] \in RequestRecs
    BY DEF TypeInv, TypeOK, InTx
  <1>2. /\ req'[r].task = req[r].task /\ req'[r].from = req[r].from
        /\ \A s \in Requests \ {r} : pc'[s] = pc[s] /\ req'[s] = req[s]
    BY <1>1 DEF Address, Goto, TypeInv, TypeOK, RequestRecs
  <1>. QED BY <1>2 DEF Address, Quiet, records

\* So is every step of a request outside its transaction, except the
\* compare-and-set that succeeds.
LEMMA RequestStepIsQuiet ==
  ASSUME TypeInv, NEW r \in Requests,
         \/ \E u \in Users, t \in Tasks, body \in Bodies : Receive(r, u, t, body)
         \/ ReadRole(r) \/ CheckMembership(r) \/ CheckProject(r) \/ AnswerNoop(r)
         \/ CasMiss(r) \/ Reread(r) \/ LoseMail(r) \/ EnqueueMail(r) \/ Return(r)
  PROVE  Quiet
  <1>1. PICK place : Goto(r, place) /\ place \notin InTx
    BY VerdictType DEF Receive, ReadRole, CheckMembership, CheckProject, AnswerNoop,
       CasMiss, Reread, LoseMail, EnqueueMail, Return, ReadStep, InTx
  <1>2. \A s \in Requests \ {r} : pc'[s] = pc[s] /\ req'[s] = req[s]
    BY <1>1 DEF Receive, ReadRole, CheckMembership, CheckProject, AnswerNoop,
       CasMiss, Reread, LoseMail, EnqueueMail, Return, Goto, TypeInv, TypeOK
  <1>3. pc'[r] \notin InTx
    BY <1>1 DEF Goto, TypeInv, TypeOK
  <1>4. UNCHANGED <<status, events, rowLock>>
    BY DEF Receive, ReadRole, CheckMembership, CheckProject, AnswerNoop,
       CasMiss, Reread, LoseMail, EnqueueMail, Return, ReadStep, records
  <1>. QED BY <1>2, <1>3, <1>4 DEF Quiet

\* The compare-and-set takes a free row in the status it was decided on, so the
\* lock invariant holds for the new transaction and for the others.
LEMMA CasHitHistoryInv ==
  ASSUME HistoryInv, TypeInv', NEW r \in Requests, CasHit(r)
  PROVE  HistoryInv'
  <1>1. /\ rowLock[req[r].task] = None
        /\ status[req[r].task] = req[r].from
        /\ rowLock' = [rowLock EXCEPT ![req[r].task] = r]
        /\ UNCHANGED <<status, events, req>>
    BY DEF CasHit, CasMatches, records
  <1>2. \A s \in Requests \ {r} : pc'[s] = pc[s]
    BY DEF CasHit, Goto, HistoryInv, TypeInv, TypeOK
  <1>3. req[r] \in RequestRecs
    BY DEF CasHit, HistoryInv, TypeInv, TypeOK
  <1>4. LockKeepsStatus'
    <2>. SUFFICES ASSUME NEW s \in Requests, pc'[s] \in InTx
                  PROVE  /\ rowLock'[req'[s].task] = s
                         /\ status'[req'[s].task] = req'[s].from
      BY DEF LockKeepsStatus
    <2>1. CASE s = r
      BY <1>1, <1>3, <2>1 DEF HistoryInv, TypeInv, TypeOK, RequestRecs
    <2>2. CASE s # r
      <3>1. rowLock[req[s].task] = s /\ status[req[s].task] = req[s].from
        BY <1>2, <2>2 DEF HistoryInv, LockKeepsStatus
      <3>2. req[s].task # req[r].task
        BY <1>1, <3>1, ConstantsOK
      <3>. QED BY <1>1, <3>1, <3>2 DEF HistoryInv, TypeInv, TypeOK
    <2>. QED BY <2>1, <2>2
  <1>. QED
    BY <1>1, <1>4 DEF HistoryInv, HistoryExplainsStatus, TaskExists,
                      StatusAfter, StatusBefore

\* A rollback gives up the request's own lock and nothing else.
LEMMA RollbackHistoryInv ==
  ASSUME HistoryInv, TypeInv', NEW r \in Requests,
         NEW answer \in {"badrequest", "error"}, Rollback(r, answer)
  PROVE  HistoryInv'
  <1>1. /\ UNCHANGED <<status, events, req>>
        /\ pc'[r] \notin InTx
        /\ \A s \in Requests \ {r} : pc'[s] = pc[s]
        /\ \A t \in Tasks : rowLock[t] # r => rowLock'[t] = rowLock[t]
    BY DEF Rollback, Goto, HistoryInv, TypeInv, TypeOK, InTx, records
  <1>2. LockKeepsStatus'
    <2>. SUFFICES ASSUME NEW s \in Requests, pc'[s] \in InTx
                  PROVE  /\ rowLock'[req'[s].task] = s
                         /\ status'[req'[s].task] = req'[s].from
      BY DEF LockKeepsStatus
    <2>1. s # r /\ pc[s] \in InTx
      BY <1>1
    <2>2. req[s] \in RequestRecs
      BY <2>1 DEF HistoryInv, TypeInv, TypeOK, InTx
    <2>3. rowLock[req[s].task] = s /\ status[req[s].task] = req[s].from
      BY <2>1 DEF HistoryInv, LockKeepsStatus
    <2>. QED BY <1>1, <2>1, <2>2, <2>3 DEF RequestRecs
  <1>. QED
    BY <1>1, <1>2 DEF HistoryInv, HistoryExplainsStatus, TaskExists,
                      StatusAfter, StatusBefore

\* Appending a move away from the last status extends the chain.
LEMMA ChainAppend ==
  ASSUME NEW log \in Seq(EventRows), NEW row \in EventRows,
         row.from = StatusAfter(log),
         \A i \in 1..Len(log) : log[i].from = StatusBefore(log, i),
         NEW new, new = Append(log, row)
  PROVE  /\ StatusAfter(new) = row.to
         /\ \A i \in 1..Len(new) : new[i].from = StatusBefore(new, i)
  BY DEF StatusAfter, StatusBefore

\* The commit logs a move away from the status the task really has, because its
\* transaction held the row since the compare-and-set.
LEMMA CommitHistoryInv ==
  ASSUME HistoryInv, TypeInv', NEW r \in Requests, Commit(r)
  PROVE  HistoryInv'
  <1>. DEFINE t == req[r].task
              row == [from |-> req[r].from, to |-> Wants(r),
                      type |-> EventType(req[r].from, Wants(r)),
                      approval |-> ApprovalType(req[r].from, Wants(r)),
                      comment |-> req[r].body.comment,
                      actor |-> req[r].user, role |-> req[r].role]
  <1>1. pc[r] = "write" /\ pc[r] \in InTx
    BY DEF Commit, InTx
  <1>2. /\ req[r] \in RequestRecs /\ t \in Tasks
        /\ req[r].from # Gone /\ req[r].role \in Roles
    BY <1>1 DEF HistoryInv, TypeInv, TypeOK, RequestsCarryChecks, Active, Checked,
                InTx, RequestRecs
  <1>3. rowLock[t] = r /\ status[t] = req[r].from
    BY <1>1 DEF HistoryInv, LockKeepsStatus
  <1>4. row \in EventRows /\ row.from = req[r].from /\ row.to = Wants(r)
    BY <1>2, ConstantsOK, EventTypeType, ApprovalTypeType
       DEF EventRows, RequestRecs, Wants
  <1>5. /\ events' = [events EXCEPT ![t] = Append(@, row)]
        /\ status' = [status EXCEPT ![t] = Wants(r)]
        /\ rowLock' = [rowLock EXCEPT ![t] = None]
        /\ req' = [req EXCEPT ![r].event = Len(events[t]) + 1]
    BY DEF Commit
  <1>6. /\ pc'[r] \notin InTx
        /\ \A s \in Requests \ {r} : pc'[s] = pc[s] /\ req'[s] = req[s]
    BY DEF Commit, Goto, HistoryInv, TypeInv, TypeOK, InTx
  <1>7. LockKeepsStatus'
    <2>. SUFFICES ASSUME NEW s \in Requests, pc'[s] \in InTx
                  PROVE  /\ rowLock'[req'[s].task] = s
                         /\ status'[req'[s].task] = req'[s].from
      BY DEF LockKeepsStatus
    <2>1. s # r /\ pc[s] \in InTx /\ req'[s] = req[s]
      BY <1>6
    <2>2. rowLock[req[s].task] = s /\ status[req[s].task] = req[s].from
      BY <2>1 DEF HistoryInv, LockKeepsStatus
    <2>3. req[s].task # t
      BY <1>3, <2>1, <2>2
    <2>. HIDE DEF t
    <2>. QED BY <1>5, <2>1, <2>2, <2>3 DEF HistoryInv, TypeInv, TypeOK
  <1>8. HistoryExplainsStatus'
    <2>. SUFFICES ASSUME NEW x \in Tasks, TaskExists(x)'
                  PROVE  /\ status'[x] = StatusAfter(events'[x])
                         /\ \A i \in 1..Len(events'[x]) :
                              events'[x][i].from = StatusBefore(events'[x], i)
      BY DEF HistoryExplainsStatus
    <2>. HIDE DEF row, t
    <2>1. CASE x = t
      <3>1. /\ status[t] = StatusAfter(events[t])
            /\ \A i \in 1..Len(events[t]) :
                 events[t][i].from = StatusBefore(events[t], i)
        BY <1>2, <1>3 DEF HistoryInv, HistoryExplainsStatus, TaskExists
      <3>2. events[t] \in Seq(EventRows) /\ events'[t] = Append(events[t], row)
        BY <1>2, <1>5 DEF HistoryInv, TypeInv, TypeOK
      <3>3. status'[t] = row.to
        BY <1>2, <1>4, <1>5 DEF HistoryInv, TypeInv, TypeOK
      <3>. QED BY <1>3, <1>4, <2>1, <3>1, <3>2, <3>3, ChainAppend
    <2>2. CASE x # t
      <3>1. status'[x] = status[x] /\ events'[x] = events[x]
        BY <1>5, <2>2 DEF HistoryInv, TypeInv, TypeOK
      <3>. QED BY <3>1 DEF HistoryInv, HistoryExplainsStatus, TaskExists
    <2>. QED BY <2>1, <2>2
  <1>. QED BY <1>7, <1>8 DEF HistoryInv

\* The project's deletion waits for the locked rows, so no transaction is left
\* with a deleted task; the other changes are quiet.
LEMMA EnvironmentHistoryInv ==
  ASSUME HistoryInv, TypeInv', Environment
  PROVE  HistoryInv'
  <1>1. CASE DeleteProject
    <2>1. ASSUME NEW s \in Requests, pc'[s] \in InTx
          PROVE  FALSE
      <3>1. pc[s] \in InTx /\ pc[s] # "idle"
        BY <1>1, <2>1 DEF DeleteProject, InTx
      <3>2. req[s].task \in Tasks
        BY <3>1 DEF HistoryInv, TypeInv, TypeOK, RequestRecs
      <3>3. rowLock[req[s].task] = s
        BY <3>1 DEF HistoryInv, LockKeepsStatus
      <3>. QED BY <1>1, <3>2, <3>3, ConstantsOK DEF DeleteProject
    <2>2. \A t \in Tasks : status'[t] = Gone
      BY <1>1 DEF DeleteProject
    <2>. QED BY <2>1, <2>2 DEF HistoryInv, LockKeepsStatus, HistoryExplainsStatus,
                               TaskExists
  <1>2. CASE ~DeleteProject
    <2>1. Quiet
      BY <1>2 DEF Environment, AddProjectMember, RemoveProjectMember, SetRole, Quiet,
                  records
    <2>. QED BY <2>1, QuietHistoryInv
  <1>. QED BY <1>1, <1>2

\* Every step keeps the history invariant.
LEMMA NextHistoryInv ==
  ASSUME HistoryInv, [Next]_vars
  PROVE  HistoryInv'
  <1>1. TypeInv /\ TypeInv'
    BY NextTypeInv DEF HistoryInv
  <1>2. CASE Environment
    BY <1>1, <1>2, EnvironmentHistoryInv
  <1>3. ASSUME NEW r \in Requests,
               \/ \E u \in Users, t \in Tasks, body \in Bodies : Receive(r, u, t, body)
               \/ Return(r)
        PROVE  HistoryInv'
    BY <1>1, <1>3, RequestStepIsQuiet, QuietHistoryInv
  <1>4. ASSUME NEW r \in Requests, Cas(r)
        PROVE  HistoryInv'
    BY <1>1, <1>4, CasHitHistoryInv, RequestStepIsQuiet, QuietHistoryInv DEF Cas
  <1>5. ASSUME NEW r \in Requests, Fail(r)
        PROVE  HistoryInv'
    BY <1>1, <1>5, RollbackHistoryInv DEF Fail
  <1>6. ASSUME NEW r \in Requests, Advance(r)
        PROVE  HistoryInv'
    <2>1. CASE Commit(r)
      BY <1>1, <2>1, CommitHistoryInv
    <2>2. CASE FindNamedClients(r) \/ AddNamedClients(r) \/ FindAllClients(r)
                 \/ KeepProjectClients(r)
      <3>1. pc[r] \in InTx
        BY <2>2 DEF FindNamedClients, AddNamedClients, FindAllClients, KeepProjectClients, InTx
      <3>2. \/ Rollback(r, "badrequest")
            \/ \E there, recipients, added : Address(r, there, recipients, added)
        BY <2>2 DEF FindNamedClients, AddNamedClients, FindAllClients, KeepProjectClients
      <3>. QED BY <1>1, <3>1, <3>2, RollbackHistoryInv, AddressIsQuiet, QuietHistoryInv
    <2>3. CASE ~(Commit(r) \/ FindNamedClients(r) \/ AddNamedClients(r) \/ FindAllClients(r)
                   \/ KeepProjectClients(r))
      BY <1>1, <1>6, <2>3, RequestStepIsQuiet, QuietHistoryInv DEF Advance
    <2>. QED BY <2>1, <2>2, <2>3
  <1>7. CASE UNCHANGED vars
    BY <1>1, <1>7, QuietHistoryInv DEF vars, access, records, Quiet
  <1>. QED BY <1>2, <1>3, <1>4, <1>5, <1>6, <1>7 DEF Next

\* The log of a task is a gapless chain that ends in the task's status: with
\* any number of concurrent requests, role changes and failures, the
\* compare-and-set lets one move away from each visit to a status.
THEOREM HistorySafe == Spec => []HistoryExplainsStatus
  <1>1. Init => HistoryInv
    BY InitTypeInv DEF Init, HistoryInv, LockKeepsStatus, HistoryExplainsStatus,
       StatusAfter, InTx
  <1>2. HistoryInv /\ [Next]_vars => HistoryInv'  BY NextHistoryInv
  <1>3. HistoryInv => HistoryExplainsStatus  BY DEF HistoryInv
  <1>. QED BY <1>1, <1>2, <1>3, PTL DEF Spec

-----------------------------------------------------------------------------
(* Who holds the locks.  LockKeepsStatus says that a transaction has its   *)
(* row's lock; LocksAreOwned that no other lock is held.                   *)

\* A task's row is locked exactly by the transaction at work on it: none works
\* without the lock, and none that ends, in whatever way, leaves it behind.
LocksAreHeld ==
  \A t \in Tasks, r \in Requests :
    rowLock[t] = r <=> (pc[r] \in InTx /\ req[r].task = t)

LocksAreOwned ==
  \A t \in Tasks, r \in Requests :
    rowLock[t] = r => pc[r] \in InTx /\ req[r].task = t

LockInv == HistoryInv /\ LocksAreOwned

\* Steps that leave the locks and the open transactions as they are.
LEMMA LocksStay ==
  ASSUME LocksAreOwned, rowLock' = rowLock,
         \A s \in Requests : pc[s] \in InTx =>
           pc'[s] \in InTx /\ req'[s].task = req[s].task
  PROVE  LocksAreOwned'
  BY DEF LocksAreOwned

\* Every step keeps the locks with their transactions: the compare-and-set takes
\* one, and a transaction that ends gives up the one it has.
LEMMA NextLocks ==
  ASSUME LockInv, [Next]_vars
  PROVE  LocksAreOwned'
  <1>1. TypeInv /\ LocksAreOwned
    BY DEF LockInv, HistoryInv
  <1>2. ASSUME NEW r \in Requests,
               \/ \E u \in Users, t \in Tasks, body \in Bodies : Receive(r, u, t, body)
               \/ ReadRole(r) \/ CheckMembership(r) \/ CheckProject(r) \/ AnswerNoop(r)
               \/ CasMiss(r) \/ Reread(r) \/ LoseMail(r) \/ EnqueueMail(r) \/ Return(r)
        PROVE  LocksAreOwned'
    <2>1. pc[r] \notin InTx /\ rowLock' = rowLock
      BY <1>2 DEF Receive, ReadRole, CheckMembership, CheckProject, AnswerNoop,
         CasMiss, Reread, LoseMail, EnqueueMail, Return, ReadStep, InTx, Answers,
         Rejections
    <2>2. \A s \in Requests \ {r} : pc'[s] = pc[s] /\ req'[s] = req[s]
      BY <1>1, <1>2 DEF Receive, ReadRole, CheckMembership, CheckProject, AnswerNoop,
         CasMiss, Reread, LoseMail, EnqueueMail, Return, ReadStep, Goto, TypeInv, TypeOK
    <2>. QED BY <1>1, <2>1, <2>2, LocksStay
  <1>3. ASSUME NEW r \in Requests, CasHit(r)
        PROVE  LocksAreOwned'
    <2>1. /\ rowLock' = [rowLock EXCEPT ![req[r].task] = r] /\ req' = req
          /\ pc'[r] \in InTx /\ \A s \in Requests \ {r} : pc'[s] = pc[s]
      BY <1>1, <1>3 DEF CasHit, Goto, InTx, TypeInv, TypeOK
    <2>. QED BY <1>1, <2>1 DEF LocksAreOwned, TypeInv, TypeOK
  <1>4. ASSUME NEW r \in Requests, NEW answer, Rollback(r, answer)
        PROVE  LocksAreOwned'
    <2>1. /\ rowLock' = [t \in Tasks |-> IF rowLock[t] = r THEN None ELSE rowLock[t]]
          /\ req' = req /\ \A s \in Requests \ {r} : pc'[s] = pc[s]
      BY <1>1, <1>4 DEF Rollback, Goto, TypeInv, TypeOK
    <2>2. None \notin Requests
      BY ConstantsOK
    <2>. QED BY <1>1, <2>1, <2>2 DEF LocksAreOwned
  <1>5. ASSUME NEW r \in Requests, NEW there \in {"adding", "members", "write"}, NEW found,
               NEW added, pc[r] \in InTx, Address(r, there, found, added)
        PROVE  LocksAreOwned'
    <2>1. req[r] \in RequestRecs
      BY <1>1, <1>5 DEF TypeInv, TypeOK, InTx
    <2>2. /\ rowLock' = rowLock /\ pc'[r] \in InTx /\ req'[r].task = req[r].task
          /\ \A s \in Requests \ {r} : pc'[s] = pc[s] /\ req'[s] = req[s]
      BY <1>1, <1>5, <2>1 DEF Address, Goto, InTx, TypeInv, TypeOK, RequestRecs
    <2>. QED BY <1>1, <2>2, LocksStay
  <1>6. ASSUME NEW r \in Requests,
               FindNamedClients(r) \/ AddNamedClients(r) \/ FindAllClients(r)
                 \/ KeepProjectClients(r)
        PROVE  LocksAreOwned'
    <2>1. pc[r] \in InTx
      BY <1>6 DEF FindNamedClients, AddNamedClients, FindAllClients, KeepProjectClients, InTx
    <2>2. \/ Rollback(r, "badrequest")
          \/ \E there \in {"adding", "members", "write"} : \E found, added :
               Address(r, there, found, added)
      BY <1>6 DEF FindNamedClients, AddNamedClients, FindAllClients, KeepProjectClients
    <2>. QED BY <1>4, <1>5, <2>1, <2>2
  <1>7. ASSUME NEW r \in Requests, Commit(r)
        PROVE  LocksAreOwned'
    <2>1. /\ rowLock' = [rowLock EXCEPT ![req[r].task] = None]
          /\ \A s \in Requests \ {r} : pc'[s] = pc[s] /\ req'[s] = req[s]
      BY <1>1, <1>7 DEF Commit, Goto, TypeInv, TypeOK
    <2>2. \A t \in Tasks : rowLock'[t] # r
      BY <1>1, <2>1, ConstantsOK DEF LocksAreOwned, TypeInv, TypeOK
    <2>. QED BY <1>1, <2>1, <2>2, ConstantsOK DEF LocksAreOwned, TypeInv, TypeOK
  <1>8. CASE Environment \/ UNCHANGED vars
    <2>1. UNCHANGED <<rowLock, pc, req>>
      BY <1>8 DEF Environment, DeleteProject, AddProjectMember, RemoveProjectMember,
                  SetRole, vars
    <2>. QED BY <1>1, <2>1, LocksStay
  <1>. QED
    BY <1>2, <1>3, <1>4, <1>6, <1>7, <1>8 DEF Next, Advance, Cas, Fail

\* For any number of requests and tasks, a row is locked exactly by the one
\* transaction at work on it, however the transactions end: nobody waits for a
\* lock without a holder (tasks-transition.service.ts:70-215).
THEOREM LocksSafe == Spec => []LocksAreHeld
  <1>1. Init => LockInv
    BY InitTypeInv, ConstantsOK DEF Init, LockInv, HistoryInv, LockKeepsStatus,
       HistoryExplainsStatus, StatusAfter, InTx, LocksAreOwned
  <1>2. LockInv /\ [Next]_vars => LockInv'
    BY NextHistoryInv, NextLocks DEF LockInv
  <1>3. LockInv => LocksAreHeld
    BY DEF LockInv, HistoryInv, LockKeepsStatus, LocksAreOwned, LocksAreHeld
  <1>. QED BY <1>1, <1>2, <1>3, PTL DEF Spec

-----------------------------------------------------------------------------
(* The log only grows, and what is announced is in it.                     *)

\* Steps that write neither status nor log let the logs grow.
LEMMA UnchangedLogsGrow ==
  ASSUME TypeInv, UNCHANGED <<status, events>>
  PROVE  LogsGrow
  BY DEF LogsGrow, TaskExists, TypeInv, TypeOK

\* Every step lets the logs grow: only Commit and the deletion write them, and
\* the lock keeps a commit from reviving a deleted task.
LEMMA NextLogsGrow ==
  ASSUME HistoryInv, [Next]_vars
  PROVE  LogsGrow
  <1>1. TypeInv
    BY DEF HistoryInv
  <1>2. ASSUME NEW r \in Requests, Commit(r)
        PROVE  LogsGrow
    <2>1. pc[r] = "write" /\ pc[r] \in InTx
      BY <1>2 DEF Commit, InTx
    <2>2. /\ req[r] \in RequestRecs /\ req[r].from # Gone
          /\ status[req[r].task] = req[r].from
      BY <2>1 DEF HistoryInv, LockKeepsStatus, TypeInv, TypeOK, RequestsCarryChecks,
                  Active, InTx
    <2>3. PICK row :
            /\ events' = [events EXCEPT ![req[r].task] = Append(@, row)]
            /\ status' = [status EXCEPT ![req[r].task] = Wants(r)]
      BY <1>2 DEF Commit
    <2>4. SUFFICES ASSUME NEW t \in Tasks, TaskExists(t)'
                   PROVE  /\ TaskExists(t)
                          /\ Len(events[t]) <= Len(events'[t])
                          /\ \A i \in 1..Len(events[t]) : events'[t][i] = events[t][i]
      BY DEF LogsGrow
    <2>5. events[t] \in Seq(EventRows)
      BY <1>1 DEF TypeInv, TypeOK
    <2>6. CASE t = req[r].task
      <3>1. events'[t] = Append(events[t], row)
        BY <1>1, <2>3, <2>6 DEF TypeInv, TypeOK
      <3>. QED BY <2>2, <2>5, <2>6, <3>1 DEF TaskExists
    <2>7. CASE t # req[r].task
      <3>1. events'[t] = events[t] /\ status'[t] = status[t]
        BY <1>1, <2>3, <2>7 DEF TypeInv, TypeOK
      <3>. QED BY <2>4, <2>5, <3>1 DEF TaskExists
    <2>. QED BY <2>6, <2>7
  <1>3. CASE DeleteProject
    BY <1>3 DEF DeleteProject, LogsGrow, TaskExists
  <1>4. ASSUME NEW r \in Requests,
               \/ \E u \in Users, t \in Tasks, body \in Bodies : Receive(r, u, t, body)
               \/ Return(r) \/ Cas(r) \/ Fail(r) \/ Advance(r),
               ~Commit(r)
        PROVE  UNCHANGED <<status, events>>
    BY <1>4 DEF Receive, Return, Cas, CasHit, CasMiss, Fail, Rollback, Advance, ReadRole,
       CheckMembership, CheckProject, AnswerNoop, Reread, FindNamedClients, AddNamedClients,
       FindAllClients, KeepProjectClients, Address, EnqueueMail, LoseMail, ReadStep,
       records
  <1>5. CASE Environment /\ ~DeleteProject
    BY <1>1, <1>5, UnchangedLogsGrow
       DEF Environment, AddProjectMember, RemoveProjectMember, SetRole, records
  <1>6. CASE UNCHANGED vars
    BY <1>1, <1>6, UnchangedLogsGrow DEF vars, records
  <1>. QED BY <1>1, <1>2, <1>3, <1>4, <1>5, <1>6, UnchangedLogsGrow DEF Next, Environment

\* A task's log is append-only, and a deleted task stays deleted, for any number
\* of requests: a commit cannot bring a task back, for its transaction has held
\* the task's row, which the deletion waits for.
THEOREM LogSafe == Spec => LogIsAppendOnly
  <1>1. Init => HistoryInv
    BY InitTypeInv DEF Init, HistoryInv, LockKeepsStatus, HistoryExplainsStatus,
       StatusAfter, InTx
  <1>2. HistoryInv /\ [Next]_vars => HistoryInv' /\ LogsGrow
    BY NextHistoryInv, NextLogsGrow
  <1>. QED BY <1>1, <1>2, PTL DEF Spec, LogIsAppendOnly
-----------------------------------------------------------------------------
(* A handoff has recipients.                                               *)

\* Who is named in a handoff is at least one client.
NamedAreFound == \A r \in Requests : pc[r] = "adding" => req[r].recipients # {}

HandoffInv == TypeInv /\ HandoffHasRecipients /\ NamedAreFound

\* A step that changes one request at most, and leaves that one elsewhere than
\* at its insert, its write or its mail, keeps the handoff invariant.
LEMMA ElsewhereHandoffInv ==
  ASSUME HandoffInv, TypeInv', NEW r \in Requests,
         \A s \in Requests \ {r} : pc'[s] = pc[s] /\ req'[s] = req[s],
         pc'[r] \notin {"adding", "write", "mail"}
  PROVE  HandoffInv'
  BY DEF HandoffInv, HandoffHasRecipients, NamedAreFound, IsHandoff, Wants

\* Every step keeps the handoff invariant: the write of a handoff is only reached
\* from a search that found somebody.
LEMMA NextHandoffInv ==
  ASSUME HandoffInv, [Next]_vars
  PROVE  HandoffInv'
  <1>1. TypeInv /\ TypeInv'
    BY NextTypeInv DEF HandoffInv
  <1>2. CASE Environment \/ UNCHANGED vars
    <2>1. UNCHANGED <<pc, req>>
      BY <1>2 DEF Environment, DeleteProject, AddProjectMember, RemoveProjectMember,
                  SetRole, vars
    <2>. QED BY <1>1, <2>1 DEF HandoffInv, HandoffHasRecipients, NamedAreFound, IsHandoff, Wants
  <1>3. ASSUME NEW r \in Requests,
               \/ \E u \in Users, t \in Tasks, body \in Bodies : Receive(r, u, t, body)
               \/ ReadRole(r) \/ CheckMembership(r) \/ CheckProject(r)
               \/ AnswerNoop(r) \/ CasMiss(r) \/ Reread(r) \/ LoseMail(r)
               \/ EnqueueMail(r) \/ Fail(r) \/ Return(r)
        PROVE  HandoffInv'
    <2>1. PICK place : Goto(r, place) /\ place \notin {"adding", "write", "mail"}
      BY <1>3, VerdictType DEF Receive, ReadRole, CheckMembership, CheckProject,
         AnswerNoop, CasMiss, Reread, LoseMail, EnqueueMail, Fail, Rollback, Return,
         ReadStep
    <2>2. /\ \A s \in Requests \ {r} : pc'[s] = pc[s] /\ req'[s] = req[s]
          /\ pc'[r] \notin {"adding", "write", "mail"}
      BY <1>1, <1>3, <2>1 DEF Receive, ReadRole, CheckMembership, CheckProject,
         AnswerNoop, CasMiss, Reread, LoseMail, EnqueueMail, Fail, Rollback, Return,
         Goto, TypeInv, TypeOK
    <2>. QED BY <1>1, <2>2, ElsewhereHandoffInv
  <1>4. ASSUME NEW r \in Requests, CasHit(r)
        PROVE  HandoffInv'
    BY <1>1, <1>4 DEF CasHit, Goto, HandoffInv, HandoffHasRecipients, NamedAreFound, IsHandoff,
                      Wants, TypeInv, TypeOK
  <1>5. ASSUME NEW r \in Requests,
               FindNamedClients(r) \/ AddNamedClients(r) \/ FindAllClients(r)
                 \/ KeepProjectClients(r)
        PROVE  HandoffInv'
    <2>1. pc[r] \in InTx /\ pc[r] # "idle" /\ req[r] \in RequestRecs
      BY <1>1, <1>5 DEF FindNamedClients, AddNamedClients, FindAllClients, KeepProjectClients, InTx,
                        TypeInv, TypeOK
    <2>2. CASE Rollback(r, "badrequest")
      <3>1. /\ \A s \in Requests \ {r} : pc'[s] = pc[s] /\ req'[s] = req[s]
            /\ pc'[r] \notin {"adding", "write", "mail"}
        BY <1>1, <2>2 DEF Rollback, Goto, TypeInv, TypeOK
      <3>. QED BY <1>1, <3>1, ElsewhereHandoffInv
    <2>3. ASSUME NEW there \in {"adding", "members", "write"}, NEW found, NEW added,
                 found # {}, Address(r, there, found, added)
          PROVE  HandoffInv'
      <3>1. /\ \A s \in Requests \ {r} : pc'[s] = pc[s] /\ req'[s] = req[s]
            /\ req'[r].recipients = found
        BY <1>1, <2>1, <2>3 DEF Address, Goto, TypeInv, TypeOK, RequestRecs
      <3>. QED BY <1>1, <2>3, <3>1
                 DEF HandoffInv, HandoffHasRecipients, NamedAreFound, IsHandoff, Wants
    <2>4. pc[r] = "adding" => req[r].recipients # {}
      BY DEF HandoffInv, NamedAreFound
    <2>. QED BY <1>5, <2>2, <2>3, <2>4
             DEF FindNamedClients, AddNamedClients, FindAllClients, KeepProjectClients
  <1>6. ASSUME NEW r \in Requests, Commit(r)
        PROVE  HandoffInv'
    <2>1. req[r] \in RequestRecs /\ pc[r] = "write"
      BY <1>1, <1>6 DEF Commit, TypeInv, TypeOK
    <2>2. /\ \A s \in Requests \ {r} : pc'[s] = pc[s] /\ req'[s] = req[s]
          /\ req'[r].recipients = req[r].recipients /\ req'[r].body = req[r].body
          /\ pc'[r] = IF IsHandoff(r) /\ req[r].recipients # {} THEN "mail" ELSE "ok"
      BY <1>1, <1>6, <2>1 DEF Commit, Goto, TypeInv, TypeOK, RequestRecs
    <2>. QED BY <1>1, <2>1, <2>2
             DEF HandoffInv, HandoffHasRecipients, NamedAreFound, IsHandoff, Wants
  <1>. QED BY <1>2, <1>3, <1>4, <1>5, <1>6 DEF Next, Advance, Cas

\* A handoff is never logged for nobody, whoever is demoted or taken off the
\* project between the two reads of its clients.
THEOREM HandoffSafe == Spec => []HandoffHasRecipients
  <1>1. Init => HandoffInv
    BY InitTypeInv DEF Init, HandoffInv, HandoffHasRecipients, NamedAreFound
  <1>2. HandoffInv /\ [Next]_vars => HandoffInv'  BY NextHandoffInv
  <1>3. HandoffInv => HandoffHasRecipients  BY DEF HandoffInv
  <1>. QED BY <1>1, <1>2, <1>3, PTL DEF Spec

-----------------------------------------------------------------------------
(* What is announced is in the log.  A request about to enqueue mail must   *)
(* be known to have logged its handoff.                                     *)

MailIsLogged ==
  \A r \in Requests : pc[r] = "mail" =>
    /\ req[r].recipients # {}
    /\ TaskExists(req[r].task) =>
         /\ req[r].event \in 1..Len(events[req[r].task])
         /\ events[req[r].task][req[r].event].to = "CLIENT_HANDOFF"

AnnounceInv == HistoryInv /\ MailIsLogged /\ AnnouncementsMatchHistory

\* A logged event stays where it is as long as its task exists.
LEMMA LoggedStaysLogged ==
  ASSUME TypeInv, TypeInv', LogsGrow, NEW t \in Tasks, TaskExists(t)',
         NEW i, i \in 1..Len(events[t])
  PROVE  /\ TaskExists(t)
         /\ i \in 1..Len(events'[t])
         /\ events'[t][i] = events[t][i]
  BY DEF LogsGrow, TypeInv, TypeOK

\* Announcements made before a step still match the log after it.
LEMMA OldAnnouncements ==
  ASSUME TypeInv, TypeInv', LogsGrow, AnnouncementsMatchHistory
  PROVE  /\ \A n \in notices : TaskExists(n.task)' =>
              /\ n.event \in 1..Len(events'[n.task])
              /\ n.user # events'[n.task][n.event].actor
         /\ \A m \in outbox : TaskExists(m.task)' =>
              /\ m.event \in 1..Len(events'[m.task])
              /\ events'[m.task][m.event].to = "CLIENT_HANDOFF"
              /\ m.recipients # {}
  <1>1. ASSUME NEW n \in notices, TaskExists(n.task)'
        PROVE  /\ n.event \in 1..Len(events'[n.task])
               /\ n.user # events'[n.task][n.event].actor
    <2>1. n.task \in Tasks
      BY DEF TypeInv, TypeOK, NoticeRows
    <2>2. TaskExists(n.task)
      BY <1>1, <2>1 DEF LogsGrow
    <2>3. n.event \in 1..Len(events[n.task]) /\ n.user # events[n.task][n.event].actor
      BY <2>2 DEF AnnouncementsMatchHistory
    <2>. QED BY <1>1, <2>1, <2>3, LoggedStaysLogged
  <1>2. ASSUME NEW m \in outbox, TaskExists(m.task)'
        PROVE  /\ m.event \in 1..Len(events'[m.task])
               /\ events'[m.task][m.event].to = "CLIENT_HANDOFF"
               /\ m.recipients # {}
    <2>1. m.task \in Tasks
      BY DEF TypeInv, TypeOK, OutboxRows
    <2>2. TaskExists(m.task)
      BY <1>2, <2>1 DEF LogsGrow
    <2>3. /\ m.event \in 1..Len(events[m.task])
          /\ events[m.task][m.event].to = "CLIENT_HANDOFF"
          /\ m.recipients # {}
      BY <2>2 DEF AnnouncementsMatchHistory
    <2>. QED BY <1>2, <2>1, <2>3, LoggedStaysLogged
  <1>. QED BY <1>1, <1>2

\* The requests that were about to enqueue mail before a step still have it logged.
LEMMA OldMail ==
  ASSUME TypeInv, TypeInv', LogsGrow, MailIsLogged,
         NEW s \in Requests, pc[s] = "mail", status'[req[s].task] # Gone
  PROVE  /\ req[s].event \in 1..Len(events'[req[s].task])
         /\ events'[req[s].task][req[s].event].to = "CLIENT_HANDOFF"
  <1>1. req[s] \in RequestRecs
    BY DEF TypeInv, TypeOK
  <1>2. req[s].task \in Tasks
    BY <1>1 DEF RequestRecs
  <1>3. PICK t \in Tasks : t = req[s].task
    BY <1>2
  <1>4. TaskExists(t)' /\ TaskExists(t)
    BY <1>3 DEF LogsGrow, TaskExists
  <1>5. /\ req[s].event \in 1..Len(events[req[s].task])
        /\ events[req[s].task][req[s].event].to = "CLIENT_HANDOFF"
    BY <1>3, <1>4 DEF MailIsLogged
  <1>. QED BY <1>3, <1>4, <1>5, LoggedStaysLogged

\* The commit logs the move at the id that its notifications and its mail refer
\* to, and notifies everybody but its actor.
LEMMA CommitAnnounces ==
  ASSUME AnnounceInv, TypeInv', LogsGrow, NEW r \in Requests, Commit(r)
  PROVE  MailIsLogged' /\ AnnouncementsMatchHistory'
  <1>. DEFINE t == req[r].task
              id == Len(events[t]) + 1
  <1>1. TypeInv
    BY DEF AnnounceInv, HistoryInv
  <1>2. pc[r] = "write" /\ req[r] \in RequestRecs /\ t \in Tasks
    BY <1>1 DEF Commit, TypeInv, TypeOK, RequestRecs
  <1>3. /\ id \in 1..Len(events'[t])
        /\ events'[t][id].to = Wants(r) /\ events'[t][id].actor = req[r].user
    <2>. DEFINE row == [from |-> req[r].from, to |-> Wants(r),
                        type |-> EventType(req[r].from, Wants(r)),
                        approval |-> ApprovalType(req[r].from, Wants(r)),
                        comment |-> req[r].body.comment,
                        actor |-> req[r].user, role |-> req[r].role]
    <2>1. /\ events' = [events EXCEPT ![t] = Append(@, row)]
          /\ row.to = Wants(r) /\ row.actor = req[r].user
      BY DEF Commit
    <2>. HIDE DEF row
    <2>2. events[t] \in Seq(EventRows) /\ events'[t] = Append(events[t], row)
      BY <1>1, <1>2, <2>1 DEF TypeInv, TypeOK
    <2>. QED BY <2>1, <2>2
  <1>4. MailIsLogged'
    <2>. SUFFICES ASSUME NEW s \in Requests, pc'[s] = "mail"
                  PROVE  /\ req'[s].recipients # {}
                         /\ status'[req'[s].task] # Gone =>
                            /\ req'[s].event \in 1..Len(events'[req'[s].task])
                            /\ events'[req'[s].task][req'[s].event].to
                                 = "CLIENT_HANDOFF"
      BY DEF MailIsLogged, TaskExists
    <2>1. CASE s = r
      <3>1. IsHandoff(r) /\ req[r].recipients # {}
        BY <1>1, <1>2, <2>1 DEF Commit, Goto, TypeInv, TypeOK
      <3>2. /\ req'[r].event = id /\ req'[r].task = t
            /\ req'[r].recipients = req[r].recipients
        BY <1>1, <1>2 DEF Commit, TypeInv, TypeOK, RequestRecs
      <3>. QED BY <1>3, <2>1, <3>1, <3>2 DEF IsHandoff
    <2>2. CASE s # r
      <3>1. pc[s] = "mail" /\ req'[s] = req[s]
        BY <1>1, <2>2 DEF Commit, Goto, TypeInv, TypeOK
      <3>. QED BY <1>1, <3>1, OldMail DEF AnnounceInv, MailIsLogged
    <2>. QED BY <2>1, <2>2
  <1>5. AnnouncementsMatchHistory'
    <2>1. /\ notices' = notices \cup
               {[task |-> t, event |-> id, user |-> v] : v \in NoticeReaders(r)}
          /\ outbox' = outbox
      BY DEF Commit
    <2>2. req[r].user \notin NoticeReaders(r)
      BY DEF NoticeReaders
    <2>3. ASSUME NEW n \in notices', TaskExists(n.task)'
          PROVE  /\ n.event \in 1..Len(events'[n.task])
                 /\ n.user # events'[n.task][n.event].actor
      <3>1. CASE n \in notices
        BY <1>1, <2>3, <3>1, OldAnnouncements DEF AnnounceInv
      <3>2. CASE n \notin notices
        <4>1. PICK v \in NoticeReaders(r) : n = [task |-> t, event |-> id, user |-> v]
          BY <2>1, <2>3, <3>2
        <4>2. n.task = t /\ n.event = id /\ n.user # req[r].user
          BY <2>2, <4>1
        <4>. QED BY <1>3, <4>2
      <3>. QED BY <3>1, <3>2
    <2>4. \A m \in outbox' : TaskExists(m.task)' =>
            /\ m.event \in 1..Len(events'[m.task])
            /\ events'[m.task][m.event].to = "CLIENT_HANDOFF"
            /\ m.recipients # {}
      BY <1>1, <2>1, OldAnnouncements DEF AnnounceInv
    <2>. QED BY <2>3, <2>4 DEF AnnouncementsMatchHistory, TaskExists
  <1>. QED BY <1>4, <1>5

\* A step that announces nothing and leads no request to its mail keeps the
\* announcement invariant.
LEMMA SilentAnnounceInv ==
  ASSUME AnnounceInv, HistoryInv', LogsGrow, UNCHANGED <<notices, outbox>>,
         \A s \in Requests : pc'[s] = "mail" => pc[s] = "mail" /\ req'[s] = req[s]
  PROVE  AnnounceInv'
  <1>1. TypeInv /\ TypeInv'
    BY DEF AnnounceInv, HistoryInv
  <1>2. AnnouncementsMatchHistory'
    BY <1>1, OldAnnouncements DEF AnnounceInv, AnnouncementsMatchHistory, TaskExists
  <1>3. MailIsLogged'
    <2>. SUFFICES ASSUME NEW s \in Requests, pc'[s] = "mail"
                  PROVE  /\ req'[s].recipients # {}
                         /\ status'[req'[s].task] # Gone =>
                            /\ req'[s].event \in 1..Len(events'[req'[s].task])
                            /\ events'[req'[s].task][req'[s].event].to
                                 = "CLIENT_HANDOFF"
      BY DEF MailIsLogged, TaskExists
    <2>1. pc[s] = "mail" /\ req'[s] = req[s]
      OBVIOUS
    <2>. QED BY <1>1, <2>1, OldMail DEF AnnounceInv, MailIsLogged
  <1>. QED BY <1>2, <1>3 DEF AnnounceInv

\* Every step keeps the announcement invariant.
LEMMA NextAnnounceInv ==
  ASSUME AnnounceInv, [Next]_vars
  PROVE  AnnounceInv'
  <1>1. HistoryInv /\ HistoryInv' /\ TypeInv /\ TypeInv' /\ LogsGrow
    BY NextHistoryInv, NextLogsGrow DEF AnnounceInv, HistoryInv
  <1>2. ASSUME NEW r \in Requests, Commit(r)
        PROVE  AnnounceInv'
    BY <1>1, <1>2, CommitAnnounces DEF AnnounceInv
  <1>3. ASSUME NEW r \in Requests, EnqueueMail(r)
        PROVE  AnnounceInv'
    <2>1. /\ pc[r] = "mail" /\ UNCHANGED <<status, events, notices, req>>
          /\ outbox' = outbox \cup {[task |-> req[r].task, event |-> req[r].event,
                                     recipients |-> req[r].recipients]}
          /\ \A s \in Requests : pc'[s] = "mail" => pc[s] = "mail"
      BY <1>1, <1>3 DEF EnqueueMail, Goto, records, TypeInv, TypeOK
    <2>2. MailIsLogged'
      BY <2>1 DEF AnnounceInv, MailIsLogged, TaskExists
    <2>3. AnnouncementsMatchHistory'
      BY <2>1 DEF AnnounceInv, MailIsLogged, AnnouncementsMatchHistory, TaskExists
    <2>. QED BY <1>1, <2>2, <2>3 DEF AnnounceInv
  <1>4. ASSUME NEW r \in Requests,
               \/ \E u \in Users, t \in Tasks, body \in Bodies : Receive(r, u, t, body)
               \/ ReadRole(r) \/ CheckMembership(r) \/ CheckProject(r)
               \/ AnswerNoop(r) \/ CasHit(r) \/ CasMiss(r) \/ Reread(r)
               \/ FindNamedClients(r) \/ AddNamedClients(r) \/ FindAllClients(r)
               \/ KeepProjectClients(r)
               \/ LoseMail(r) \/ Fail(r) \/ Return(r)
        PROVE  AnnounceInv'
    <2>1. UNCHANGED <<notices, outbox>>
      BY <1>4 DEF Receive, ReadRole, CheckMembership, CheckProject, AnswerNoop, CasHit,
         CasMiss, Reread, FindNamedClients, AddNamedClients, FindAllClients, KeepProjectClients,
         Address, LoseMail, Fail, Rollback, Return, ReadStep, records
    <2>2. PICK place : Goto(r, place) /\ place # "mail"
      BY <1>4, VerdictType DEF Receive, ReadRole, CheckMembership, CheckProject,
         AnswerNoop, CasHit, CasMiss, Reread, FindNamedClients, AddNamedClients, FindAllClients,
         KeepProjectClients, Address, LoseMail, Fail, Rollback, Return, ReadStep
    <2>3. pc'[r] # "mail" /\ \A s \in Requests \ {r} : pc'[s] = pc[s]
      BY <1>1, <2>2 DEF Goto, TypeInv, TypeOK
    <2>4. \A s \in Requests \ {r} : req'[s] = req[s]
      BY <1>1, <1>4 DEF Receive, ReadRole, CheckMembership, CheckProject, AnswerNoop,
         CasHit, CasMiss, Reread, FindNamedClients, AddNamedClients, FindAllClients,
         KeepProjectClients, Address, LoseMail, Fail, Rollback, Return, ReadStep,
         TypeInv, TypeOK
    <2>. QED BY <1>1, <2>1, <2>3, <2>4, SilentAnnounceInv
  <1>5. CASE Environment \/ UNCHANGED vars
    <2>1. UNCHANGED <<notices, outbox, pc, req>>
      BY <1>5 DEF Environment, DeleteProject, AddProjectMember, RemoveProjectMember,
                  SetRole, vars, records
    <2>. QED BY <1>1, <2>1, SilentAnnounceInv
  <1>. QED BY <1>2, <1>3, <1>4, <1>5 DEF Next, Advance, Cas

\* Nothing is announced that did not happen: notifications and queued mail are
\* about logged events, mail about handoffs with somebody to mail to.
THEOREM AnnouncementsSafe == Spec => []AnnouncementsMatchHistory
  <1>1. Init => AnnounceInv
    BY InitTypeInv DEF Init, AnnounceInv, HistoryInv, LockKeepsStatus,
       HistoryExplainsStatus, StatusAfter, InTx, MailIsLogged,
       AnnouncementsMatchHistory
  <1>2. AnnounceInv /\ [Next]_vars => AnnounceInv'  BY NextAnnounceInv
  <1>3. AnnounceInv => AnnouncementsMatchHistory  BY DEF AnnounceInv
  <1>. QED BY <1>1, <1>2, <1>3, PTL DEF Spec

-----------------------------------------------------------------------------
(* Where the mail of a handoff is.  That a request which is about to queue *)
(* it is the only one, and has its recipients from the same commit as the  *)
(* notifications, makes HandoffsAreMailed inductive.                       *)

\* What a request at its mail knows of the handoff it logged.
HoldsMail(r) ==
  \A t \in Tasks, i \in Nat : req[r].task = t /\ req[r].event = i /\ TaskExists(t) =>
    /\ events[t][i].actor = req[r].user
    /\ req[r].recipients \ {req[r].user} = Told(t, i)
    /\ InHand(t, i) = {r}

LostIsLogged ==
  \A x \in unmailed : TaskExists(x.task) => x.event \in 1..Len(events[x.task])

Lost(t, i) == [task |-> t, event |-> i] \in unmailed

Mailed(t, i) ==
  events[t][i].to = "CLIENT_HANDOFF" =>
    /\ \A m \in Queued(t, i) : m.recipients \ {events[t][i].actor} = Told(t, i)
    /\ IF Lost(t, i)
       THEN Queued(t, i) = {} /\ InHand(t, i) = {}
       ELSE Queued(t, i) = {} <=> InHand(t, i) # {}

MailsInv ==
  /\ LostIsLogged
  /\ \A r \in Requests : pc[r] = "mail" => HoldsMail(r)
  /\ \A t \in Tasks : TaskExists(t) => \A i \in 1..Len(events[t]) : Mailed(t, i)

MailedInv == AnnounceInv /\ HandoffInv /\ MailsInv

\* Nobody is notified, later on, of an event that is already in the log.
LEMMA ToldStays ==
  ASSUME TypeInv, [Next]_vars, NEW t \in Tasks, NEW i \in 1..Len(events[t])
  PROVE  Told(t, i)' = Told(t, i)
  <1>1. ASSUME NEW r \in Requests, Commit(r)
        PROVE  \A u \in Users : [task |-> t, event |-> i, user |-> u] \in notices' <=>
                                [task |-> t, event |-> i, user |-> u] \in notices
    <2>. DEFINE id == Len(events[req[r].task]) + 1
                new == {[task |-> req[r].task, event |-> id, user |-> v] :
                           v \in NoticeReaders(r)}
    <2>1. notices' = notices \cup new
      BY <1>1 DEF Commit
    <2>2. Len(events[t]) \in Nat
      BY DEF TypeInv, TypeOK
    <2>3. t = req[r].task => i # id
      BY <2>2
    <2>. HIDE DEF id
    <2>4. \A u \in Users : [task |-> t, event |-> i, user |-> u] \notin new
      BY <2>3
    <2>. QED BY <2>1, <2>4
  <1>2. ASSUME NEW r \in Requests,
               \/ \E u \in Users, x \in Tasks, body \in Bodies : Receive(r, u, x, body)
               \/ ReadRole(r) \/ CheckMembership(r) \/ CheckProject(r)
               \/ AnswerNoop(r) \/ CasHit(r) \/ CasMiss(r) \/ Reread(r)
               \/ FindNamedClients(r) \/ AddNamedClients(r) \/ FindAllClients(r)
               \/ KeepProjectClients(r)
               \/ EnqueueMail(r) \/ LoseMail(r) \/ Fail(r) \/ Return(r)
        PROVE  notices' = notices
    BY <1>2 DEF Receive, ReadRole, CheckMembership, CheckProject, AnswerNoop, CasHit,
       CasMiss, Reread, FindNamedClients, AddNamedClients, FindAllClients, KeepProjectClients,
       Address, EnqueueMail, LoseMail, Fail, Rollback, Return, ReadStep, records
  <1>3. CASE Environment \/ UNCHANGED vars
    <2>1. notices' = notices
      BY <1>3 DEF Environment, DeleteProject, AddProjectMember, RemoveProjectMember,
                  SetRole, vars, records
    <2>. QED BY <2>1 DEF Told
  <1>. QED BY <1>1, <1>2, <1>3 DEF Told, Next, Advance, Cas

\* What a step has to leave alone for the mail of one logged event to stay put.
LEMMA MailedStays ==
  ASSUME TypeInv, TypeInv', LogsGrow, [Next]_vars,
         NEW t \in Tasks, TaskExists(t)', NEW i \in 1..Len(events[t]), Mailed(t, i),
         Queued(t, i)' = Queued(t, i), InHand(t, i)' = InHand(t, i),
         Lost(t, i)' = Lost(t, i)
  PROVE  Mailed(t, i)'
  <1>1. events'[t][i] = events[t][i]
    BY LoggedStaysLogged
  <1>2. Told(t, i)' = Told(t, i)
    BY ToldStays
  <1>. QED BY <1>1, <1>2 DEF Mailed

\* A request at its mail that stays there, while no other one arrives at it.
LEMMA HoldsOn ==
  ASSUME MailedInv, TypeInv', LogsGrow, [Next]_vars,
         NEW s \in Requests, pc[s] = "mail", pc'[s] = "mail", req'[s] = req[s],
         TaskExists(req[s].task) =>
           \A v \in Requests : /\ pc'[v] = "mail"
                               /\ req'[v].task = req[s].task
                               /\ req'[v].event = req[s].event
             => pc[v] = "mail" /\ req'[v] = req[v]
  PROVE  HoldsMail(s)'
  <1>. SUFFICES ASSUME NEW t \in Tasks, NEW i \in Nat,
                       req[s].task = t, req[s].event = i, TaskExists(t)'
                PROVE  /\ events'[t][i].actor = req[s].user
                       /\ req[s].recipients \ {req[s].user} = Told(t, i)'
                       /\ InHand(t, i)' = {s}
    BY DEF HoldsMail
  <1>1. TypeInv
    BY DEF MailedInv, AnnounceInv, HistoryInv
  <1>2. TaskExists(t)
    BY <1>1 DEF LogsGrow
  <1>3. i \in 1..Len(events[t])
    BY <1>2 DEF MailedInv, AnnounceInv, MailIsLogged
  <1>4. /\ events[t][i].actor = req[s].user
        /\ req[s].recipients \ {req[s].user} = Told(t, i) /\ InHand(t, i) = {s}
    BY <1>2 DEF MailedInv, MailsInv, HoldsMail
  <1>5. events'[t][i] = events[t][i]
    BY <1>1, <1>3, LoggedStaysLogged
  <1>6. Told(t, i)' = Told(t, i)
    BY <1>1, <1>3, ToldStays
  <1>7. InHand(t, i)' = {s}
    <2>1. s \in InHand(t, i)'
      BY <1>4 DEF InHand
    <2>2. \A v \in InHand(t, i)' : v \in InHand(t, i)
      BY <1>2 DEF InHand
    <2>. QED BY <1>4, <2>1, <2>2
  <1>. QED BY <1>4, <1>5, <1>6, <1>7

\* Steps that move no mail.
LEMMA MailsStay ==
  ASSUME MailedInv, AnnounceInv', LogsGrow, [Next]_vars,
         UNCHANGED <<outbox, unmailed>>,
         \A t \in Tasks : TaskExists(t)' => events'[t] = events[t],
         \A s \in Requests : pc'[s] = "mail" <=> pc[s] = "mail",
         \A s \in Requests : pc[s] = "mail" => req'[s] = req[s]
  PROVE  MailsInv'
  <1>1. TypeInv /\ TypeInv' /\ MailsInv
    BY DEF MailedInv, AnnounceInv, HistoryInv
  <1>2. LostIsLogged'
    <2>. SUFFICES ASSUME NEW x \in unmailed, TaskExists(x.task)'
                  PROVE  x.event \in 1..Len(events'[x.task])
      BY DEF LostIsLogged, TaskExists
    <2>1. x.task \in Tasks
      BY <1>1 DEF TypeInv, TypeOK
    <2>2. x.event \in 1..Len(events[x.task])
      BY <1>1, <2>1 DEF LogsGrow, MailsInv, LostIsLogged
    <2>. QED BY <1>1, <2>1, <2>2, LoggedStaysLogged
  <1>3. ASSUME NEW s \in Requests, pc'[s] = "mail"
        PROVE  HoldsMail(s)'
    BY <1>1, <1>3, HoldsOn DEF InHand
  <1>4. ASSUME NEW t \in Tasks, TaskExists(t)', NEW i \in 1..Len(events[t])
        PROVE  Mailed(t, i)'
    <2>1. Mailed(t, i)
      BY <1>1, <1>4 DEF MailsInv, LogsGrow
    <2>2. /\ Queued(t, i)' = Queued(t, i) /\ InHand(t, i)' = InHand(t, i)
          /\ Lost(t, i)' = Lost(t, i)
      BY DEF Queued, InHand, Lost
    <2>. QED BY <1>1, <1>4, <2>1, <2>2, MailedStays
  <1>. QED BY <1>2, <1>3, <1>4 DEF MailsInv, TaskExists

\* The commit of a handoff puts its mail into the hands of its request, and the
\* commit of another move leaves all mail where it is.
LEMMA CommitMails ==
  ASSUME MailedInv, AnnounceInv', LogsGrow, [Next]_vars, NEW r \in Requests, Commit(r)
  PROVE  MailsInv'
  <1>. DEFINE row == [from |-> req[r].from, to |-> Wants(r),
                      type |-> EventType(req[r].from, Wants(r)),
                      approval |-> ApprovalType(req[r].from, Wants(r)),
                      comment |-> req[r].body.comment,
                      actor |-> req[r].user, role |-> req[r].role]
  <1>1. TypeInv /\ TypeInv' /\ MailsInv /\ HistoryInv
    BY DEF MailedInv, AnnounceInv, HistoryInv
  <1>2. pc[r] = "write" /\ req[r] \in RequestRecs
    BY <1>1 DEF Commit, TypeInv, TypeOK
  <1>task. PICK t0 \in Tasks : t0 = req[r].task
    BY <1>2 DEF RequestRecs
  <1>event. PICK id \in Nat : id = Len(events[t0]) + 1
    BY <1>1 DEF TypeInv, TypeOK
  <1>3. TaskExists(t0)
    BY <1>1, <1>2, <1>task DEF HistoryInv, LockKeepsStatus, TaskExists, InTx, TypeInv,
       RequestsCarryChecks, Active
  <1>4. /\ pc'[r] = IF IsHandoff(r) THEN "mail" ELSE "ok"
        /\ \A s \in Requests \ {r} : pc'[s] = pc[s] /\ req'[s] = req[s]
    BY <1>1, <1>2 DEF Commit, Goto, TypeInv, TypeOK, MailedInv, HandoffInv,
                      HandoffHasRecipients
  <1>5. /\ req'[r].task = t0 /\ req'[r].event = id
        /\ req'[r].user = req[r].user /\ req'[r].recipients = req[r].recipients
    BY <1>1, <1>2, <1>task, <1>event DEF Commit, TypeInv, TypeOK, RequestRecs
  <1>6. /\ events' = [events EXCEPT ![t0] = Append(@, row)]
        /\ notices' = notices \cup
             {[task |-> t0, event |-> id, user |-> v] : v \in NoticeReaders(r)}
        /\ UNCHANGED <<outbox, unmailed>>
    BY <1>task, <1>event DEF Commit
  <1>7. row.to = Wants(r) /\ row.actor = req[r].user
    OBVIOUS
  <1>. HIDE DEF row
  <1>8. /\ id \notin 1..Len(events[t0])
        /\ Len(events'[t0]) = id
        /\ events'[t0][id].to = Wants(r) /\ events'[t0][id].actor = req[r].user
        /\ \A t \in Tasks : t # t0 => events'[t] = events[t]
        /\ 1..Len(events'[t0]) = 1..Len(events[t0]) \cup {id}
    <2>1. events[t0] \in Seq(EventRows) /\ events'[t0] = Append(events[t0], row)
      BY <1>1, <1>6 DEF TypeInv, TypeOK
    <2>2. \A t \in Tasks : t # t0 => events'[t] = events[t]
      BY <1>1, <1>6 DEF TypeInv, TypeOK
    <2>. QED BY <1>event, <1>7, <2>1, <2>2
  <1>9. LostIsLogged'
    <2>. SUFFICES ASSUME NEW x \in unmailed, TaskExists(x.task)'
                  PROVE  x.event \in 1..Len(events'[x.task])
      BY <1>6 DEF LostIsLogged, TaskExists
    <2>1. x.task \in Tasks
      BY <1>1 DEF TypeInv, TypeOK
    <2>2. x.event \in 1..Len(events[x.task])
      BY <1>1, <2>1 DEF LogsGrow, MailsInv, LostIsLogged
    <2>. QED BY <1>1, <2>1, <2>2, LoggedStaysLogged
  <1>10. ASSUME NEW s \in Requests, pc[s] = "mail", TaskExists(req[s].task)
         PROVE  ~(req[s].task = t0 /\ req[s].event = id)
    BY <1>8, <1>10 DEF MailedInv, AnnounceInv, MailIsLogged
  <1>11. ASSUME NEW s \in Requests, pc'[s] = "mail", s # r
         PROVE  HoldsMail(s)'
    BY <1>1, <1>4, <1>5, <1>10, <1>11, HoldsOn
  <1>12. CASE pc'[r] = "mail"
    <2>1. HoldsMail(r)'
      <3>1. InHand(t0, id)' = {r}
        BY <1>3, <1>4, <1>5, <1>10, <1>12 DEF InHand
      <3>2. Told(t0, id)' = NoticeReaders(r)
        <4>1. \A u \in Users : [task |-> t0, event |-> id, user |-> u] \notin notices
          BY <1>3, <1>8 DEF MailedInv, AnnounceInv, AnnouncementsMatchHistory
        <4>2. NoticeReaders(r) \subseteq Users
          BY <1>2 DEF NoticeReaders, RequestRecs
        <4>3. \A u \in Users : [task |-> t0, event |-> id, user |-> u] \in notices' <=>
                                u \in NoticeReaders(r)
          BY <1>6, <4>1
        <4>. QED BY <4>2, <4>3 DEF Told
      <3>3. req[r].recipients \ {req[r].user} = NoticeReaders(r)
        BY <1>4, <1>12 DEF NoticeReaders
      <3>. QED BY <1>5, <1>8, <3>1, <3>2, <3>3 DEF HoldsMail
    <2>. HIDE DEF HoldsMail
    <2>2. \A s \in Requests : pc'[s] = "mail" => HoldsMail(s)'
      BY <1>11, <2>1
    <2>3. ASSUME NEW t \in Tasks, TaskExists(t)', NEW i \in 1..Len(events'[t])
          PROVE  Mailed(t, i)'
      <3>1. CASE t = t0 /\ i = id
        <4>1. Queued(t0, id)' = {}
          BY <1>3, <1>6, <1>8 DEF Queued, MailedInv, AnnounceInv, AnnouncementsMatchHistory
        <4>2. ~Lost(t0, id)'
          BY <1>1, <1>3, <1>6, <1>8 DEF Lost, MailsInv, LostIsLogged
        <4>3. r \in InHand(t0, id)'
          BY <1>5, <1>12 DEF InHand
        <4>. QED BY <3>1, <4>1, <4>2, <4>3 DEF Mailed
      <3>2. CASE ~(t = t0 /\ i = id)
        <4>1. i \in 1..Len(events[t])
          BY <1>8, <2>3, <3>2
        <4>2. Mailed(t, i)
          BY <1>1, <2>3, <4>1 DEF MailsInv, LogsGrow
        <4>3. /\ Queued(t, i)' = Queued(t, i) /\ Lost(t, i)' = Lost(t, i)
              /\ InHand(t, i)' = InHand(t, i)
          BY <1>2, <1>4, <1>5, <1>6, <3>2 DEF Queued, Lost, InHand
        <4>. QED BY <1>1, <2>3, <4>1, <4>2, <4>3, MailedStays
      <3>. QED BY <3>1, <3>2
    <2>. QED BY <1>9, <2>2, <2>3 DEF MailsInv, TaskExists
  <1>13. CASE pc'[r] # "mail"
    <2>1. \A s \in Requests : pc'[s] = "mail" => HoldsMail(s)'
      BY <1>11, <1>13
    <2>2. ASSUME NEW t \in Tasks, TaskExists(t)', NEW i \in 1..Len(events'[t])
          PROVE  Mailed(t, i)'
      <3>1. CASE t = t0 /\ i = id
        <4>1. Wants(r) # "CLIENT_HANDOFF"
          BY <1>4, <1>13 DEF IsHandoff
        <4>. QED BY <1>8, <3>1, <4>1 DEF Mailed
      <3>2. CASE ~(t = t0 /\ i = id)
        <4>1. i \in 1..Len(events[t])
          BY <1>8, <2>2, <3>2
        <4>2. Mailed(t, i)
          BY <1>1, <2>2, <4>1 DEF MailsInv, LogsGrow
        <4>3. /\ Queued(t, i)' = Queued(t, i) /\ Lost(t, i)' = Lost(t, i)
              /\ InHand(t, i)' = InHand(t, i)
          BY <1>2, <1>4, <1>6, <1>13 DEF Queued, Lost, InHand
        <4>. QED BY <1>1, <2>2, <4>1, <4>2, <4>3, MailedStays
      <3>. QED BY <3>1, <3>2
    <2>. QED BY <1>9, <2>1, <2>2 DEF MailsInv, TaskExists
  <1>. QED BY <1>12, <1>13

\* A request leaves its mail: queued, or lost.
LEMMA MailLeaves ==
  ASSUME MailedInv, AnnounceInv', LogsGrow, [Next]_vars,
         NEW r \in Requests, pc[r] = "mail", pc'[r] # "mail",
         \A s \in Requests \ {r} : pc'[s] = pc[s],
         UNCHANGED <<status, events, notices, req>>,
         \/ /\ outbox' = outbox \cup {[task |-> req[r].task, event |-> req[r].event,
                                       recipients |-> req[r].recipients]}
            /\ unmailed' = unmailed
         \/ /\ unmailed' = unmailed \cup {[task |-> req[r].task, event |-> req[r].event]}
            /\ outbox' = outbox
  PROVE  MailsInv'
  <1>1. TypeInv /\ TypeInv' /\ MailsInv /\ HoldsMail(r)
    BY DEF MailedInv, AnnounceInv, HistoryInv, MailsInv
  <1>2. req[r] \in RequestRecs
    BY <1>1 DEF TypeInv, TypeOK
  <1>task. PICK t0 \in Tasks : t0 = req[r].task
    BY <1>2 DEF RequestRecs
  <1>event. PICK i0 \in Nat : i0 = req[r].event
    BY <1>2 DEF RequestRecs
  <1>. DEFINE m0 == [task |-> t0, event |-> i0, recipients |-> req[r].recipients]
  <1>leaves. \/ outbox' = outbox \cup {m0} /\ unmailed' = unmailed
             \/ unmailed' = unmailed \cup {[task |-> t0, event |-> i0]} /\ outbox' = outbox
    BY <1>task, <1>event
  <1>3. TaskExists(t0) => i0 \in 1..Len(events[t0])
    BY <1>task, <1>event DEF MailedInv, AnnounceInv, MailIsLogged
  <1>4. LostIsLogged'
    BY <1>1, <1>3, <1>leaves DEF MailsInv, LostIsLogged, TaskExists
  <1>5. ASSUME NEW s \in Requests, pc'[s] = "mail"
        PROVE  HoldsMail(s)'
    BY <1>1, <1>5, HoldsOn
  <1>6. ASSUME NEW t \in Tasks, TaskExists(t), NEW i \in 1..Len(events[t])
        PROVE  Mailed(t, i)'
    <2>1. Mailed(t, i)
      BY <1>1, <1>6 DEF MailsInv
    <2>2. CASE t = t0 /\ i = i0
      <3>1. /\ InHand(t0, i0) = {r} /\ events[t0][i0].actor = req[r].user
            /\ req[r].recipients \ {req[r].user} = Told(t0, i0)
        BY <1>1, <1>task, <1>event, <1>6, <2>2 DEF HoldsMail
      <3>2. InHand(t0, i0)' = {}
        BY <3>1 DEF InHand
      <3>3. events[t0][i0].to = "CLIENT_HANDOFF"
        BY <1>task, <1>event, <1>6, <2>2 DEF MailedInv, AnnounceInv, MailIsLogged
      <3>4. Queued(t0, i0) = {} /\ ~Lost(t0, i0)
        BY <2>1, <2>2, <3>1, <3>3 DEF Mailed
      <3>5. CASE outbox' = outbox \cup {m0} /\ unmailed' = unmailed
        <4>1. m0.task = t0 /\ m0.event = i0 /\ m0.recipients = req[r].recipients
          OBVIOUS
        <4>. HIDE DEF m0
        <4>2. Queued(t0, i0)' = {m0}
          BY <3>4, <3>5, <4>1 DEF Queued
        <4>3. ~Lost(t0, i0)'
          BY <3>4, <3>5 DEF Lost
        <4>4. Told(t0, i0)' = Told(t0, i0)
          BY DEF Told
        <4>. QED BY <2>2, <3>1, <3>2, <4>1, <4>2, <4>3, <4>4 DEF Mailed
      <3>6. CASE /\ unmailed' = unmailed \cup {[task |-> t0, event |-> i0]}
                 /\ outbox' = outbox
        <4>1. Queued(t0, i0)' = {} /\ Lost(t0, i0)'
          BY <3>4, <3>6 DEF Queued, Lost
        <4>. QED BY <2>2, <3>2, <4>1 DEF Mailed
      <3>. QED BY <1>leaves, <3>5, <3>6
    <2>3. CASE ~(t = t0 /\ i = i0)
      <3>1. Queued(t, i)' = Queued(t, i) /\ Lost(t, i)' = Lost(t, i)
        BY <1>leaves, <2>3 DEF Queued, Lost
      <3>2. InHand(t, i)' = InHand(t, i)
        BY <1>task, <1>event, <2>3 DEF InHand
      <3>. QED BY <1>1, <1>6, <2>1, <3>1, <3>2, MailedStays DEF TaskExists
    <2>. QED BY <2>2, <2>3
  <1>. QED BY <1>4, <1>5, <1>6 DEF MailsInv, TaskExists

LEMMA NextMailsInv ==
  ASSUME MailedInv, [Next]_vars
  PROVE  MailsInv'
  <1>1. TypeInv /\ HistoryInv /\ LogsGrow /\ AnnounceInv'
    BY NextAnnounceInv, NextLogsGrow DEF MailedInv, AnnounceInv, HistoryInv
  <1>2. ASSUME NEW r \in Requests, Commit(r)
        PROVE  MailsInv'
    BY <1>1, <1>2, CommitMails
  <1>3. ASSUME NEW r \in Requests, pc[r] = "mail", EnqueueMail(r) \/ LoseMail(r) \/ Fail(r)
        PROVE  MailsInv'
    <2>1. \E place \in {"ok", "error"} : Goto(r, place)
      BY <1>3 DEF EnqueueMail, LoseMail, Fail, Rollback
    <2>2. pc'[r] # "mail" /\ \A s \in Requests \ {r} : pc'[s] = pc[s]
      BY <1>1, <2>1 DEF Goto, TypeInv, TypeOK
    <2>3. UNCHANGED <<status, events, notices, req>>
      BY <1>3 DEF EnqueueMail, LoseMail, Fail, Rollback, records
    <2>4. \/ /\ outbox' = outbox \cup {[task |-> req[r].task, event |-> req[r].event,
                                         recipients |-> req[r].recipients]}
             /\ unmailed' = unmailed
          \/ /\ unmailed' = unmailed \cup {[task |-> req[r].task, event |-> req[r].event]}
             /\ outbox' = outbox
      BY <1>3 DEF EnqueueMail, LoseMail, Fail, Rollback, LoseTrack
    <2>. QED BY <1>1, <1>3, <2>2, <2>3, <2>4, MailLeaves
  <1>4. ASSUME NEW r \in Requests,
               \/ \E u \in Users, t \in Tasks, body \in Bodies : Receive(r, u, t, body)
               \/ ReadRole(r) \/ CheckMembership(r) \/ CheckProject(r)
               \/ AnswerNoop(r) \/ CasHit(r) \/ CasMiss(r) \/ Reread(r)
               \/ FindNamedClients(r) \/ AddNamedClients(r) \/ FindAllClients(r)
               \/ KeepProjectClients(r)
               \/ (Fail(r) /\ pc[r] # "mail") \/ Return(r)
        PROVE  MailsInv'
    <2>1. pc[r] # "mail" /\ UNCHANGED <<outbox, unmailed, events>>
      BY <1>4 DEF Receive, ReadRole, CheckMembership, CheckProject, AnswerNoop, CasHit,
         CasMiss, Reread, FindNamedClients, AddNamedClients, FindAllClients, KeepProjectClients,
         Address, Fail, Rollback, LoseTrack, Return, ReadStep, records, Answers,
         Rejections
    <2>2. PICK place : Goto(r, place) /\ place # "mail"
      BY <1>4, VerdictType DEF Receive, ReadRole, CheckMembership, CheckProject,
         AnswerNoop, CasHit, CasMiss, Reread, FindNamedClients, AddNamedClients, FindAllClients,
         KeepProjectClients, Address, Fail, Rollback, Return, ReadStep
    <2>3. pc'[r] # "mail" /\ \A s \in Requests \ {r} : pc'[s] = pc[s]
      BY <1>1, <2>2 DEF Goto, TypeInv, TypeOK
    <2>4. \A s \in Requests \ {r} : req'[s] = req[s]
      BY <1>1, <1>4 DEF Receive, ReadRole, CheckMembership, CheckProject, AnswerNoop,
         CasHit, CasMiss, Reread, FindNamedClients, AddNamedClients, FindAllClients,
         KeepProjectClients, Address, Fail, Rollback, Return, ReadStep, TypeInv, TypeOK
    <2>. QED BY <1>1, <2>1, <2>3, <2>4, MailsStay
  <1>5. CASE Environment \/ UNCHANGED vars
    <2>1. /\ UNCHANGED <<outbox, unmailed, pc, req>>
          /\ \A t \in Tasks : TaskExists(t)' => events'[t] = events[t]
      BY <1>5 DEF Environment, DeleteProject, AddProjectMember, RemoveProjectMember,
                  SetRole, vars, records, TaskExists
    <2>. QED BY <1>1, <2>1, MailsStay
  <1>. QED
    BY <1>2, <1>3, <1>4, <1>5 DEF Next, Advance, Cas, EnqueueMail, LoseMail

\* For any number of requests, tasks and clients: the mail of every logged handoff
\* is queued for the clients who were notified of it, about to be queued by its one
\* request, or lost by a failure between the two (tasks.service.ts:193-213).
THEOREM HandoffMailSafe == Spec => []HandoffsAreMailed
  <1>1. Init => MailedInv
    <2>1. Init => AnnounceInv
      BY InitTypeInv DEF Init, AnnounceInv, HistoryInv, LockKeepsStatus,
         HistoryExplainsStatus, StatusAfter, InTx, MailIsLogged,
         AnnouncementsMatchHistory
    <2>2. Init => HandoffInv /\ MailsInv
      BY InitTypeInv DEF Init, HandoffInv, HandoffHasRecipients, NamedAreFound, MailsInv,
                         LostIsLogged
    <2>. QED BY <2>1, <2>2 DEF MailedInv
  <1>2. MailedInv /\ [Next]_vars => MailedInv'
    BY NextAnnounceInv, NextHandoffInv, NextMailsInv DEF MailedInv
  <1>3. MailedInv => HandoffsAreMailed
    BY DEF MailedInv, MailsInv, Mailed, Lost, HandoffsAreMailed
  <1>. QED BY <1>1, <1>2, <1>3, PTL DEF Spec

-----------------------------------------------------------------------------
(***************************************************************************)
(* What a caller of PATCH /tasks/:id/status is told agrees with the task's *)
(* log.                                                                    *)
(***************************************************************************)
\* The status a log stands at after its first k events.
StatusAt(log, k) == IF k = 0 THEN "BRIEF" ELSE log[k].to

\* Events of a log after the first k.
Since(log, k) == {i \in 1..Len(log) : i > k}

\* What an active request knows: the status it loaded is the one the log had
\* then; having missed its update, it knows that the log has grown since.
Knows(r) ==
  LET log  == events[req[r].task]
      seen == req[r].seen
  IN
  /\ pc[r] \in Active \ {"mail"} => req[r].event = 0
  /\ pc[r] = "noop" => req[r].from = Wants(r)
  /\ pc[r] \in {"update", "missed"} => req[r].from # Wants(r)
  /\ pc[r] \in Active /\ TaskExists(req[r].task) =>
       /\ seen <= Len(log) /\ req[r].from = StatusAt(log, seen)
       /\ pc[r] = "missed" => seen < Len(log)
       /\ pc[r] = "mail" => \E i \in Since(log, seen) : log[i].to = Wants(r)

\* AnswersMatchHistory for one request.
Answered(r) ==
  LET log == events[req[r].task] IN
  pc[r] \in Answers =>
    /\ pc[r] \in Rejections => req[r].event = 0
    /\ TaskExists(req[r].task) =>
         /\ pc[r] = "ok" => \/ req[r].from = Wants(r)
                            \/ \E i \in Since(log, req[r].seen) : log[i].to = Wants(r)
         /\ pc[r] = "conflict" => Since(log, req[r].seen) # {}

AnswerInv == HistoryInv /\ \A r \in Requests : Knows(r) /\ Answered(r)

\* The places of the code's answers and of its work are different.
LEMMA AnswersAreNotActive ==
  /\ Answers \cap Active = {} /\ "idle" \notin Answers \cup Active
  /\ Rejections \subseteq Answers
  BY DEF Answers, Rejections, Active, Reading, InTx

\* What a growing log keeps: its old events, the status after each of them, and
\* the events since any of them.
LEMMA GrownLog ==
  ASSUME TypeInv, TypeInv', LogsGrow, NEW t \in Tasks, TaskExists(t)', NEW k \in Nat
  PROVE  /\ TaskExists(t)
         /\ Len(events[t]) \in Nat /\ Len(events'[t]) \in Nat
         /\ Len(events[t]) <= Len(events'[t])
         /\ k <= Len(events[t]) => StatusAt(events'[t], k) = StatusAt(events[t], k)
         /\ \A i \in Since(events[t], k) :
              i \in Since(events'[t], k) /\ events'[t][i] = events[t][i]
  <1>1. /\ events[t] \in Seq(EventRows) /\ events'[t] \in Seq(EventRows)
        /\ TaskExists(t) /\ Len(events[t]) <= Len(events'[t])
        /\ \A i \in 1..Len(events[t]) : events'[t][i] = events[t][i]
    BY DEF LogsGrow, TypeInv, TypeOK
  <1>2. Len(events[t]) \in Nat /\ Len(events'[t]) \in Nat
    BY <1>1
  <1>. QED BY <1>1, <1>2 DEF StatusAt, Since

\* Two places and requests that a step cannot tell apart as to what is known.
SameKnowledge(r) ==
  /\ req'[r].task = req[r].task /\ req'[r].body = req[r].body
  /\ req'[r].from = req[r].from /\ req'[r].seen = req[r].seen
  /\ req'[r].event = req[r].event

\* A busy request carries a task, a length of the log and a status.
LEMMA BusyRequest ==
  ASSUME TypeInv, NEW r \in Requests, pc[r] # "idle"
  PROVE  req[r] \in RequestRecs /\ req[r].task \in Tasks /\ req[r].seen \in Nat
  BY DEF TypeInv, TypeOK, RequestRecs

\* While the logs grow, what a request knew, or was told, stays true.
LEMMA KnowledgeLasts ==
  ASSUME TypeInv, TypeInv', LogsGrow, NEW r \in Requests, Knows(r), Answered(r),
         pc'[r] = pc[r], req'[r] = req[r]
  PROVE  Knows(r)' /\ Answered(r)'
  <1>1. CASE pc[r] = "idle"
    BY <1>1, AnswersAreNotActive DEF Knows, Answered
  <1>2. CASE pc[r] # "idle"
    <2>1. PICK t \in Tasks, k \in Nat : t = req[r].task /\ k = req[r].seen
      BY <1>2, BusyRequest
    <2>2. TaskExists(t)' =>
            /\ TaskExists(t)
            /\ Len(events[t]) \in Nat /\ Len(events'[t]) \in Nat
            /\ Len(events[t]) <= Len(events'[t])
            /\ k <= Len(events[t]) => StatusAt(events'[t], k) = StatusAt(events[t], k)
            /\ \A i \in Since(events[t], k) :
                 i \in Since(events'[t], k) /\ events'[t][i] = events[t][i]
      BY GrownLog
    <2>3. Knows(r)'
      BY <2>1, <2>2 DEF Knows, Wants, TaskExists
    <2>4. Answered(r)'
      BY <2>1, <2>2 DEF Answered, Wants, TaskExists
    <2>. QED BY <2>3, <2>4
  <1>. QED BY <1>1, <1>2

\* So it does when the request goes on to a place that knows nothing more.
LEMMA GoesOn ==
  ASSUME TypeInv, TypeInv', LogsGrow, NEW r \in Requests, Knows(r),
         pc[r] \in Active \ {"mail"}, SameKnowledge(r),
         pc'[r] \in Active \ {"noop", "update", "missed", "mail"}
  PROVE  Knows(r)' /\ Answered(r)'
  <1>1. PICK t \in Tasks, k \in Nat : t = req[r].task /\ k = req[r].seen
    BY BusyRequest, AnswersAreNotActive
  <1>2. TaskExists(t)' =>
          /\ TaskExists(t)
          /\ Len(events[t]) \in Nat /\ Len(events'[t]) \in Nat
          /\ Len(events[t]) <= Len(events'[t])
          /\ k <= Len(events[t]) => StatusAt(events'[t], k) = StatusAt(events[t], k)
    BY GrownLog
  <1>3. Knows(r)'
    BY <1>1, <1>2 DEF Knows, SameKnowledge, TaskExists
  <1>. QED BY <1>3, AnswersAreNotActive DEF Answered

\* A request that is refused, or fails, has logged nothing.
LEMMA IsRefused ==
  ASSUME NEW r \in Requests, Knows(r), pc[r] \in Active \ {"mail"}, SameKnowledge(r),
         pc'[r] \in {"forbidden", "badrequest", "notfound", "error"}
  PROVE  Knows(r)' /\ Answered(r)'
  <1>1. pc'[r] \in Answers /\ pc'[r] \notin Active
    BY AnswersAreNotActive DEF Answers, Rejections
  <1>2. req'[r].event = 0
    BY DEF Knows, SameKnowledge
  <1>. QED BY <1>1, <1>2 DEF Knows, Answered

\* A failed request is told nothing about its move.
LEMMA HasFailed ==
  ASSUME NEW r \in Requests, pc'[r] = "error"
  PROVE  Knows(r)' /\ Answered(r)'
  <1>1. pc'[r] \notin Active /\ pc'[r] \notin Rejections
    BY AnswersAreNotActive DEF Answers, Rejections
  <1>. QED BY <1>1 DEF Knows, Answered

-----------------------------------------------------------------------------
(* What each step of a request teaches it.                                 *)

\* Loading the task (loadTask): the log explains the status that is loaded.
LEMMA ReceiveKnows ==
  ASSUME HistoryInv, HistoryInv', NEW r \in Requests, NEW u \in Users,
         NEW t \in Tasks, NEW body \in Bodies, Receive(r, u, t, body)
  PROVE  Knows(r)' /\ Answered(r)'
  <1>1. /\ pc'[r] = IF TaskExists(t) THEN "loaded" ELSE "notfound"
        /\ req'[r].task = t /\ req'[r].from = status[t] /\ req'[r].event = 0
        /\ req'[r].seen = Len(events[t])
        /\ UNCHANGED <<status, events>>
    BY DEF Receive, ReadStep, Goto, records, HistoryInv, TypeInv, TypeOK
  <1>2. events[t] \in Seq(EventRows)
    BY DEF HistoryInv, TypeInv, TypeOK
  <1>3. TaskExists(t) => status[t] = StatusAt(events[t], Len(events[t]))
    BY <1>2 DEF HistoryInv, HistoryExplainsStatus, StatusAfter, StatusAt
  <1>4. Knows(r)'
    BY <1>1, <1>2, <1>3 DEF Knows, TaskExists, Active, Reading, InTx
  <1>5. Answered(r)'
    BY <1>1 DEF Answered, Answers, Rejections
  <1>. QED BY <1>4, <1>5

\* The checks of role and membership, the compare-and-set and the search for
\* clients add nothing to what is known, or refuse the request.
LEMMA ReadingKnows ==
  ASSUME HistoryInv, HistoryInv', LogsGrow, NEW r \in Requests, Knows(r),
         \/ ReadRole(r) \/ CheckMembership(r) \/ CasHit(r)
         \/ FindNamedClients(r) \/ AddNamedClients(r) \/ FindAllClients(r)
         \/ KeepProjectClients(r)
  PROVE  Knows(r)' /\ Answered(r)'
  <1>1. TypeInv /\ TypeInv'
    BY DEF HistoryInv
  <1>2. pc[r] \in Active \ {"mail"}
    BY DEF ReadRole, CheckMembership, CasHit, FindNamedClients, AddNamedClients, FindAllClients,
           KeepProjectClients, ReadStep, Active, Reading, InTx
  <1>3. req[r] \in RequestRecs
    BY <1>1, <1>2, BusyRequest, AnswersAreNotActive
  <1>4. SameKnowledge(r)
    BY <1>1, <1>3 DEF ReadRole, CheckMembership, CasHit, FindNamedClients, AddNamedClients,
       FindAllClients, KeepProjectClients, Address, Rollback, ReadStep, SameKnowledge,
       TypeInv, TypeOK, RequestRecs
  <1>5. pc'[r] \in {"member", "project", "clients", "adding", "members", "write",
                    "forbidden", "badrequest"}
    BY <1>1 DEF ReadRole, CheckMembership, CasHit, FindNamedClients, AddNamedClients,
       FindAllClients, KeepProjectClients, Address, Rollback, ReadStep, Goto, TypeInv, TypeOK
  <1>6. \/ pc'[r] \in Active \ {"noop", "update", "missed", "mail"}
        \/ pc'[r] \in {"forbidden", "badrequest", "notfound", "error"}
    BY <1>5 DEF Active, Reading, InTx
  <1>. QED BY <1>1, <1>2, <1>4, <1>6, GoesOn, IsRefused

\* The branch to the no-op, the update or a refusal: a request that goes on to
\* its update wants another status than the one it loaded.
LEMMA CheckProjectKnows ==
  ASSUME HistoryInv, HistoryInv', LogsGrow, NEW r \in Requests, Knows(r),
         CheckProject(r)
  PROVE  Knows(r)' /\ Answered(r)'
  <1>1. TypeInv /\ TypeInv'
    BY DEF HistoryInv
  <1>2. /\ pc[r] = "project" /\ UNCHANGED <<req, status, events>>
        /\ SameKnowledge(r)
    BY DEF CheckProject, ReadStep, records, SameKnowledge
  <1>3. /\ pc'[r] \in {"notfound", "noop", "update", "forbidden", "badrequest"}
        /\ pc'[r] = "noop" => req[r].from = Wants(r)
        /\ pc'[r] = "update" => req[r].from # Wants(r)
    <2>. DEFINE verdict ==
           Verdict(req[r].role, req[r].from, Wants(r), req[r].body.comment)
    <2>1. verdict \in {"ok", "forbidden", "badrequest"}
      BY VerdictType
    <2>2. pc'[r] = IF ~ProjectExists THEN "notfound"
                   ELSE IF req[r].from = Wants(r) THEN "noop"
                   ELSE IF verdict = "ok" THEN "update"
                   ELSE verdict
      BY <1>1 DEF CheckProject, ReadStep, Goto, TypeInv, TypeOK
    <2>. HIDE DEF verdict
    <2>. QED BY <2>1, <2>2
  <1>4. pc[r] \in Active \ {"mail"}
    BY <1>2 DEF Active, Reading
  <1>5. CASE pc'[r] \in {"noop", "update"}
    <2>1. Knows(r)'
      BY <1>2, <1>3, <1>4, <1>5 DEF Knows, Wants, TaskExists
    <2>2. Answered(r)'
      BY <1>5 DEF Answered, Answers, Rejections
    <2>. QED BY <2>1, <2>2
  <1>6. CASE pc'[r] \in {"notfound", "forbidden", "badrequest"}
    BY <1>2, <1>4, <1>6, IsRefused
  <1>. QED BY <1>3, <1>5, <1>6

\* A request that misses its update, or finds out why, learns from the row alone
\* that the log has grown: the log explains the status.
LEMMA MissKnows ==
  ASSUME HistoryInv, HistoryInv', NEW r \in Requests, Knows(r),
         AnswerNoop(r) \/ CasMiss(r) \/ Reread(r)
  PROVE  Knows(r)' /\ Answered(r)'
  <1>1. TypeInv /\ TypeInv'
    BY DEF HistoryInv
  <1>2. /\ pc[r] \in {"noop", "update", "missed"}
        /\ UNCHANGED <<req, status, events>> /\ SameKnowledge(r)
    BY DEF AnswerNoop, CasMiss, Reread, ReadStep, records, SameKnowledge
  <1>3. pc[r] \in Active \ {"mail"}
    BY <1>2 DEF Active, Reading
  <1>4. PICK t \in Tasks, k \in Nat : t = req[r].task /\ k = req[r].seen
    BY <1>1, <1>3, BusyRequest, AnswersAreNotActive
  <1>5. events[t] \in Seq(EventRows)
    BY <1>1, <1>4 DEF TypeInv, TypeOK
  <1>6. TaskExists(t) => /\ status[t] = StatusAt(events[t], Len(events[t]))
                         /\ k <= Len(events[t])
                         /\ req[r].from = StatusAt(events[t], k)
    BY <1>3, <1>4, <1>5
       DEF HistoryInv, HistoryExplainsStatus, StatusAfter, StatusAt, Knows
  <1>7. CASE AnswerNoop(r)
    <2>1. pc'[r] = IF TaskExists(t) THEN "ok" ELSE "error"
      BY <1>1, <1>4, <1>7 DEF AnswerNoop, ReadStep, Goto, TypeInv, TypeOK
    <2>2. req'[r].from = Wants(r)'
      BY <1>2, <1>3, <1>7 DEF Knows, Wants, AnswerNoop, ReadStep
    <2>3. /\ pc'[r] \notin Active \cup {"noop", "update", "missed"}
          /\ pc'[r] \notin Rejections \cup {"conflict"}
      BY <2>1 DEF Active, Reading, InTx, Rejections
    <2>. QED BY <2>2, <2>3 DEF Knows, Answered
  <1>8. CASE CasMiss(r)
    <2>1. pc'[r] = "missed" /\ pc[r] = "update" /\ status[t] # req[r].from
      BY <1>1, <1>4, <1>8 DEF CasMiss, CasMatches, ReadStep, Goto, TypeInv, TypeOK
    <2>2. TaskExists(t) => k < Len(events[t])
      BY <1>5, <1>6, <2>1
    <2>3. Knows(r)'
      BY <1>2, <1>3, <1>4, <2>1, <2>2 DEF Knows, Wants, TaskExists
    <2>4. Answered(r)'
      BY <2>1 DEF Answered, Answers, Rejections
    <2>. QED BY <2>3, <2>4
  <1>9. CASE Reread(r)
    <2>1. /\ pc[r] = "missed"
          /\ pc'[r] = IF status[t] = Gone THEN "error"
                      ELSE IF status[t] = Wants(r) THEN "ok"
                      ELSE "conflict"
      BY <1>1, <1>4, <1>9 DEF Reread, ReadStep, Goto, TypeInv, TypeOK
    <2>2. pc'[r] \notin Active \cup {"noop", "update", "missed"} /\ req[r].event = 0
      BY <1>3, <2>1 DEF Active, Reading, InTx, Knows
    <2>3. TaskExists(t) =>
            /\ k < Len(events[t])
            /\ events[t][Len(events[t])].to = status[t]
      BY <1>3, <1>4, <1>5, <1>6, <2>1 DEF Knows, StatusAt
    <2>4. TaskExists(t) => Len(events[t]) \in Since(events[t], k)
      BY <1>5, <2>3 DEF Since
    <2>5. Answered(r)'
      BY <1>2, <1>4, <2>1, <2>2, <2>3, <2>4 DEF Answered, Wants, TaskExists
    <2>6. Knows(r)'
      BY <2>2 DEF Knows
    <2>. QED BY <2>5, <2>6
  <1>. QED BY <1>7, <1>8, <1>9

\* The commit logs the wanted move after everything the request has seen.
LEMMA CommitKnows ==
  ASSUME HistoryInv, HistoryInv', LogsGrow, NEW r \in Requests, Knows(r), Commit(r)
  PROVE  Knows(r)' /\ Answered(r)'
  <1>1. TypeInv /\ TypeInv' /\ pc[r] = "write"
    BY DEF HistoryInv, Commit
  <1>2. pc[r] \in Active
    BY <1>1 DEF Active, InTx
  <1>3. PICK t \in Tasks, k \in Nat : t = req[r].task /\ k = req[r].seen
    BY <1>1, BusyRequest
  <1>4. /\ pc'[r] \in {"mail", "ok"}
        /\ req'[r].task = t /\ req'[r].seen = k /\ req'[r].from = req[r].from
        /\ req'[r].body = req[r].body
    BY <1>1, <1>3, BusyRequest DEF Commit, Goto, TypeInv, TypeOK, RequestRecs
  <1>5. TaskExists(t)' =>
          /\ TaskExists(t)
          /\ Len(events[t]) \in Nat /\ Len(events'[t]) \in Nat
          /\ Len(events[t]) <= Len(events'[t])
          /\ k <= Len(events[t]) => StatusAt(events'[t], k) = StatusAt(events[t], k)
    BY <1>1, GrownLog
  <1>6. TaskExists(t) => k <= Len(events[t]) /\ req[r].from = StatusAt(events[t], k)
    BY <1>2, <1>3 DEF Knows
  <1>7. TaskExists(t)' => \E i \in Since(events'[t], k) : events'[t][i].to = Wants(r)
    <2>. DEFINE row == [from |-> req[r].from, to |-> Wants(r),
                        type |-> EventType(req[r].from, Wants(r)),
                        approval |-> ApprovalType(req[r].from, Wants(r)),
                        comment |-> req[r].body.comment,
                        actor |-> req[r].user, role |-> req[r].role]
    <2>1. events' = [events EXCEPT ![t] = Append(@, row)] /\ row.to = Wants(r)
      BY <1>3 DEF Commit
    <2>. HIDE DEF row
    <2>2. events[t] \in Seq(EventRows) /\ events'[t] = Append(events[t], row)
      BY <1>1, <2>1 DEF TypeInv, TypeOK
    <2>3. /\ Len(events'[t]) = Len(events[t]) + 1
          /\ events'[t][Len(events[t]) + 1].to = Wants(r)
      BY <2>1, <2>2
    <2>. SUFFICES ASSUME TaskExists(t)'
                  PROVE  \E i \in Since(events'[t], k) : events'[t][i].to = Wants(r)
      OBVIOUS
    <2>4. Len(events[t]) + 1 \in Since(events'[t], k)
      BY <1>5, <1>6, <2>3 DEF Since
    <2>. QED BY <2>3, <2>4
  <1>8. Wants(r)' = Wants(r)
    BY <1>4 DEF Wants
  <1>9. Knows(r)'
    <2>1. "ok" \notin Active
      BY DEF Active, Reading, InTx
    <2>. QED BY <1>4, <1>5, <1>6, <1>7, <1>8, <2>1 DEF Knows, TaskExists
  <1>10. Answered(r)'
    <2>1. "mail" \notin Answers /\ "ok" \notin Rejections
      BY DEF Answers, Rejections
    <2>. QED BY <1>4, <1>7, <1>8, <2>1 DEF Answered, TaskExists
  <1>. QED BY <1>9, <1>10

\* Whether its mail is queued or lost, the handoff of the request is in the log;
\* a failed request knows nothing, and a slot that is free was told nothing.
LEMMA EndingKnows ==
  ASSUME HistoryInv, NEW r \in Requests, Knows(r),
         EnqueueMail(r) \/ LoseMail(r) \/ Fail(r) \/ Return(r)
  PROVE  Knows(r)' /\ Answered(r)'
  <1>1. TypeInv
    BY DEF HistoryInv
  <1>2. CASE EnqueueMail(r) \/ LoseMail(r)
    <2>1. /\ pc[r] = "mail" /\ pc'[r] = "ok"
          /\ UNCHANGED <<req, status, events>>
      BY <1>1, <1>2 DEF EnqueueMail, LoseMail, ReadStep, Goto, records, TypeInv, TypeOK
    <2>2. /\ "mail" \in Active /\ "ok" \notin Active
          /\ "ok" \notin Rejections /\ "ok" # "conflict"
      BY DEF Active, Reading, InTx, Rejections
    <2>3. Knows(r)'
      BY <2>1, <2>2 DEF Knows
    <2>4. Answered(r)'
      BY <2>1, <2>2 DEF Knows, Answered, Wants, TaskExists
    <2>. QED BY <2>3, <2>4
  <1>3. CASE Fail(r)
    <2>1. pc'[r] = "error"
      BY <1>1, <1>3 DEF Fail, Rollback, Goto, TypeInv, TypeOK
    <2>. QED BY <2>1, HasFailed
  <1>4. CASE Return(r)
    <2>1. pc'[r] = "idle"
      BY <1>1, <1>4 DEF Return, Goto, TypeInv, TypeOK
    <2>. QED BY <2>1, AnswersAreNotActive DEF Knows, Answered
  <1>. QED BY <1>2, <1>3, <1>4

-----------------------------------------------------------------------------
(* The invariant.                                                          *)

\* A step of one request leaves the other requests and their places alone.
LEMMA OthersStandStill ==
  ASSUME TypeInv, NEW r \in Requests,
         \/ \E u \in Users, t \in Tasks, body \in Bodies : Receive(r, u, t, body)
         \/ Advance(r) \/ Cas(r) \/ Fail(r) \/ Return(r)
  PROVE  \A s \in Requests \ {r} : pc'[s] = pc[s] /\ req'[s] = req[s]
  <1>1. \/ \E u \in Users, t \in Tasks, body \in Bodies : Receive(r, u, t, body)
        \/ ReadRole(r) \/ CheckMembership(r) \/ CheckProject(r) \/ AnswerNoop(r)
        \/ Reread(r) \/ FindNamedClients(r) \/ AddNamedClients(r) \/ FindAllClients(r)
        \/ KeepProjectClients(r) \/ Commit(r) \/ EnqueueMail(r) \/ LoseMail(r)
        \/ CasHit(r) \/ CasMiss(r) \/ Fail(r) \/ Return(r)
    BY DEF Advance, Cas
  <1>2. PICK place : Goto(r, place)
    BY <1>1 DEF Receive, ReadRole, CheckMembership, CheckProject, AnswerNoop, Reread,
       FindNamedClients, AddNamedClients, FindAllClients, KeepProjectClients, Address, Commit,
       EnqueueMail, LoseMail, CasHit, CasMiss, Fail, Rollback, Return, ReadStep
  <1>3. \A s \in Requests \ {r} : req'[s] = req[s]
    BY <1>1 DEF Receive, ReadRole, CheckMembership, CheckProject, AnswerNoop, Reread,
       FindNamedClients, AddNamedClients, FindAllClients, KeepProjectClients, Address, Commit,
       EnqueueMail, LoseMail, CasHit, CasMiss, Fail, Rollback, Return, ReadStep,
       TypeInv, TypeOK
  <1>. QED BY <1>2, <1>3 DEF Goto, TypeInv, TypeOK

\* Every step keeps what is known and what was told in agreement with the logs.
LEMMA NextAnswerInv ==
  ASSUME AnswerInv, [Next]_vars
  PROVE  AnswerInv'
  <1>1. HistoryInv /\ HistoryInv' /\ TypeInv /\ TypeInv' /\ LogsGrow
    BY NextHistoryInv, NextLogsGrow DEF AnswerInv, HistoryInv
  <1>2. ASSUME NEW r \in Requests,
               \/ \E u \in Users, t \in Tasks, body \in Bodies : Receive(r, u, t, body)
               \/ Advance(r) \/ Cas(r) \/ Fail(r) \/ Return(r)
        PROVE  AnswerInv'
    <2>1. Knows(r)
      BY DEF AnswerInv
    <2>2. Knows(r)' /\ Answered(r)'
      BY <1>1, <1>2, <2>1, ReceiveKnows, ReadingKnows, CheckProjectKnows, MissKnows,
         CommitKnows, EndingKnows DEF Advance, Cas
    <2>3. ASSUME NEW s \in Requests, s # r
          PROVE  Knows(s)' /\ Answered(s)'
      <3>1. pc'[s] = pc[s] /\ req'[s] = req[s] /\ Knows(s) /\ Answered(s)
        BY <1>1, <1>2, <2>3, OthersStandStill DEF AnswerInv
      <3>. QED BY <1>1, <3>1, KnowledgeLasts
    <2>. QED BY <1>1, <2>2, <2>3 DEF AnswerInv
  <1>3. CASE Environment \/ UNCHANGED vars
    <2>1. UNCHANGED <<pc, req>>
      BY <1>3 DEF Environment, DeleteProject, AddProjectMember, RemoveProjectMember,
                  SetRole, vars
    <2>2. ASSUME NEW s \in Requests
          PROVE  Knows(s)' /\ Answered(s)'
      <3>1. pc'[s] = pc[s] /\ req'[s] = req[s] /\ Knows(s) /\ Answered(s)
        BY <2>1 DEF AnswerInv
      <3>. QED BY <1>1, <3>1, KnowledgeLasts
    <2>. QED BY <1>1, <2>2 DEF AnswerInv
  <1>. QED BY <1>2, <1>3 DEF Next

\* What a caller is told agrees with the task's log, for any number of racing
\* requests: "ok" means the move was logged since the task was loaded, or was
\* not needed; "conflict" that somebody else's move was; a refusal that the
\* request moved nothing.
THEOREM AnswersSafe == Spec => []AnswersMatchHistory
  <1>1. Init => AnswerInv
    <2>. SUFFICES ASSUME Init PROVE AnswerInv  OBVIOUS
    <2>1. HistoryInv
      BY InitTypeInv DEF Init, HistoryInv, LockKeepsStatus, HistoryExplainsStatus,
         StatusAfter, InTx
    <2>2. \A r \in Requests : pc[r] = "idle"
      BY DEF Init
    <2>3. \A r \in Requests : Knows(r) /\ Answered(r)
      BY <2>2, AnswersAreNotActive DEF Knows, Answered
    <2>. QED BY <2>1, <2>3 DEF AnswerInv
  <1>2. AnswerInv /\ [Next]_vars => AnswerInv'  BY NextAnswerInv
  <1>3. AnswerInv => AnswersMatchHistory
    BY DEF AnswerInv, Answered, Since, AnswersMatchHistory
  <1>. QED BY <1>1, <1>2, <1>3, PTL DEF Spec

-----------------------------------------------------------------------------
(***************************************************************************)
(* The client's acknowledgements, decisions and change requests are        *)
(* exactly the moves of the log.  The invariant needs that no move reaches *)
(* its transaction unchecked: it is the check that gives every change      *)
(* request the comment it is counted by.                                   *)
(***************************************************************************)
\* The consent records of one task, as a relation between its log and rows.
Signed(log, rows, ids) ==
  /\ {x.event : x \in rows} = ids
  /\ \A x \in rows : x.actor = log[x.event].actor

Moves(log, from, to) == {i \in 1..Len(log) : log[i].from = from /\ log[i].to = to}

Consents(log, ack, approved, changed, notes) ==
  /\ Signed(log, ack, Moves(log, "CLIENT_HANDOFF", "CLIENT_APPROVAL"))
  /\ Signed(log, approved, Moves(log, "CLIENT_APPROVAL", "PENDING_CLOSURE"))
  /\ Signed(log, changed, Moves(log, "CLIENT_APPROVAL", "PRODUCTION"))
  /\ notes = Cardinality(Moves(log, "CLIENT_APPROVAL", "PRODUCTION"))

AcksOf(t)         == {x \in acks : x.task = t}
DecisionsOf(t, a) == {x \in approvals : x.task = t /\ x.action = a}

ConsentOf(t) ==
  Consents(events[t], AcksOf(t), DecisionsOf(t, "APPROVED"),
           DecisionsOf(t, "CHANGES_REQUESTED"), changeNotes[t])

\* The property is the relation, for every task.
LEMMA ConsentByTask ==
  ConsentRecordsMatchHistory <=> \A t \in Tasks : ConsentOf(t)
  BY DEF ConsentRecordsMatchHistory, ConsentOf, Consents, Signed, SignedBy,
         Moves, MovesOf, AcksOf, DecisionsOf

LEMMA ConsentByTaskNext ==
  (\A t \in Tasks : ConsentOf(t)') => ConsentRecordsMatchHistory'
  BY DEF ConsentRecordsMatchHistory, ConsentOf, Consents, Signed, SignedBy,
         Moves, MovesOf, AcksOf, DecisionsOf

\* An empty log consents with no records.
LEMMA NothingConsents == Consents(<<>>, {}, {}, {}, 0)
  <1>1. \A from, to : Moves(<<>>, from, to) = {}
    BY DEF Moves
  <1>2. Cardinality({}) = 0
    BY FS_EmptySet
  <1>3. \A log : Signed(log, {}, {})
    BY DEF Signed
  <1>. QED BY <1>1, <1>2, <1>3 DEF Consents

-----------------------------------------------------------------------------
(* Appending one move.                                                     *)

\* The moves of a longer log.
LEMMA MovesAppend ==
  ASSUME NEW log \in Seq(EventRows), NEW row \in EventRows, NEW from, NEW to
  PROVE  Moves(Append(log, row), from, to) =
           Moves(log, from, to) \cup
             (IF row.from = from /\ row.to = to THEN {Len(log) + 1} ELSE {})
  <1>1. /\ Len(Append(log, row)) = Len(log) + 1
        /\ \A i \in 1..Len(log) : Append(log, row)[i] = log[i]
        /\ Append(log, row)[Len(log) + 1] = row
        /\ Len(log) \in Nat
    OBVIOUS
  <1>. QED BY <1>1 DEF Moves

\* The count of moves goes up by one with a move of that kind.
LEMMA CountAppend ==
  ASSUME NEW log \in Seq(EventRows), NEW row \in EventRows, NEW from, NEW to
  PROVE  Cardinality(Moves(Append(log, row), from, to)) =
           Cardinality(Moves(log, from, to)) +
             (IF row.from = from /\ row.to = to THEN 1 ELSE 0)
  <1>1. IsFiniteSet(Moves(log, from, to)) /\ Cardinality(Moves(log, from, to)) \in Nat
    <2>1. IsFiniteSet(1..Len(log))
      BY FS_Interval
    <2>2. Moves(log, from, to) \subseteq 1..Len(log)
      BY DEF Moves
    <2>. QED BY <2>1, <2>2, FS_Subset, FS_CardinalityType
  <1>2. Len(log) + 1 \notin Moves(log, from, to)
    BY DEF Moves
  <1>3. Cardinality(Moves(log, from, to) \cup {Len(log) + 1})
          = Cardinality(Moves(log, from, to)) + 1
    BY <1>1, <1>2, FS_AddElement
  <1>4. CASE row.from = from /\ row.to = to
    <2>1. Moves(Append(log, row), from, to) = Moves(log, from, to) \cup {Len(log) + 1}
      BY <1>4, MovesAppend
    <2>. QED BY <1>3, <1>4, <2>1
  <1>5. CASE ~(row.from = from /\ row.to = to)
    <2>1. Moves(Append(log, row), from, to) = Moves(log, from, to)
      <3>. DEFINE extra == IF row.from = from /\ row.to = to THEN {Len(log) + 1} ELSE {}
      <3>1. extra = {}
        BY <1>5
      <3>2. Moves(Append(log, row), from, to) = Moves(log, from, to) \cup extra
        BY MovesAppend
      <3>. HIDE DEF extra
      <3>. QED BY <3>1, <3>2
    <2>. QED BY <1>1, <1>5, <2>1
  <1>. QED BY <1>4, <1>5

\* Rows signed in a log stay signed in a longer one, and a row for the new
\* event is signed by its actor.
LEMMA SignedAppend ==
  ASSUME NEW log \in Seq(EventRows), NEW row \in EventRows, NEW from, NEW to,
         NEW rows, Signed(log, rows, Moves(log, from, to)),
         NEW x, x.event = Len(log) + 1, x.actor = row.actor
  PROVE  Signed(Append(log, row),
                rows \cup (IF row.from = from /\ row.to = to THEN {x} ELSE {}),
                Moves(Append(log, row), from, to))
  <1>. DEFINE hit == row.from = from /\ row.to = to
              new == Append(log, row)
  <1>1. /\ \A i \in 1..Len(log) : new[i] = log[i]
        /\ new[Len(log) + 1] = row
    OBVIOUS
  <1>2. Moves(log, from, to) \subseteq 1..Len(log)
    BY DEF Moves
  <1>3. \A y \in rows : y.event \in 1..Len(log) /\ y.actor = new[y.event].actor
    BY <1>1, <1>2 DEF Signed
  <1>4. {y.event : y \in rows} = Moves(log, from, to)
    BY DEF Signed
  <1>5. Moves(new, from, to) = Moves(log, from, to) \cup (IF hit THEN {Len(log) + 1} ELSE {})
    BY MovesAppend
  <1>. HIDE DEF new, hit
  <1>6. CASE hit
    <2>1. {y.event : y \in rows \cup {x}} = {y.event : y \in rows} \cup {x.event}
      OBVIOUS
    <2>. QED BY <1>1, <1>3, <1>4, <1>5, <1>6, <2>1 DEF Signed, new, hit
  <1>7. CASE ~hit
    BY <1>3, <1>4, <1>5, <1>7 DEF Signed, new, hit
  <1>. QED BY <1>6, <1>7

\* One more move, with the rows and the count the commit writes for it.
LEMMA ConsentsAppend ==
  ASSUME NEW log \in Seq(EventRows), NEW row \in EventRows,
         NEW ack, NEW approved, NEW changed, NEW notes \in Nat,
         Consents(log, ack, approved, changed, notes),
         NEW x, x.event = Len(log) + 1, x.actor = row.actor,
         NEW y, y.event = Len(log) + 1, y.actor = row.actor
  PROVE  Consents(Append(log, row),
           ack \cup (IF row.from = "CLIENT_HANDOFF" /\ row.to = "CLIENT_APPROVAL"
                     THEN {x} ELSE {}),
           approved \cup (IF row.from = "CLIENT_APPROVAL" /\ row.to = "PENDING_CLOSURE"
                          THEN {y} ELSE {}),
           changed \cup (IF row.from = "CLIENT_APPROVAL" /\ row.to = "PRODUCTION"
                         THEN {y} ELSE {}),
           notes + (IF row.from = "CLIENT_APPROVAL" /\ row.to = "PRODUCTION"
                    THEN 1 ELSE 0))
  BY SignedAppend, CountAppend DEF Consents

-----------------------------------------------------------------------------
(* Every move that reaches its transaction was checked.                    *)

MoveAllowed(r) ==
  Verdict(req[r].role, req[r].from, Wants(r), req[r].body.comment) = "ok"

MovesWereChecked ==
  \A r \in Requests : pc[r] \in {"update"} \cup InTx => MoveAllowed(r)

\* A request that was checked and keeps what it was checked with stays checked.
LEMMA StaysChecked ==
  ASSUME MovesWereChecked, NEW r \in Requests, pc[r] \in {"update"} \cup InTx,
         req'[r].role = req[r].role, req'[r].from = req[r].from,
         req'[r].body = req[r].body
  PROVE  MoveAllowed(r)'
  BY DEF MovesWereChecked, MoveAllowed, Wants

\* Every step keeps the moves checked.
LEMMA NextMovesChecked ==
  ASSUME TypeInv, MovesWereChecked, [Next]_vars
  PROVE  MovesWereChecked'
  <1>1. ASSUME NEW r \in Requests,
               \/ \E u \in Users, t \in Tasks, body \in Bodies : Receive(r, u, t, body)
               \/ ReadRole(r) \/ CheckMembership(r) \/ AnswerNoop(r)
               \/ CasMiss(r) \/ Reread(r) \/ Commit(r)
               \/ EnqueueMail(r) \/ LoseMail(r) \/ Fail(r) \/ Return(r)
        PROVE  MovesWereChecked'
    <2>1. PICK place : Goto(r, place) /\ place \notin {"update"} \cup InTx
      BY <1>1 DEF Receive, ReadRole, CheckMembership, AnswerNoop, CasMiss, Reread,
         Commit, EnqueueMail, LoseMail, Fail, Rollback, Return, ReadStep, InTx
    <2>2. pc'[r] \notin {"update"} \cup InTx
      BY <2>1 DEF Goto, TypeInv, TypeOK
    <2>3. \A s \in Requests \ {r} : pc'[s] = pc[s] /\ req'[s] = req[s]
      BY <1>1, <2>1 DEF Receive, ReadRole, CheckMembership, AnswerNoop, CasMiss,
         Reread, Commit, EnqueueMail, LoseMail, Fail, Rollback, Return, Goto,
         TypeInv, TypeOK
    <2>. QED BY <2>2, <2>3, StaysChecked DEF MovesWereChecked
  <1>2. ASSUME NEW r \in Requests, CheckProject(r)
        PROVE  MovesWereChecked'
    <2>1. UNCHANGED req /\ \A s \in Requests \ {r} : pc'[s] = pc[s]
      BY <1>2 DEF CheckProject, ReadStep, Goto, TypeInv, TypeOK
    <2>2. pc'[r] \in {"update"} \cup InTx => MoveAllowed(r)
      BY <1>2, VerdictType DEF CheckProject, ReadStep, Goto, MoveAllowed, InTx,
         TypeInv, TypeOK
    <2>3. ASSUME NEW s \in Requests, pc'[s] \in {"update"} \cup InTx
          PROVE  MoveAllowed(s)
      BY <2>1, <2>2, <2>3 DEF MovesWereChecked
    <2>. QED BY <2>1, <2>3 DEF MovesWereChecked, MoveAllowed, Wants
  <1>3. ASSUME NEW r \in Requests, CasHit(r)
        PROVE  MovesWereChecked'
    <2>1. UNCHANGED req /\ pc[r] = "update" /\ \A s \in Requests \ {r} : pc'[s] = pc[s]
      BY <1>3 DEF CasHit, Goto, TypeInv, TypeOK
    <2>. QED BY <2>1, StaysChecked DEF MovesWereChecked
  <1>4. ASSUME NEW r \in Requests,
               FindNamedClients(r) \/ AddNamedClients(r) \/ FindAllClients(r)
                 \/ KeepProjectClients(r)
        PROVE  MovesWereChecked'
    <2>1. /\ pc[r] \in InTx
          /\ \/ Rollback(r, "badrequest")
             \/ \E there, recipients, added : Address(r, there, recipients, added)
      BY <1>4 DEF FindNamedClients, AddNamedClients, FindAllClients, KeepProjectClients, InTx
    <2>2. req[r] \in RequestRecs
      BY <2>1 DEF TypeInv, TypeOK, InTx
    <2>3. \A s \in Requests \ {r} : pc'[s] = pc[s] /\ req'[s] = req[s]
      BY <2>1 DEF Rollback, Address, Goto, TypeInv, TypeOK
    <2>4. /\ req'[r].role = req[r].role /\ req'[r].from = req[r].from
          /\ req'[r].body = req[r].body
      BY <2>1, <2>2 DEF Rollback, Address, TypeInv, TypeOK, RequestRecs
    <2>. QED BY <2>1, <2>3, <2>4, StaysChecked DEF MovesWereChecked
  <1>5. CASE Environment \/ UNCHANGED vars
    <2>1. UNCHANGED <<pc, req>>
      BY <1>5 DEF Environment, DeleteProject, AddProjectMember, RemoveProjectMember,
                  SetRole, vars
    <2>. QED BY <2>1 DEF MovesWereChecked, MoveAllowed, Wants
  <1>. QED BY <1>1, <1>2, <1>3, <1>4, <1>5 DEF Next, Advance, Cas

\* A checked change request carries its comment.
LEMMA ChangeRequestHasComment ==
  ASSUME NEW r \in Requests, MoveAllowed(r),
         ApprovalType(req[r].from, Wants(r)) = "CHANGES_REQUESTED"
  PROVE  req[r].body.comment
  BY DEF MoveAllowed, Verdict, ResolvedRequiresComment

-----------------------------------------------------------------------------
(* The records match the log.                                              *)

ConsentInv ==
  HistoryInv /\ MovesWereChecked /\ ConsentRecordsMatchHistory

\* The commit writes, with the move, the row and the comment that match it.
LEMMA CommitConsents ==
  ASSUME ConsentInv, NEW r \in Requests, Commit(r)
  PROVE  ConsentRecordsMatchHistory'
  <1>. DEFINE from == req[r].from
              to   == Wants(r)
              row  == [from |-> from, to |-> to, type |-> EventType(from, to),
                       approval |-> ApprovalType(from, to),
                       comment |-> req[r].body.comment,
                       actor |-> req[r].user, role |-> req[r].role]
  <1>1. TypeInv /\ pc[r] = "write" /\ pc[r] \in InTx
    BY DEF ConsentInv, HistoryInv, Commit, InTx
  <1>2. /\ req[r] \in RequestRecs /\ req[r].task \in Tasks
        /\ req[r].from # Gone /\ req[r].role \in Roles
    BY <1>1 DEF TypeInv, TypeOK, RequestsCarryChecks, Active, Checked, InTx, RequestRecs
  <1>3. row \in EventRows
    BY <1>2, ConstantsOK, EventTypeType, ApprovalTypeType
       DEF EventRows, RequestRecs, Wants
  <1>4. MoveAllowed(r)
    BY <1>1 DEF ConsentInv, MovesWereChecked
  <1>5. ASSUME NEW t \in Tasks
        PROVE  ConsentOf(t)'
    <2>1. ConsentOf(t)
      BY ConsentByTask DEF ConsentInv
    <2>2. CASE t # req[r].task
      <3>1. events'[t] = events[t] /\ changeNotes'[t] = changeNotes[t]
        BY <1>1, <1>2, <2>2 DEF Commit, TypeInv, TypeOK
      <3>2. AcksOf(t)' = AcksOf(t)
        BY <2>2 DEF Commit, AcksOf
      <3>3. \A a : DecisionsOf(t, a)' = DecisionsOf(t, a)
        BY <2>2 DEF Commit, DecisionsOf
      <3>. QED BY <2>1, <3>1, <3>2, <3>3 DEF ConsentOf
    <2>3. CASE t = req[r].task
      <3>. DEFINE id  == Len(events[t]) + 1
                  ack == [task |-> t, event |-> id, actor |-> req[r].user]
                  decision == [task |-> t, event |-> id, actor |-> req[r].user,
                               action |-> ApprovalType(from, to)]
      <3>1. /\ events[t] \in Seq(EventRows) /\ events'[t] = Append(events[t], row)
            /\ changeNotes[t] \in Nat
        BY <1>1, <1>2, <2>3 DEF Commit, TypeInv, TypeOK
      <3>2. AcksOf(t)' = AcksOf(t) \cup
              (IF from = "CLIENT_HANDOFF" /\ to = "CLIENT_APPROVAL" THEN {ack} ELSE {})
        BY <2>3 DEF Commit, AcksOf, EventType
      <3>3. DecisionsOf(t, "APPROVED")' = DecisionsOf(t, "APPROVED") \cup
              (IF from = "CLIENT_APPROVAL" /\ to = "PENDING_CLOSURE"
               THEN {decision} ELSE {})
        BY <2>3 DEF Commit, DecisionsOf, EventType, ApprovalType, NoApproval
      <3>4. DecisionsOf(t, "CHANGES_REQUESTED")' =
              DecisionsOf(t, "CHANGES_REQUESTED") \cup
              (IF from = "CLIENT_APPROVAL" /\ to = "PRODUCTION"
               THEN {decision} ELSE {})
        BY <2>3 DEF Commit, DecisionsOf, EventType, ApprovalType, NoApproval
      <3>5. changeNotes'[t] = changeNotes[t] +
              (IF from = "CLIENT_APPROVAL" /\ to = "PRODUCTION" THEN 1 ELSE 0)
        <4>1. ApprovalType(from, to) = "CHANGES_REQUESTED"
                <=> from = "CLIENT_APPROVAL" /\ to = "PRODUCTION"
          BY DEF ApprovalType, NoApproval
        <4>2. ApprovalType(from, to) = "CHANGES_REQUESTED" => req[r].body.comment
          BY <1>4, ChangeRequestHasComment
        <4>. QED BY <1>1, <1>2, <2>3, <3>1, <4>1, <4>2 DEF Commit, TypeInv, TypeOK
      <3>6. /\ ack.event = id /\ ack.actor = row.actor
            /\ decision.event = id /\ decision.actor = row.actor
            /\ row.from = from /\ row.to = to
        OBVIOUS
      <3>. HIDE DEF row, ack, decision, from, to
      <3>7. Consents(events[t], AcksOf(t), DecisionsOf(t, "APPROVED"),
                     DecisionsOf(t, "CHANGES_REQUESTED"), changeNotes[t])
        BY <2>1 DEF ConsentOf
      <3>8. Consents(Append(events[t], row), AcksOf(t)', DecisionsOf(t, "APPROVED")',
                     DecisionsOf(t, "CHANGES_REQUESTED")', changeNotes'[t])
        <4>1. Consents(Append(events[t], row),
                AcksOf(t) \cup
                  (IF row.from = "CLIENT_HANDOFF" /\ row.to = "CLIENT_APPROVAL"
                   THEN {ack} ELSE {}),
                DecisionsOf(t, "APPROVED") \cup
                  (IF row.from = "CLIENT_APPROVAL" /\ row.to = "PENDING_CLOSURE"
                   THEN {decision} ELSE {}),
                DecisionsOf(t, "CHANGES_REQUESTED") \cup
                  (IF row.from = "CLIENT_APPROVAL" /\ row.to = "PRODUCTION"
                   THEN {decision} ELSE {}),
                changeNotes[t] +
                  (IF row.from = "CLIENT_APPROVAL" /\ row.to = "PRODUCTION"
                   THEN 1 ELSE 0))
          BY <1>3, <3>1, <3>6, <3>7, ConsentsAppend
        <4>. QED BY <3>2, <3>3, <3>4, <3>5, <3>6, <4>1
      <3>. QED BY <3>1, <3>8 DEF ConsentOf
    <2>. QED BY <2>2, <2>3
  <1>. QED BY <1>5, ConsentByTaskNext

\* The deletion of the project takes the logs and the records together.
LEMMA DeletionConsents ==
  ASSUME DeleteProject
  PROVE  ConsentRecordsMatchHistory'
  <1>1. ASSUME NEW t \in Tasks
        PROVE  ConsentOf(t)'
    <2>1. /\ events'[t] = <<>> /\ changeNotes'[t] = 0
          /\ acks' = {} /\ approvals' = {}
      BY DEF DeleteProject
    <2>2. AcksOf(t)' = {} /\ \A a : DecisionsOf(t, a)' = {}
      BY <2>1 DEF AcksOf, DecisionsOf
    <2>. QED BY <2>1, <2>2, NothingConsents DEF ConsentOf
  <1>. QED BY <1>1, ConsentByTaskNext

\* Every step keeps the consent invariant.
LEMMA NextConsentInv ==
  ASSUME ConsentInv, [Next]_vars
  PROVE  ConsentInv'
  <1>1. HistoryInv' /\ MovesWereChecked'
    BY NextHistoryInv, NextMovesChecked DEF ConsentInv, HistoryInv
  <1>2. CASE \E r \in Requests : Commit(r)
    BY <1>1, <1>2, CommitConsents DEF ConsentInv
  <1>3. CASE DeleteProject
    BY <1>1, <1>3, DeletionConsents DEF ConsentInv
  <1>4. CASE ~DeleteProject /\ \A r \in Requests : ~Commit(r)
    <2>1. UNCHANGED <<events, acks, approvals, changeNotes>>
      BY <1>4 DEF Next, Advance, Cas, Environment, Receive, ReadRole, CheckMembership,
         CheckProject, AnswerNoop, CasHit, CasMiss, Reread, FindNamedClients, AddNamedClients,
         FindAllClients, KeepProjectClients, Address, EnqueueMail, LoseMail, Fail,
         Rollback, Return, ReadStep, AddProjectMember, RemoveProjectMember, SetRole,
         records, vars
    <2>2. ASSUME NEW t \in Tasks
          PROVE  ConsentOf(t)'
      <3>1. ConsentOf(t)
        BY ConsentByTask DEF ConsentInv
      <3>. QED BY <2>1, <3>1 DEF ConsentOf, AcksOf, DecisionsOf
    <2>. QED BY <1>1, <2>2, ConsentByTaskNext DEF ConsentInv
  <1>. QED BY <1>2, <1>3, <1>4

LEMMA InitConsentInv == Init => ConsentInv
  <1>. SUFFICES ASSUME Init PROVE ConsentInv  OBVIOUS
  <1>1. HistoryInv
    BY InitTypeInv DEF Init, HistoryInv, LockKeepsStatus, HistoryExplainsStatus,
       StatusAfter, InTx
  <1>2. MovesWereChecked
    BY DEF Init, MovesWereChecked, InTx
  <1>3. ASSUME NEW t \in Tasks
        PROVE  ConsentOf(t)
    <2>1. events[t] = <<>> /\ changeNotes[t] = 0 /\ acks = {} /\ approvals = {}
      BY DEF Init
    <2>2. AcksOf(t) = {} /\ \A a : DecisionsOf(t, a) = {}
      BY <2>1 DEF AcksOf, DecisionsOf
    <2>. QED BY <2>1, <2>2, NothingConsents DEF ConsentOf
  <1>. QED BY <1>1, <1>2, <1>3, ConsentByTask DEF ConsentInv

\* The consent records are exactly the client decisions in the log, for any
\* number of requests, users and tasks and whatever fails: one acknowledgement
\* per acceptance, one row per decision, one comment per change request, each
\* signed by the user who made the move (tasks-transition.service.ts:99-187).
THEOREM ConsentSafe == Spec => []ConsentRecordsMatchHistory
  <1>1. Init => ConsentInv  BY InitConsentInv
  <1>2. ConsentInv /\ [Next]_vars => ConsentInv'  BY NextConsentInv
  <1>3. ConsentInv => ConsentRecordsMatchHistory  BY DEF ConsentInv
  <1>. QED BY <1>1, <1>2, <1>3, PTL DEF Spec

-----------------------------------------------------------------------------
(* The service implements TaskApproval.  The round that RoundOf reads off   *)
(* the records is a function of the status; every move of the matrix is     *)
(* then a move of the round, or leaves it as it is.                         *)

\* The round of a task in a status.
RoundAt(s) ==
  CASE s = Gone              -> "deleted"
    [] s = "CLIENT_HANDOFF"  -> "sent"
    [] s = "CLIENT_APPROVAL" -> "accepted"
    [] s = "PENDING_CLOSURE" -> "approved"
    [] s = "DONE"            -> "closed"
    [] OTHER                 -> "drafting"

\* The log has the move, with no handoff after it.
Current(log, i) == \A j \in i + 1 .. Len(log) : log[j].to # "CLIENT_HANDOFF"

ThisRound(log, from, to) ==
  \E i \in Moves(log, from, to) : Current(log, i)

\* Everybody in the log was allowed to make the move.
LogAllowed(log) ==
  \A i \in 1..Len(log) : CanTransition(log[i].role, log[i].from, log[i].to)

\* What a log has of the present round when the task is in status s.
Stands(log, s) ==
  LET sent     == ThisRound(log, "CLIENT_HANDOFF", "CLIENT_APPROVAL")
      approved == ThisRound(log, "CLIENT_APPROVAL", "PENDING_CLOSURE")
      refused  == ThisRound(log, "CLIENT_APPROVAL", "PRODUCTION")
  IN
  /\ (\E i \in 1..Len(log) : log[i].to = "DONE") <=> s = "DONE"
  /\ approved <=> s \in {"PENDING_CLOSURE", "DONE"}
  /\ s = "CLIENT_HANDOFF"  => ~sent /\ ~refused
  /\ s = "CLIENT_APPROVAL" => sent /\ ~refused
  /\ s \in {"BRIEF", "PRODUCTION", "INTERNAL_REVIEW"} => (sent => refused)

RoundInv ==
  /\ ConsentInv
  /\ \A t \in Tasks : TaskExists(t) =>
       LogAllowed(events[t]) /\ Stands(events[t], status[t])

\* A handoff begins a new round, any other move is of the round it was made in.
LEMMA RoundAppend ==
  ASSUME NEW log \in Seq(EventRows), NEW row \in EventRows, NEW from, NEW to
  PROVE  ThisRound(Append(log, row), from, to) <=>
           \/ row.from = from /\ row.to = to
           \/ row.to # "CLIENT_HANDOFF" /\ ThisRound(log, from, to)
  <1>. DEFINE new == Append(log, row)
  <1>1. /\ Len(log) \in Nat /\ Len(new) = Len(log) + 1
        /\ \A i \in 1..Len(log) : new[i] = log[i]
        /\ new[Len(log) + 1] = row
    OBVIOUS
  <1>2. Moves(new, from, to) =
          Moves(log, from, to) \cup
            (IF row.from = from /\ row.to = to THEN {Len(log) + 1} ELSE {})
    BY MovesAppend
  <1>3. Moves(log, from, to) \subseteq 1..Len(log)
    BY DEF Moves
  <1>. HIDE DEF new
  <1>4. Current(new, Len(log) + 1)
    BY <1>1 DEF Current
  <1>5. \A i \in 1..Len(log) :
          Current(new, i) <=> Current(log, i) /\ row.to # "CLIENT_HANDOFF"
    BY <1>1 DEF Current
  <1>6. ThisRound(new, from, to) <=>
          \/ row.from = from /\ row.to = to
          \/ row.to # "CLIENT_HANDOFF" /\ ThisRound(log, from, to)
    BY <1>1, <1>2, <1>3, <1>4, <1>5 DEF ThisRound
  <1>. QED BY <1>6 DEF new

\* The moves the matrix allows, each by one side.
LEMMA AllowedMoves ==
  ASSUME NEW who, NEW from, NEW to, CanTransition(who, from, to)
  PROVE  /\ \/ from = "BRIEF"           /\ to = "PRODUCTION"
            \/ from = "PRODUCTION"      /\ to = "INTERNAL_REVIEW"
            \/ from = "INTERNAL_REVIEW" /\ to = "PRODUCTION"
            \/ from = "INTERNAL_REVIEW" /\ to = "CLIENT_HANDOFF"
            \/ from = "CLIENT_HANDOFF"  /\ to = "INTERNAL_REVIEW"
            \/ from = "CLIENT_HANDOFF"  /\ to = "CLIENT_APPROVAL"
            \/ from = "CLIENT_APPROVAL" /\ to = "PENDING_CLOSURE"
            \/ from = "CLIENT_APPROVAL" /\ to = "PRODUCTION"
            \/ from = "PENDING_CLOSURE" /\ to = "DONE"
         /\ to \in {"CLIENT_HANDOFF", "DONE"} => who \in AGENCY_ROLES
         /\ from = "CLIENT_APPROVAL" \/ to = "CLIENT_APPROVAL" => who = "CLIENT_VIEW"
  BY DEF CanTransition, TRANSITION_RULES, Rule, AGENCY_ROLES

\* An allowed move takes the log from one status to the next.
LEMMA StandsAppend ==
  ASSUME NEW log \in Seq(EventRows), NEW row \in EventRows,
         LogAllowed(log), Stands(log, row.from),
         CanTransition(row.role, row.from, row.to)
  PROVE  LogAllowed(Append(log, row)) /\ Stands(Append(log, row), row.to)
  <1>. DEFINE new == Append(log, row)
  <1>1. /\ Len(log) \in Nat /\ Len(new) = Len(log) + 1
        /\ \A i \in 1..Len(log) : new[i] = log[i]
        /\ new[Len(log) + 1] = row
    OBVIOUS
  <1>2. \A from, to : ThisRound(new, from, to) <=>
          \/ row.from = from /\ row.to = to
          \/ row.to # "CLIENT_HANDOFF" /\ ThisRound(log, from, to)
    BY RoundAppend
  <1>. HIDE DEF new
  <1>3. LogAllowed(new)
    BY <1>1 DEF LogAllowed
  <1>4. (\E i \in 1..Len(new) : new[i].to = "DONE") <=>
          row.to = "DONE" \/ \E i \in 1..Len(log) : log[i].to = "DONE"
    BY <1>1
  <1>5. Stands(new, row.to)
    BY <1>2, <1>4, AllowedMoves DEF Stands
  <1>. QED BY <1>3, <1>5 DEF new

\* A move that commits was checked against the matrix.
LEMMA CommitStands ==
  ASSUME RoundInv, NEW r \in Requests, Commit(r), NEW t \in Tasks, TaskExists(t)'
  PROVE  LogAllowed(events'[t]) /\ Stands(events'[t], status'[t])
  <1>. DEFINE from == req[r].from
              to   == Wants(r)
              row  == [from |-> from, to |-> to, type |-> EventType(from, to),
                       approval |-> ApprovalType(from, to),
                       comment |-> req[r].body.comment,
                       actor |-> req[r].user, role |-> req[r].role]
  <1>1. TypeInv /\ pc[r] = "write" /\ pc[r] \in InTx
    BY DEF RoundInv, ConsentInv, HistoryInv, Commit, InTx
  <1>2. /\ req[r] \in RequestRecs /\ req[r].task \in Tasks
        /\ req[r].from # Gone /\ req[r].role \in Roles
    BY <1>1 DEF TypeInv, TypeOK, RequestsCarryChecks, Active, Checked, InTx, RequestRecs
  <1>3. row \in EventRows
    BY <1>2, ConstantsOK, EventTypeType, ApprovalTypeType
       DEF EventRows, RequestRecs, Wants
  <1>4. CASE t # req[r].task
    <2>1. events'[t] = events[t] /\ status'[t] = status[t]
      BY <1>1, <1>2, <1>4 DEF Commit, TypeInv, TypeOK
    <2>. QED BY <2>1 DEF RoundInv, TaskExists
  <1>5. CASE t = req[r].task
    <2>1. /\ events[t] \in Seq(EventRows) /\ events'[t] = Append(events[t], row)
          /\ status'[t] = to
      BY <1>1, <1>2, <1>5 DEF Commit, TypeInv, TypeOK
    <2>2. status[t] = from
      BY <1>1, <1>5 DEF RoundInv, ConsentInv, HistoryInv, LockKeepsStatus
    <2>3. CanTransition(req[r].role, from, to)
      BY <1>1 DEF RoundInv, ConsentInv, MovesWereChecked, MoveAllowed, Verdict
    <2>4. LogAllowed(events[t]) /\ Stands(events[t], from)
      BY <1>2, <2>2 DEF RoundInv, TaskExists
    <2>5. row.from = from /\ row.to = to /\ row.role = req[r].role
      OBVIOUS
    <2>. HIDE DEF row, from, to
    <2>. QED BY <1>3, <2>1, <2>3, <2>4, <2>5, StandsAppend
  <1>. QED BY <1>4, <1>5

\* Only a commit or the deletion of the project touches a status or a log.
LEMMA StatusStaysPut ==
  ASSUME [Next]_vars, ~DeleteProject, \A r \in Requests : ~Commit(r)
  PROVE  UNCHANGED <<status, events, acks, approvals>>
  BY DEF Next, Advance, Cas, Environment, Receive, ReadRole, CheckMembership,
     CheckProject, AnswerNoop, CasHit, CasMiss, Reread, FindNamedClients, AddNamedClients,
     FindAllClients, KeepProjectClients, Address, EnqueueMail, LoseMail, Fail,
     Rollback, Return, ReadStep, AddProjectMember, RemoveProjectMember, SetRole,
     records, vars

LEMMA NextRoundInv ==
  ASSUME RoundInv, [Next]_vars
  PROVE  RoundInv'
  <1>1. ConsentInv'
    BY NextConsentInv DEF RoundInv
  <1>2. CASE \E r \in Requests : Commit(r)
    BY <1>1, <1>2, CommitStands DEF RoundInv
  <1>3. CASE DeleteProject
    <2>1. \A t \in Tasks : ~TaskExists(t)'
      BY <1>3 DEF DeleteProject, TaskExists
    <2>. QED BY <1>1, <2>1 DEF RoundInv
  <1>4. CASE ~DeleteProject /\ \A r \in Requests : ~Commit(r)
    <2>1. UNCHANGED <<status, events>>
      BY <1>4, StatusStaysPut
    <2>. QED BY <1>1, <2>1 DEF RoundInv, TaskExists
  <1>. QED BY <1>2, <1>3, <1>4

LEMMA InitRoundInv == Init => RoundInv
  <1>. SUFFICES ASSUME Init PROVE RoundInv  OBVIOUS
  <1>1. ConsentInv
    BY InitConsentInv
  <1>2. ASSUME NEW t \in Tasks
        PROVE  LogAllowed(events[t]) /\ Stands(events[t], status[t])
    <2>1. events[t] = <<>> /\ status[t] = "BRIEF"
      BY DEF Init
    <2>2. \A from, to : Moves(<<>>, from, to) = {}
      BY DEF Moves
    <2>. QED BY <2>1, <2>2 DEF LogAllowed, Stands, ThisRound
  <1>. QED BY <1>1, <1>2 DEF RoundInv

\* The round that the records tell is the one of the status.
LEMMA RoundIsOfStatus ==
  ASSUME RoundInv, NEW t \in Tasks
  PROVE  RoundOf(t) = RoundAt(status[t])
  <1>. DEFINE log == events[t]
  <1>1. CASE ~TaskExists(t)
    BY <1>1 DEF RoundOf, RoundAt, TaskExists, Gone
  <1>2. CASE TaskExists(t)
    <2>1. /\ log \in Seq(EventRows) /\ status[t] \in Statuses
          /\ LogAllowed(log) /\ Stands(log, status[t])
      BY <1>2 DEF RoundInv, ConsentInv, HistoryInv, TypeInv, TypeOK, TaskExists
    <2>2. /\ {x.event : x \in AcksOf(t)} = Moves(log, "CLIENT_HANDOFF", "CLIENT_APPROVAL")
          /\ {x.event : x \in DecisionsOf(t, "APPROVED")}
               = Moves(log, "CLIENT_APPROVAL", "PENDING_CLOSURE")
          /\ {x.event : x \in DecisionsOf(t, "CHANGES_REQUESTED")}
               = Moves(log, "CLIENT_APPROVAL", "PRODUCTION")
      BY ConsentByTask DEF RoundInv, ConsentInv, ConsentOf, Consents, Signed
    <2>3. \A from, to : \A i \in Moves(log, from, to) :
            /\ i \in 1..Len(log)
            /\ from = "CLIENT_APPROVAL" \/ to = "CLIENT_APPROVAL"
                 => log[i].role = "CLIENT_VIEW"
      BY <2>1, AllowedMoves DEF LogAllowed, Moves
    <2>4. Acknowledged(t) <=> ThisRound(log, "CLIENT_HANDOFF", "CLIENT_APPROVAL")
      <3>1. Acknowledged(t) <=> \E i \in {x.event : x \in AcksOf(t)} :
              Current(log, i) /\ log[i].role = "CLIENT_VIEW"
        BY DEF Acknowledged, AcksOf, CurrentRound, Current, MovedBy
      <3>. QED BY <2>2, <2>3, <3>1 DEF ThisRound
    <2>5. ASSUME NEW a
          PROVE  Decided(t, a) <=> \E i \in {x.event : x \in DecisionsOf(t, a)} :
                   Current(log, i) /\ log[i].role = "CLIENT_VIEW"
      BY DEF Decided, DecisionsOf, CurrentRound, Current, MovedBy
    <2>6. /\ Decided(t, "APPROVED") <=> ThisRound(log, "CLIENT_APPROVAL", "PENDING_CLOSURE")
          /\ Decided(t, "CHANGES_REQUESTED") <=> ThisRound(log, "CLIENT_APPROVAL", "PRODUCTION")
      BY <2>2, <2>3, <2>5 DEF ThisRound
    <2>7. Closed(t) <=> status[t] = "DONE"
      <3>1. \A i \in 1..Len(log) : log[i].to = "DONE" => log[i].role \in AGENCY_ROLES
        BY <2>1, AllowedMoves DEF LogAllowed
      <3>2. Closed(t) <=> \E i \in 1..Len(log) : log[i].to = "DONE"
        BY <3>1 DEF Closed, MovedBy
      <3>. QED BY <2>1, <3>2 DEF Stands
    <2>8. JustSent(t) <=> status[t] = "CLIENT_HANDOFF"
      <3>1. status[t] = StatusAfter(log)
        BY <1>2 DEF RoundInv, ConsentInv, HistoryInv, HistoryExplainsStatus
      <3>2. Len(log) \in Nat /\ (Len(log) = 0 <=> log = <<>>)
        BY <2>1
      <3>3. \A i \in 1..Len(log) : log[i].to = "CLIENT_HANDOFF" => log[i].role \in AGENCY_ROLES
        BY <2>1, AllowedMoves DEF LogAllowed
      <3>. QED BY <3>1, <3>2, <3>3 DEF JustSent, MovedBy, StatusAfter
    <2>. HIDE DEF log
    <2>. QED BY <1>2, <2>1, <2>4, <2>6, <2>7, <2>8
             DEF RoundOf, RoundAt, Stands, Statuses, TaskExists, Gone
  <1>. QED BY <1>1, <1>2

RoundsOf(s) == [t \in Tasks |-> RoundAt(s[t])]

\* The refinement mapping of the property, as a function of the statuses.
LEMMA RoundsAreOfStatuses ==
  RoundInv => [t \in Tasks |-> RoundOf(t)] = RoundsOf(status)
  BY RoundIsOfStatus DEF RoundsOf

LEMMA RoundsAreOfStatusesNext ==
  RoundInv' => [t \in Tasks |-> RoundOf(t)]' = RoundsOf(status')
  <1>1. (RoundInv => [t \in Tasks |-> RoundOf(t)] = RoundsOf(status))'
    BY RoundsAreOfStatuses, PTL
  <1>. QED BY <1>1 DEF RoundsOf

\* The moves of TaskApproval.
RoundMoves ==
  {<<"drafting", "sent">>, <<"sent", "drafting">>, <<"sent", "accepted">>,
   <<"accepted", "approved">>, <<"accepted", "drafting">>, <<"approved", "closed">>}

\* A move that commits is a move of the task's round or leaves it as it is.
LEMMA CommitImplements ==
  ASSUME RoundInv, RoundInv', NEW r \in Requests, Commit(r)
  PROVE  \/ RoundsOf(status') = RoundsOf(status)
         \/ \E t \in Tasks, m \in RoundMoves :
              /\ RoundsOf(status)[t] = m[1]
              /\ RoundsOf(status') = [RoundsOf(status) EXCEPT ![t] = m[2]]
  <1>. DEFINE t  == req[r].task
              to == Wants(r)
  <1>1. /\ pc[r] = "write" /\ pc[r] \in InTx /\ t \in Tasks
        /\ status \in [Tasks -> Statuses \cup {Gone}]
    BY DEF RoundInv, ConsentInv, HistoryInv, TypeInv, TypeOK, Commit, InTx, RequestRecs
  <1>2. status' = [status EXCEPT ![t] = to]
    BY DEF Commit
  <1>3. CanTransition(req[r].role, status[t], to)
    BY <1>1 DEF RoundInv, ConsentInv, HistoryInv, LockKeepsStatus, MovesWereChecked,
                MoveAllowed, Verdict
  <1>. HIDE DEF t, to
  <1>4. /\ RoundsOf(status)[t] = RoundAt(status[t])
        /\ RoundsOf(status') = [RoundsOf(status) EXCEPT ![t] = RoundAt(to)]
    BY <1>1, <1>2 DEF RoundsOf
  <1>5. \/ RoundAt(to) = RoundAt(status[t])
        \/ <<RoundAt(status[t]), RoundAt(to)>> \in RoundMoves
    BY <1>3, AllowedMoves DEF RoundAt, RoundMoves, Gone
  <1>6. CASE RoundAt(to) = RoundAt(status[t])
    BY <1>1, <1>4, <1>6 DEF RoundsOf
  <1>7. CASE RoundAt(to) # RoundAt(status[t])
    BY <1>1, <1>4, <1>5, <1>7
  <1>. QED BY <1>6, <1>7

\* Every step of the service is a step of TaskApproval or a stutter.
LEMMA NextImplements ==
  ASSUME RoundInv, RoundInv', [Next]_vars
  PROVE  [Approval!Next]_([t \in Tasks |-> RoundOf(t)])
  <1>. DEFINE rounds == [t \in Tasks |-> RoundOf(t)]
  <1>1. rounds = RoundsOf(status)
    BY RoundsAreOfStatuses
  <1>2. rounds' = RoundsOf(status')
    BY RoundsAreOfStatusesNext
  <1>. HIDE DEF rounds
  <1>3. CASE \E r \in Requests : Commit(r)
    <2>1. CASE rounds' = rounds
      BY <2>1 DEF rounds
    <2>2. CASE rounds' # rounds
      <3>1. PICK t \in Tasks, m \in RoundMoves :
              rounds[t] = m[1] /\ rounds' = [rounds EXCEPT ![t] = m[2]]
        BY <1>1, <1>2, <1>3, <2>2, CommitImplements
      <3>2. Approval!Move(t, m[1], m[2])
        BY <3>1 DEF rounds, Approval!Move
      <3>3. \/ Approval!Send(t)    \/ Approval!Recall(t)         \/ Approval!Accept(t)
            \/ Approval!Approve(t) \/ Approval!RequestChanges(t) \/ Approval!Close(t)
        BY <3>2 DEF RoundMoves, Approval!Send, Approval!Recall, Approval!Accept,
                    Approval!RequestChanges, Approval!Approve, Approval!Close
      <3>. QED BY <3>3 DEF Approval!Next
    <2>. QED BY <2>1, <2>2
  <1>4. CASE DeleteProject
    <2>1. RoundsOf(status') = [t \in Tasks |-> "deleted"]
      BY <1>4 DEF DeleteProject, RoundsOf, RoundAt, Gone
    <2>. QED BY <1>2, <2>1 DEF rounds, Approval!Next, Approval!DeleteAll
  <1>5. CASE ~DeleteProject /\ \A r \in Requests : ~Commit(r)
    BY <1>1, <1>2, <1>5, StatusStaysPut DEF rounds, RoundsOf
  <1>. QED BY <1>3, <1>4, <1>5

\* No task is closed without a client's acceptance and a client's approval of
\* the last version handed over: for any number of requests, users and tasks,
\* whatever fails and whoever races, the records of a task go through the
\* rounds of TaskApproval only (tasks-transition.service.ts:70-215).
THEOREM ApprovalImplemented == Spec => ApprovalIsBilateral
  <1>1. Init => Approval!Init
    <2>1. Init => \A t \in Tasks : RoundAt(status[t]) = "drafting"
      BY DEF Init, RoundAt, Gone
    <2>. QED BY <2>1, InitRoundInv, RoundsAreOfStatuses DEF RoundsOf, Approval!Init
  <1>2. RoundInv /\ RoundInv' /\ [Next]_vars
          => [Approval!Next]_([t \in Tasks |-> RoundOf(t)])
    BY NextImplements
  <1>3. Spec => []RoundInv
    <2>1. Init => RoundInv  BY InitRoundInv
    <2>2. RoundInv /\ [Next]_vars => RoundInv'  BY NextRoundInv
    <2>. QED BY <2>1, <2>2, PTL DEF Spec
  <1>. QED BY <1>1, <1>2, <1>3, PTL DEF Spec, ApprovalIsBilateral, Approval!Spec
=============================================================================
