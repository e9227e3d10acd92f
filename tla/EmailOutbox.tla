---------------------------- MODULE EmailOutbox -----------------------------
(***************************************************************************)
(* The email outbox (apps/api/src/mail/email-outbox.service.ts): rows that *)
(* say which clients a handoff is to be mailed to, and workers that poll,  *)
(* claim a row by moving its nextRetryAt one lease ahead, send one mail    *)
(* per recipient, and write the outcome back.  A worker is one running     *)
(* call of processPending: the timers of several API replicas, and within  *)
(* one replica a timer tick that overlaps a slow earlier one or the call   *)
(* made right after an enqueue.                                            *)
(*                                                                         *)
(* Time is the flag due[e]: nextRetryAt <= now.  A claim, and a failure's  *)
(* backoff, clear it and TimePasses sets it again.  Nothing in the code    *)
(* keeps a delivery inside its 60 s lease (one recipient may take 35 s of  *)
(* SMTP timeouts), so time may also pass while a worker is at the entry.   *)
(***************************************************************************)
EXTENDS Naturals, FiniteSets

CONSTANTS
  Workers, Users, None,
  Entries,        \* entry numbers, in the order of createdAt
  Recipients,     \* [Entries -> SUBSET Users], payload.clientUserIds
  MaxAttempts,    \* email_outbox.max_attempts
  BatchSize,      \* rows one poll takes
  MaxLapses,      \* bound: leases that run out under a worker
  MaxFaults       \* bound: crashes, database errors, lost SMTP answers

ASSUME OutboxConstantsOK ==
  /\ Entries \subseteq Nat /\ IsFiniteSet(Entries)
  /\ Recipients \in [Entries -> SUBSET Users]
  /\ MaxAttempts \in Nat \ {0} /\ BatchSize \in Nat \ {0}
  /\ MaxLapses \in Nat /\ MaxFaults \in Nat
  /\ None \notin Entries

VARIABLES
  status,     \* NONE: not enqueued yet
  attempts,
  sent,       \* payload.sentUserIds
  due,        \* nextRetryAt <= now
  pc, queue,  \* per worker: place, and the entries of its poll still to do
  job,        \* per worker: its copy of the entry it works on
  delivered, again,  \* history: who got the mail, and who got it twice
  lapsed, unsure,    \* history: entries whose lease ran out under a worker;
                     \* entries with a delivery that was not recorded
  lapses, faults     \* counters for the bounds

row     == <<status, attempts, sent, due>>
history == <<delivered, again, lapsed, unsure, lapses, faults>>
vars    == <<row, pc, queue, job, history>>

NoJob == [entry |-> None, attempts |-> 0, todo |-> {}, sent |-> {}]

Places == {"idle", "claim", "load", "send", "progress", "keep", "finish", "failed"}

\* Inside processEntry, after the claim.
Holding == {"load", "send", "progress", "keep", "finish", "failed"}

WorksOn(w, e) == pc[w] \in Holding /\ job[w].entry = e

Init ==
  /\ status = [e \in Entries |-> "NONE"]
  /\ attempts = [e \in Entries |-> 0]
  /\ sent = [e \in Entries |-> {}]
  /\ due = [e \in Entries |-> FALSE]
  /\ pc = [w \in Workers |-> "idle"]
  /\ queue = [w \in Workers |-> {}]
  /\ job = [w \in Workers |-> NoJob]
  /\ delivered = [e \in Entries |-> {}]
  /\ again = [e \in Entries |-> {}]
  /\ lapsed = {} /\ unsure = {} /\ lapses = 0 /\ faults = 0

-----------------------------------------------------------------------------
IsFirst(e, S) == e \in S /\ \A f \in S : e <= f

\* enqueueHandoffEmails; the poll it makes next is Poll by some worker.
Enqueue(e) ==
  /\ status[e] = "NONE" /\ \A f \in Entries : f < e => status[f] # "NONE"
  /\ status' = [status EXCEPT ![e] = "PENDING"]
  /\ due' = [due EXCEPT ![e] = TRUE]
  /\ UNCHANGED <<attempts, sent, pc, queue, job, history>>

\* The clock reaches nextRetryAt; a lease may run out under its worker.
TimePasses(e) ==
  LET held == \E w \in Workers : WorksOn(w, e) IN
  /\ status[e] = "PENDING" /\ ~due[e]
  /\ held => lapses < MaxLapses
  /\ due' = [due EXCEPT ![e] = TRUE]
  /\ lapsed' = IF held THEN lapsed \cup {e} ELSE lapsed
  /\ lapses' = IF held THEN lapses + 1 ELSE lapses
  /\ UNCHANGED <<status, attempts, sent, pc, queue, job, delivered, again, unsure,
                 faults>>

Claimable(e) == status[e] = "PENDING" /\ due[e]

\* findMany: the oldest BatchSize claimable rows.
Poll(w) ==
  LET ready == {e \in Entries : Claimable(e)} IN
  /\ pc[w] = "idle" /\ ready # {}
  /\ queue' = [queue EXCEPT ![w] =
       {e \in ready : Cardinality({f \in ready : f < e}) < BatchSize}]
  /\ pc' = [pc EXCEPT ![w] = "claim"]
  /\ UNCHANGED <<row, job, history>>

Goto(w, place) == pc' = [pc EXCEPT ![w] = place]

\* processEntry returns: on to the next entry of the poll.
NextEntry(w, e) ==
  /\ queue' = [queue EXCEPT ![w] = @ \ {e}]
  /\ job' = [job EXCEPT ![w] = NoJob]
  /\ Goto(w, IF queue[w] = {e} THEN "idle" ELSE "claim")

\* Mutant of Claim: the row is taken without looking at its state again.
ClaimAnyway(w) ==
  /\ pc[w] = "claim"
  /\ \E e \in Entries :
       /\ IsFirst(e, queue[w])
       /\ due' = [due EXCEPT ![e] = FALSE]
       /\ job' = [job EXCEPT ![w].entry = e]
       /\ Goto(w, "load")
  /\ UNCHANGED <<status, attempts, sent, queue, history>>

\* updateMany with the poll's conditions: one worker moves nextRetryAt ahead.
Claim(w) ==
  /\ pc[w] = "claim"
  /\ \E e \in Entries :
       /\ IsFirst(e, queue[w])
       /\ IF Claimable(e)
          THEN /\ due' = [due EXCEPT ![e] = FALSE]
               /\ job' = [job EXCEPT ![w].entry = e]
               /\ Goto(w, "load")
               /\ UNCHANGED <<status, attempts, sent, queue, history>>
          ELSE NextEntry(w, e) /\ UNCHANGED <<row, history>>

\* Mutant of Load: the recipients who have the mail are not taken out.
LoadEverybody(w) ==
  LET e == job[w].entry IN
  /\ pc[w] = "load"
  /\ IF status[e] = "PENDING"
     THEN /\ job' = [job EXCEPT ![w] = [entry |-> e, attempts |-> attempts[e],
                                        todo |-> Recipients[e], sent |-> sent[e]]]
          /\ Goto(w, "send")
          /\ UNCHANGED queue
     ELSE NextEntry(w, e)
  /\ UNCHANGED <<row, history>>

\* The row is read: from here on the worker goes by this copy.
Load(w) ==
  LET e == job[w].entry
      todo == Recipients[e] \ sent[e]
  IN
  /\ pc[w] = "load"
  /\ IF status[e] = "PENDING"
     THEN /\ job' = [job EXCEPT ![w] = [entry |-> e, attempts |-> attempts[e],
                                        todo |-> todo, sent |-> sent[e]]]
          /\ Goto(w, IF todo = {} THEN "finish" ELSE "send")
          /\ UNCHANGED queue
     ELSE NextEntry(w, e)
  /\ UNCHANGED <<row, history>>

Deliver(e, u) ==
  /\ delivered' = [delivered EXCEPT ![e] = @ \cup {u}]
  /\ again' = [again EXCEPT ![e] = IF u \in delivered[e] THEN @ \cup {u} ELSE @]

\* mail.send returns true
SendAccepted(w, u) ==
  /\ pc[w] = "send" /\ u \in job[w].todo
  /\ Deliver(job[w].entry, u)
  /\ job' = [job EXCEPT ![w].todo = @ \ {u}, ![w].sent = @ \cup {u}]
  /\ Goto(w, "progress")
  /\ UNCHANGED <<row, queue, lapsed, unsure, lapses, faults>>

\* Mutant of SendRefused: the recipient is listed before the result is looked at.
SendRefusedListed(w) ==
  /\ pc[w] = "send"
  /\ \E u \in job[w].todo : job' = [job EXCEPT ![w].sent = @ \cup {u}]
  /\ Goto(w, "keep")
  /\ UNCHANGED <<row, queue, history>>

\* mail.send returns false and nothing was sent
SendRefused(w) ==
  /\ pc[w] = "send"
  /\ Goto(w, "keep")
  /\ UNCHANGED <<row, queue, job, history>>

Fault == faults < MaxFaults /\ faults' = faults + 1

\* mail.send returns false although the server took the mail: the answer was
\* lost or came after the socket timeout.
SendUnsure(w, u) ==
  /\ pc[w] = "send" /\ u \in job[w].todo
  /\ Fault
  /\ Deliver(job[w].entry, u)
  /\ unsure' = unsure \cup {job[w].entry}
  /\ Goto(w, "keep")
  /\ UNCHANGED <<row, queue, job, lapsed, lapses>>

\* Mutant of WriteProgress: the list is not written back.
WriteProgressNever(w) == UNCHANGED sent

\* The whole payload is written back, with this worker's list of recipients.
WriteProgress(w) == sent' = [sent EXCEPT ![job[w].entry] = job[w].sent]

SaveProgress(w) ==
  /\ pc[w] = "progress"
  /\ WriteProgress(w)
  /\ Goto(w, IF job[w].todo = {} THEN "finish" ELSE "send")
  /\ UNCHANGED <<status, attempts, due, queue, job, history>>

KeepProgress(w) ==
  /\ pc[w] = "keep"
  /\ WriteProgress(w)
  /\ Goto(w, "failed")
  /\ UNCHANGED <<status, attempts, due, queue, job, history>>

Finish(w) ==
  LET e == job[w].entry IN
  /\ pc[w] = "finish"
  /\ status' = [status EXCEPT ![e] = "SENT"]
  /\ attempts' = [attempts EXCEPT ![e] = @ + 1]
  /\ NextEntry(w, e)
  /\ UNCHANGED <<sent, due, history>>

\* Mutant of FailedForGood: one attempt too many is made before giving up.
GivesUpLate(w) == job[w].attempts >= MaxAttempts + 1

FailedForGood(w) == job[w].attempts + 1 >= MaxAttempts

\* Mutant of RecordFailure: the attempt is not counted.
RecordFailureUncounted(w) ==
  LET e == job[w].entry IN
  /\ pc[w] = "failed"
  /\ status' = [status EXCEPT ![e] = IF FailedForGood(w) THEN "FAILED" ELSE "PENDING"]
  /\ due' = [due EXCEPT ![e] = FALSE]
  /\ NextEntry(w, e)
  /\ UNCHANGED <<attempts, sent, history>>

\* The catch block: by the worker's copy, whatever the row says by now.
RecordFailure(w) ==
  LET e == job[w].entry IN
  /\ pc[w] = "failed"
  /\ status' = [status EXCEPT ![e] = IF FailedForGood(w) THEN "FAILED" ELSE "PENDING"]
  /\ attempts' = [attempts EXCEPT ![e] = job[w].attempts + 1]
  /\ due' = [due EXCEPT ![e] = FALSE]
  /\ NextEntry(w, e)
  /\ UNCHANGED <<sent, history>>

\* What a delivery leaves behind if its worker stops right now.
LoseTrack(w) ==
  unsure' = IF pc[w] = "progress" THEN unsure \cup {job[w].entry} ELSE unsure

\* A database error inside the try block goes to the catch block.
DbErrorCaught(w) ==
  /\ pc[w] \in {"send", "progress", "keep", "finish"}
  /\ Fault /\ LoseTrack(w)
  /\ Goto(w, "failed")
  /\ UNCHANGED <<row, queue, job, delivered, again, lapsed, lapses>>

\* A crash, or an error outside the try block, ends the whole poll.
Abandon(w) ==
  /\ pc[w] # "idle"
  /\ Fault /\ LoseTrack(w)
  /\ Goto(w, "idle")
  /\ queue' = [queue EXCEPT ![w] = {}]
  /\ job' = [job EXCEPT ![w] = NoJob]
  /\ UNCHANGED <<row, delivered, again, lapsed, lapses>>

-----------------------------------------------------------------------------
Step(w) ==
  \/ Poll(w)         \/ Claim(w)        \/ Load(w)
  \/ SendRefused(w)  \/ \E u \in Users : SendAccepted(w, u) \/ SendUnsure(w, u)
  \/ SaveProgress(w) \/ KeepProgress(w)
  \/ Finish(w)       \/ RecordFailure(w)

Next ==
  \/ \E e \in Entries : Enqueue(e) \/ TimePasses(e)
  \/ \E w \in Workers : Step(w) \/ DbErrorCaught(w) \/ Abandon(w)

Spec == Init /\ [][Next]_vars

\* The timers go on polling, a started step ends (SMTP calls time out), and the
\* clock runs.  Nothing is owed by faults or by callers who enqueue.
Fairness ==
  /\ \A w \in Workers : WF_vars(Step(w))
  /\ \A e \in Entries : WF_vars(TimePasses(e))

FairSpec == Spec /\ Fairness

-----------------------------------------------------------------------------
(* Properties.                                                             *)

\* Every variable keeps its type, and a worker is at an entry when it holds one.
TypeOK ==
  /\ status \in [Entries -> {"NONE", "PENDING", "SENT", "FAILED"}]
  /\ attempts \in [Entries -> Nat]
  /\ sent \in [Entries -> SUBSET Users]
  /\ due \in [Entries -> BOOLEAN]
  /\ pc \in [Workers -> Places]
  /\ queue \in [Workers -> SUBSET Entries]
  /\ job \in [Workers -> [entry : Entries \cup {None}, attempts : Nat,
                          todo : SUBSET Users, sent : SUBSET Users]]
  /\ delivered \in [Entries -> SUBSET Users]
  /\ again \in [Entries -> SUBSET Users]
  /\ lapsed \subseteq Entries /\ unsure \subseteq Entries
  /\ lapses \in 0..MaxLapses /\ faults \in 0..MaxFaults
  /\ \A w \in Workers : pc[w] \in Holding => job[w].entry \in queue[w]

\* The records claim no more than the mail server saw: a recipient on the
\* progress list, in the row or in a worker's copy of it, has got the mail, and
\* SENT is only written when all have, also by workers that overwrite each other.
RecordsTellDeliveries ==
  /\ \A e \in Entries : /\ sent[e] \subseteq delivered[e]
                        /\ status[e] = "SENT" => Recipients[e] \subseteq delivered[e]
  /\ \A w \in Workers : pc[w] \in Holding \ {"load"} =>
       /\ job[w].sent \subseteq delivered[job[w].entry]
       /\ Recipients[job[w].entry] \subseteq job[w].todo \cup job[w].sent

\* The claim of an entry is exclusive while its lease lasts.
OneDelivererPerLease ==
  \A e \in Entries \ lapsed, w, v \in Workers :
    WorksOn(w, e) /\ WorksOn(v, e) => w = v

\* Nobody gets a handoff mail twice unless a lease ran out under a worker, the
\* mail server's answer was lost, or a delivery could not be recorded: retries,
\* overlapping polls and other replicas alone never cause it.
DuplicatesHaveCause ==
  \A e \in Entries : again[e] # {} => e \in lapsed \cup unsure

\* Retries end: a row waiting for another attempt has one left, a row given up
\* has used exactly max_attempts, and without a lapse none uses more.
RetriesAreBounded ==
  \A e \in Entries :
    /\ status[e] = "PENDING" => attempts[e] < MaxAttempts
    /\ status[e] = "FAILED"  => attempts[e] >= MaxAttempts
    /\ e \notin lapsed => attempts[e] <= MaxAttempts

\* SENT and FAILED are final as long as no lease has run out under a worker.
OutcomeIsFinal ==
  [][\A e \in Entries \ lapsed :
       status[e] \in {"SENT", "FAILED"} => status'[e] = status[e]]_vars

\* The outbox implements MailDelivery: mail by mail, and try by try, whatever the
\* workers overwrite of each other (email-outbox.service.ts:67-195).
StageOf(e) ==
  CASE status[e] = "NONE"    -> "unwritten"
    [] status[e] = "PENDING" -> "queued"
    [] status[e] = "SENT"    -> "complete"
    [] status[e] = "FAILED"  -> "givenup"

Mail == INSTANCE MailDelivery WITH
  Mails <- Entries, MaxTries <- MaxAttempts,
  stage <- [e \in Entries |-> StageOf(e)], tries <- attempts,
  got <- delivered, twice <- again, overrun <- lapsed, unrecorded <- unsure
MailIsDelivered == Mail!Spec

\* Every enqueued mail is settled in the end, after any faults and lapses.
EveryMailSettled ==
  \A e \in Entries : status[e] = "PENDING" ~> status[e] \in {"SENT", "FAILED"}
=============================================================================
