------------------------- MODULE EmailOutboxProofs --------------------------
(***************************************************************************)
(* Theorems about EmailOutbox, for any number of workers, mails and        *)
(* recipients, and any number of lapsed leases and faults: what the rows   *)
(* say, who works on them, what a duplicate comes from, and how retries    *)
(* end.                                                                    *)
(***************************************************************************)
EXTENDS EmailOutbox, TLAPS

JobRecs == [entry : Entries \cup {None}, attempts : Nat,
            todo : SUBSET Users, sent : SUBSET Users]

\* Past the read of the row: the worker goes by its copy.
Past == Holding \ {"load"}

\* Types; and only mails that were enqueued are polled.
TypeInv ==
  /\ TypeOK
  /\ \A w \in Workers : \A e \in queue[w] : status[e] # "NONE"

\* What a worker goes by is true of the mails delivered.
CopyInv ==
  \A w \in Workers : pc[w] \in Past =>
    /\ job[w].sent \subseteq delivered[job[w].entry]
    /\ Recipients[job[w].entry] \subseteq job[w].todo \cup job[w].sent
    /\ job[w].attempts < MaxAttempts
    /\ pc[w] = "finish" => job[w].todo = {}

\* What a row says is true of the mails delivered, and of the attempts.
RowInv ==
  \A e \in Entries :
    /\ sent[e] \subseteq delivered[e]
    /\ status[e] = "SENT" => Recipients[e] \subseteq delivered[e]
    /\ status[e] = "NONE" => attempts[e] = 0
    /\ status[e] = "PENDING" => attempts[e] < MaxAttempts
    /\ status[e] = "FAILED"  => attempts[e] >= MaxAttempts
    /\ e \notin lapsed => attempts[e] <= MaxAttempts

\* Without a lapse a row is worked on by one worker, waits, and is not due.
LeaseInv ==
  \A e \in Entries \ lapsed, w \in Workers : WorksOn(w, e) =>
    /\ ~due[e] /\ status[e] = "PENDING"
    /\ \A v \in Workers : WorksOn(v, e) => v = w

\* Without a lapse and with every delivery recorded, nobody has the mail who is
\* not on the row's list, or about to be put on it.
ListInv ==
  \A e \in Entries \ (lapsed \cup unsure) :
    /\ again[e] = {}
    /\ (\A w \in Workers : ~(WorksOn(w, e) /\ pc[w] = "progress"))
         => delivered[e] \subseteq sent[e]
    /\ \A w \in Workers : WorksOn(w, e) /\ pc[w] # "load" =>
         job[w].todo \cap delivered[e] = {} /\ delivered[e] \subseteq job[w].sent

-----------------------------------------------------------------------------
(* Shapes of the steps.                                                    *)

WorkerStep(w) == Step(w) \/ DbErrorCaught(w) \/ Abandon(w)

\* A worker's step is its own.
LEMMA OthersRest ==
  ASSUME TypeInv, NEW w \in Workers, WorkerStep(w), NEW v \in Workers, v # w
  PROVE  pc'[v] = pc[v] /\ job'[v] = job[v] /\ queue'[v] = queue[v]
  <1> USE DEF TypeInv, TypeOK
  <1>1. CASE Poll(w) \/ Load(w) \/ SendRefused(w) \/ SaveProgress(w) \/ KeepProgress(w)
    BY <1>1 DEF Poll, Load, SendRefused, SaveProgress, KeepProgress, NextEntry, Goto
  <1>2. CASE Finish(w) \/ RecordFailure(w) \/ DbErrorCaught(w) \/ Abandon(w)
    BY <1>2 DEF Finish, RecordFailure, DbErrorCaught, Abandon, NextEntry, Goto
  <1>3. CASE Claim(w)
    BY <1>3 DEF Claim, NextEntry, Goto
  <1>4. CASE \E u \in Users : SendAccepted(w, u) \/ SendUnsure(w, u)
    BY <1>4 DEF SendAccepted, SendUnsure, Goto
  <1>. QED BY <1>1, <1>2, <1>3, <1>4 DEF WorkerStep, Step

\* A worker that goes on to its next entry holds none.
LEMMA NextEntryTypes ==
  ASSUME TypeInv, NEW w \in Workers, NEW e, NextEntry(w, e)
  PROVE  /\ pc' \in [Workers -> Places] /\ pc'[w] \notin Holding
         /\ queue' \in [Workers -> SUBSET Entries] /\ queue'[w] \subseteq queue[w]
         /\ job' \in [Workers -> JobRecs]
  <1>1. NoJob \in JobRecs
    BY DEF NoJob, JobRecs
  <1>. QED
    BY <1>1 DEF NextEntry, Goto, TypeInv, TypeOK, JobRecs, Places, Holding

\* The worker's own move, action by action.
LEMMA OwnMoves ==
  ASSUME TypeInv, NEW w \in Workers
  PROVE  /\ Poll(w) =>
              /\ pc' \in [Workers -> Places] /\ pc'[w] = "claim"
              /\ queue' \in [Workers -> SUBSET Entries]
              /\ \A e \in queue'[w] : status[e] = "PENDING"
              /\ job' = job
         /\ Claim(w) =>
              /\ pc' \in [Workers -> Places] /\ job' \in [Workers -> JobRecs]
              /\ queue' \in [Workers -> SUBSET Entries] /\ queue'[w] \subseteq queue[w]
              /\ \/ pc'[w] \notin Holding /\ due' = due
                 \/ \E e \in queue[w] :
                      /\ pc'[w] = "load" /\ job'[w].entry = e /\ Claimable(e)
                      /\ due' = [due EXCEPT ![e] = FALSE] /\ queue' = queue
         /\ Load(w) =>
              /\ pc[w] = "load"
              /\ pc' \in [Workers -> Places] /\ job' \in [Workers -> JobRecs]
              /\ queue' \in [Workers -> SUBSET Entries] /\ queue'[w] \subseteq queue[w]
              /\ \/ pc'[w] \notin Holding
                 \/ /\ pc'[w] \in {"send", "finish"} /\ queue' = queue
                    /\ status[job[w].entry] = "PENDING"
                    /\ job'[w].entry = job[w].entry
                    /\ job'[w].attempts = attempts[job[w].entry]
                    /\ job'[w].sent = sent[job[w].entry]
                    /\ job'[w].todo = Recipients[job[w].entry] \ sent[job[w].entry]
                    /\ pc'[w] = "finish" => job'[w].todo = {}
         /\ \A u \in Users : SendAccepted(w, u) =>
              /\ pc' \in [Workers -> Places] /\ job' \in [Workers -> JobRecs]
              /\ queue' = queue
              /\ pc[w] = "send" /\ pc'[w] = "progress" /\ u \in job[w].todo
              /\ job'[w].entry = job[w].entry /\ job'[w].attempts = job[w].attempts
              /\ job'[w].todo = job[w].todo \ {u} /\ job'[w].sent = job[w].sent \cup {u}
         /\ Finish(w) \/ RecordFailure(w) =>
              /\ pc' \in [Workers -> Places] /\ job' \in [Workers -> JobRecs]
              /\ queue' \in [Workers -> SUBSET Entries] /\ queue'[w] \subseteq queue[w]
              /\ pc[w] \in Past /\ pc'[w] \notin Holding
         /\ Abandon(w) =>
              /\ pc' \in [Workers -> Places] /\ job' \in [Workers -> JobRecs]
              /\ queue' \in [Workers -> SUBSET Entries] /\ queue'[w] = {}
              /\ pc'[w] \notin Holding
         /\ SendRefused(w) \/ DbErrorCaught(w) \/ KeepProgress(w) \/ SaveProgress(w)
              \/ (\E u \in Users : SendUnsure(w, u)) =>
              /\ pc' \in [Workers -> Places] /\ job' = job /\ queue' = queue
              /\ pc[w] \in Past /\ pc'[w] \in Past \ {"progress"}
              /\ pc'[w] = "finish" => SaveProgress(w) /\ job[w].todo = {}
  <1> USE DEF TypeInv, TypeOK, Places
  <1>1. Poll(w) =>
              /\ pc' \in [Workers -> Places] /\ pc'[w] = "claim"
              /\ queue' \in [Workers -> SUBSET Entries]
              /\ \A e \in queue'[w] : status[e] = "PENDING"
              /\ job' = job
    BY DEF Poll, Claimable
  <1>2. ASSUME Claim(w)
        PROVE  /\ pc' \in [Workers -> Places] /\ job' \in [Workers -> JobRecs]
               /\ queue' \in [Workers -> SUBSET Entries] /\ queue'[w] \subseteq queue[w]
               /\ \/ pc'[w] \notin Holding /\ due' = due
                  \/ \E e \in queue[w] :
                       /\ pc'[w] = "load" /\ job'[w].entry = e /\ Claimable(e)
                       /\ due' = [due EXCEPT ![e] = FALSE] /\ queue' = queue
    <2>1. PICK e \in queue[w] :
            IF Claimable(e)
            THEN /\ due' = [due EXCEPT ![e] = FALSE]
                 /\ job' = [job EXCEPT ![w].entry = e]
                 /\ Goto(w, "load")
                 /\ UNCHANGED <<status, attempts, sent, queue, history>>
            ELSE NextEntry(w, e) /\ UNCHANGED <<row, history>>
      BY <1>2 DEF Claim, IsFirst
    <2>2. CASE Claimable(e)
      <3>1. job[w] \in JobRecs /\ e \in Entries
        BY DEF JobRecs
      <3>2. [job[w] EXCEPT !.entry = e] \in JobRecs /\ [job[w] EXCEPT !.entry = e].entry = e
        BY <3>1 DEF JobRecs
      <3>3. job' \in [Workers -> JobRecs] /\ job'[w].entry = e
        BY <2>1, <2>2, <3>2 DEF JobRecs
      <3>. QED BY <2>1, <2>2, <3>3 DEF Goto
    <2>3. CASE ~Claimable(e)
      BY <2>1, <2>3, NextEntryTypes DEF row
    <2>. QED BY <2>2, <2>3
  <1>3. ASSUME Load(w)
        PROVE  /\ pc[w] = "load"
               /\ pc' \in [Workers -> Places] /\ job' \in [Workers -> JobRecs]
               /\ queue' \in [Workers -> SUBSET Entries] /\ queue'[w] \subseteq queue[w]
               /\ \/ pc'[w] \notin Holding
                  \/ /\ pc'[w] \in {"send", "finish"} /\ queue' = queue
                     /\ status[job[w].entry] = "PENDING"
                     /\ job'[w].entry = job[w].entry
                     /\ job'[w].attempts = attempts[job[w].entry]
                     /\ job'[w].sent = sent[job[w].entry]
                     /\ job'[w].todo = Recipients[job[w].entry] \ sent[job[w].entry]
                     /\ pc'[w] = "finish" => job'[w].todo = {}
    <2>. DEFINE e == job[w].entry
                copy == [entry |-> e, attempts |-> attempts[e],
                         todo |-> Recipients[e] \ sent[e], sent |-> sent[e]]
    <2>1. pc[w] = "load" /\ e \in Entries
      BY <1>3 DEF Load, Holding
    <2>2. CASE status[e] = "PENDING"
      <3>1. copy \in JobRecs
        BY <2>1, OutboxConstantsOK DEF JobRecs
      <3>2. job' = [job EXCEPT ![w] = copy]
        BY <1>3, <2>2 DEF Load
      <3>3. job' \in [Workers -> JobRecs] /\ job'[w] = copy
        BY <3>1, <3>2 DEF JobRecs
      <3>4. /\ queue' = queue
            /\ pc' = [pc EXCEPT ![w] = IF copy.todo = {} THEN "finish" ELSE "send"]
        BY <1>3, <2>2 DEF Load, Goto
      <3>. QED BY <2>1, <2>2, <3>3, <3>4
    <2>3. CASE status[e] # "PENDING"
      BY <1>3, <2>1, <2>3, NextEntryTypes DEF Load
    <2>. QED BY <2>2, <2>3
  <1>4. ASSUME NEW u \in Users, SendAccepted(w, u)
        PROVE  /\ pc' \in [Workers -> Places] /\ job' \in [Workers -> JobRecs]
               /\ queue' = queue
               /\ pc[w] = "send" /\ pc'[w] = "progress" /\ u \in job[w].todo
               /\ job'[w].entry = job[w].entry /\ job'[w].attempts = job[w].attempts
               /\ job'[w].todo = job[w].todo \ {u} /\ job'[w].sent = job[w].sent \cup {u}
    <2>. DEFINE new == [job[w] EXCEPT !.todo = @ \ {u}, !.sent = @ \cup {u}]
    <2>1. job[w] \in JobRecs
      BY DEF JobRecs
    <2>2. /\ new \in JobRecs
          /\ new.entry = job[w].entry /\ new.attempts = job[w].attempts
          /\ new.todo = job[w].todo \ {u} /\ new.sent = job[w].sent \cup {u}
      BY <2>1 DEF JobRecs
    <2>3. job' = [job EXCEPT ![w] = new]
      BY <1>4 DEF SendAccepted
    <2>. HIDE DEF new
    <2>4. job' \in [Workers -> JobRecs] /\ job'[w] = new
      BY <2>2, <2>3 DEF JobRecs
    <2>. QED BY <1>4, <2>2, <2>4 DEF SendAccepted, Goto
  <1>5. ASSUME Finish(w) \/ RecordFailure(w)
        PROVE  /\ pc' \in [Workers -> Places] /\ job' \in [Workers -> JobRecs]
               /\ queue' \in [Workers -> SUBSET Entries] /\ queue'[w] \subseteq queue[w]
               /\ pc[w] \in Past /\ pc'[w] \notin Holding
    <2>1. NextEntry(w, job[w].entry) /\ pc[w] \in {"finish", "failed"}
      BY <1>5 DEF Finish, RecordFailure
    <2>. QED BY <2>1, NextEntryTypes DEF Past, Holding
  <1>6. ASSUME Abandon(w)
        PROVE  /\ pc' \in [Workers -> Places] /\ job' \in [Workers -> JobRecs]
               /\ queue' \in [Workers -> SUBSET Entries] /\ queue'[w] = {}
               /\ pc'[w] \notin Holding
    <2>1. NoJob \in JobRecs
      BY DEF NoJob, JobRecs
    <2>. QED BY <1>6, <2>1 DEF Abandon, Goto, Holding, JobRecs
  <1>7. ASSUME SendRefused(w) \/ DbErrorCaught(w) \/ KeepProgress(w) \/ SaveProgress(w)
                 \/ (\E u \in Users : SendUnsure(w, u))
        PROVE  /\ pc' \in [Workers -> Places] /\ job' = job /\ queue' = queue
               /\ pc[w] \in Past /\ pc'[w] \in Past \ {"progress"}
               /\ pc'[w] = "finish" => SaveProgress(w) /\ job[w].todo = {}
    BY <1>7 DEF SendRefused, DbErrorCaught, KeepProgress, SaveProgress, SendUnsure, Goto,
       Past, Holding, row
  <1>. QED BY <1>1, <1>2, <1>3, <1>4, <1>5, <1>6, <1>7

\* Whom a worker works on, before and after a step of one of them.
LEMMA WorkMoves ==
  ASSUME TypeInv, NEW w \in Workers, WorkerStep(w), NEW v \in Workers, NEW e \in Entries,
         WorksOn(v, e)'
  PROVE  \/ WorksOn(v, e) /\ (v # w => pc'[v] = pc[v] /\ job'[v] = job[v])
         \/ v = w /\ Claim(w) /\ pc'[w] = "load" /\ Claimable(e)
                  /\ due' = [due EXCEPT ![e] = FALSE]
  <1>1. CASE v # w
    BY <1>1, OthersRest DEF WorksOn
  <1>2. CASE v = w
    <2>1. pc'[w] \in Holding /\ job'[w].entry = e
      BY <1>2 DEF WorksOn
    <2>. QED BY <1>2, <2>1, OwnMoves DEF WorkerStep, Step, WorksOn, Past, Holding
  <1>. QED BY <1>1, <1>2


RowTypes ==
  /\ status \in [Entries -> {"NONE", "PENDING", "SENT", "FAILED"}]
  /\ attempts \in [Entries -> Nat]
  /\ sent \in [Entries -> SUBSET Users]
  /\ due \in [Entries -> BOOLEAN]
  /\ delivered \in [Entries -> SUBSET Users]
  /\ again \in [Entries -> SUBSET Users]
  /\ lapsed \subseteq Entries /\ unsure \subseteq Entries
  /\ lapses \in 0..MaxLapses /\ faults \in 0..MaxFaults

\* Rows and history keep their types, and nothing is ever not enqueued again.
LEMMA NextRows ==
  ASSUME TypeInv, Next
  PROVE  /\ RowTypes'
         /\ \A e \in Entries : status[e] # "NONE" => status'[e] # "NONE"
  <1> USE DEF TypeInv, TypeOK
  <1>0. MaxLapses \in Nat /\ MaxFaults \in Nat
    BY OutboxConstantsOK
  <1>. DEFINE Goal == /\ RowTypes'
                      /\ \A e \in Entries : status[e] # "NONE" => status'[e] # "NONE"
  <1>1. ASSUME NEW e \in Entries, Enqueue(e)
        PROVE  Goal
    BY <1>1 DEF Enqueue, RowTypes, history
  <1>2. ASSUME NEW e \in Entries, TimePasses(e)
        PROVE  Goal
    <2>1. lapses' \in 0..MaxLapses
      BY <1>0, <1>2 DEF TimePasses
    <2>2. lapsed' \subseteq Entries /\ due' \in [Entries -> BOOLEAN]
      BY <1>2 DEF TimePasses
    <2>. QED BY <1>2, <2>1, <2>2 DEF TimePasses, RowTypes
  <1>3. ASSUME NEW w \in Workers, Poll(w) \/ Load(w) \/ SendRefused(w)
        PROVE  Goal
    BY <1>3 DEF Poll, Load, SendRefused, RowTypes, row, history
  <1>4. ASSUME NEW w \in Workers, Claim(w)
        PROVE  Goal
    BY <1>4 DEF Claim, NextEntry, RowTypes, row, history
  <1>5. ASSUME NEW w \in Workers, pc[w] \in Holding
        PROVE  /\ job[w].entry \in Entries
               /\ job[w].sent \in SUBSET Users /\ job[w].attempts \in Nat
    BY <1>5
  <1>6. ASSUME NEW w \in Workers, NEW u \in Users, SendAccepted(w, u)
        PROVE  Goal
    <2>1. job[w].entry \in Entries
      BY <1>5, <1>6 DEF SendAccepted, Holding
    <2>. QED BY <1>6, <2>1 DEF SendAccepted, Deliver, RowTypes, row
  <1>7. ASSUME NEW w \in Workers, NEW u \in Users, SendUnsure(w, u)
        PROVE  Goal
    <2>1. job[w].entry \in Entries
      BY <1>5, <1>7 DEF SendUnsure, Holding
    <2>2. faults' \in 0..MaxFaults
      BY <1>0, <1>7 DEF SendUnsure, Fault
    <2>3. delivered' \in [Entries -> SUBSET Users] /\ again' \in [Entries -> SUBSET Users]
      BY <1>7, <2>1 DEF SendUnsure, Deliver
    <2>. QED BY <1>7, <2>1, <2>2, <2>3 DEF SendUnsure, RowTypes, row
  <1>8. ASSUME NEW w \in Workers, SaveProgress(w) \/ KeepProgress(w)
        PROVE  Goal
    <2>1. job[w].sent \in SUBSET Users
      BY <1>5, <1>8 DEF SaveProgress, KeepProgress, Holding
    <2>. QED BY <1>8, <2>1 DEF SaveProgress, KeepProgress, WriteProgress, RowTypes, history
  <1>9. ASSUME NEW w \in Workers, Finish(w) \/ RecordFailure(w)
        PROVE  Goal
    <2>1. job[w].entry \in Entries /\ job[w].attempts \in Nat
      BY <1>5, <1>9 DEF Finish, RecordFailure, Holding
    <2>2. /\ status' \in [Entries -> {"NONE", "PENDING", "SENT", "FAILED"}]
          /\ \A e \in Entries : status[e] # "NONE" => status'[e] # "NONE"
      BY <1>9, <2>1 DEF Finish, RecordFailure
    <2>3. attempts' \in [Entries -> Nat] /\ due' \in [Entries -> BOOLEAN]
      <3>1. CASE Finish(w)
        BY <3>1, <2>1 DEF Finish
      <3>2. CASE RecordFailure(w)
        BY <3>2, <2>1 DEF RecordFailure
      <3>. QED BY <1>9, <3>1, <3>2
    <2>4. UNCHANGED <<sent, history>>
      BY <1>9 DEF Finish, RecordFailure
    <2>. QED BY <2>2, <2>3, <2>4 DEF RowTypes, history
  <1>10. ASSUME NEW w \in Workers, DbErrorCaught(w) \/ Abandon(w)
         PROVE  Goal
    <2>1. faults' \in 0..MaxFaults
      BY <1>0, <1>10 DEF DbErrorCaught, Abandon, Fault
    <2>2. unsure' \subseteq Entries
      <3>1. pc[w] = "progress" => job[w].entry \in Entries
        BY <1>5 DEF Holding
      <3>2. unsure' = IF pc[w] = "progress" THEN unsure \cup {job[w].entry} ELSE unsure
        BY <1>10 DEF DbErrorCaught, Abandon, LoseTrack
      <3>. QED BY <3>1, <3>2
    <2>3. UNCHANGED <<row, delivered, again, lapsed, lapses>>
      BY <1>10 DEF DbErrorCaught, Abandon
    <2>. QED BY <2>1, <2>2, <2>3 DEF RowTypes, row
  <1>. QED
    BY <1>1, <1>2, <1>3, <1>4, <1>6, <1>7, <1>8, <1>9, <1>10 DEF Next, Step

LEMMA NextTypes ==
  ASSUME TypeInv, Next
  PROVE  TypeInv'
  <1> USE DEF TypeInv, TypeOK
  <1>1. ASSUME NEW e \in Entries, Enqueue(e) \/ TimePasses(e)
        PROVE  UNCHANGED <<pc, queue, job>>
    BY <1>1 DEF Enqueue, TimePasses
  <1>2. ASSUME NEW w \in Workers, WorkerStep(w)
        PROVE  /\ pc' \in [Workers -> Places] /\ job' \in [Workers -> JobRecs]
               /\ queue' \in [Workers -> SUBSET Entries]
               /\ \A v \in Workers : pc'[v] \in Holding => job'[v].entry \in queue'[v]
               /\ \A v \in Workers : \A e \in queue'[v] : status[e] # "NONE"
    <2>1. /\ pc' \in [Workers -> Places] /\ job' \in [Workers -> JobRecs]
          /\ queue' \in [Workers -> SUBSET Entries]
      <3>1. CASE Poll(w)
        BY <3>1, OwnMoves DEF JobRecs
      <3>2. CASE Claim(w) \/ Load(w) \/ Finish(w) \/ RecordFailure(w) \/ Abandon(w)
        BY <3>2, OwnMoves
      <3>3. CASE \E u \in Users : SendAccepted(w, u)
        BY <3>3, OwnMoves
      <3>4. CASE SendRefused(w) \/ DbErrorCaught(w) \/ KeepProgress(w) \/ SaveProgress(w)
                   \/ \E u \in Users : SendUnsure(w, u)
        BY <3>4, OwnMoves DEF JobRecs
      <3>. QED BY <1>2, <3>1, <3>2, <3>3, <3>4 DEF WorkerStep, Step
    <2>2. /\ pc'[w] \in Holding => job'[w].entry \in queue'[w]
          /\ \A e \in queue'[w] : status[e] # "NONE"
      <3>1. CASE Poll(w)
        BY <3>1, OwnMoves DEF Holding
      <3>2. CASE Claim(w) \/ Finish(w) \/ RecordFailure(w) \/ Abandon(w)
        BY <3>2, OwnMoves
      <3>3. CASE Load(w)
        BY <3>3, OwnMoves DEF Holding
      <3>4. CASE \E u \in Users : SendAccepted(w, u)
        BY <3>4, OwnMoves DEF Holding
      <3>5. CASE SendRefused(w) \/ DbErrorCaught(w) \/ KeepProgress(w) \/ SaveProgress(w)
                   \/ \E u \in Users : SendUnsure(w, u)
        BY <3>5, OwnMoves DEF Past
      <3>. QED BY <1>2, <3>1, <3>2, <3>3, <3>4, <3>5 DEF WorkerStep, Step
    <2>. QED BY <1>2, <2>1, <2>2, OthersRest
  <1>3. /\ pc' \in [Workers -> Places] /\ job' \in [Workers -> JobRecs]
        /\ queue' \in [Workers -> SUBSET Entries]
        /\ \A v \in Workers : pc'[v] \in Holding => job'[v].entry \in queue'[v]
        /\ \A v \in Workers : \A e \in queue'[v] : status[e] # "NONE"
    BY <1>1, <1>2 DEF Next, WorkerStep, JobRecs
  <1>4. \A v \in Workers : \A e \in queue'[v] : status'[e] # "NONE"
    BY <1>3, NextRows
  <1>5. TypeOK'
    BY <1>3, NextRows DEF RowTypes, JobRecs
  <1>. QED BY <1>4, <1>5

-----------------------------------------------------------------------------
(* The invariant.                                                          *)

\* What a worker's step does to the rows and to the record of lapses.
LEMMA RowMoves ==
  ASSUME TypeInv, NEW w \in Workers, WorkerStep(w), NEW e \in Entries
  PROVE  /\ lapsed' = lapsed /\ unsure \subseteq unsure'
         /\ due'[e] => due[e]
         /\ status'[e] = status[e] \/ (WorksOn(w, e) /\ pc'[w] \notin Holding)
  <1> USE DEF TypeInv, TypeOK
  <1>1. CASE Poll(w) \/ Load(w) \/ SendRefused(w) \/ SaveProgress(w) \/ KeepProgress(w)
    BY <1>1 DEF Poll, Load, SendRefused, SaveProgress, KeepProgress, row, history
  <1>2. CASE Claim(w)
    BY <1>2 DEF Claim, row, history
  <1>3. CASE \E u \in Users : SendAccepted(w, u) \/ SendUnsure(w, u)
    BY <1>3 DEF SendAccepted, SendUnsure, row
  <1>4. CASE DbErrorCaught(w) \/ Abandon(w)
    BY <1>4 DEF DbErrorCaught, Abandon, LoseTrack, row
  <1>5. CASE Finish(w) \/ RecordFailure(w)
    <2>1. pc[w] \in Holding /\ pc'[w] \notin Holding
      BY <1>5, OwnMoves DEF Past
    <2>2. status'[e] = status[e] \/ e = job[w].entry
      BY <1>5 DEF Finish, RecordFailure
    <2>3. lapsed' = lapsed /\ unsure' = unsure /\ (due'[e] => due[e])
      BY <1>5 DEF Finish, RecordFailure, history
    <2>. QED BY <2>1, <2>2, <2>3 DEF WorksOn
  <1>. QED BY <1>1, <1>2, <1>3, <1>4, <1>5 DEF WorkerStep, Step

\* Time and callers move no worker, and deliver nothing.
LEMMA OutsideMoves ==
  ASSUME TypeInv, NEW f \in Entries, Enqueue(f) \/ TimePasses(f), NEW e \in Entries
  PROVE  /\ UNCHANGED <<pc, queue, job, attempts, sent, delivered, again, unsure>>
         /\ lapsed \subseteq lapsed'
         /\ \/ status'[e] = status[e]
            \/ status[e] = "NONE" /\ status'[e] = "PENDING"
         /\ \/ due'[e] = due[e]
            \/ status[e] = "NONE"
            \/ \A w \in Workers : WorksOn(w, e) => e \in lapsed'
  BY DEF Enqueue, TimePasses, TypeInv, TypeOK, history

LEMMA NextLease ==
  ASSUME TypeInv, LeaseInv, Next
  PROVE  LeaseInv'
  <1>. SUFFICES ASSUME NEW e \in Entries \ lapsed', NEW w \in Workers, WorksOn(w, e)'
                PROVE  /\ ~due'[e] /\ status'[e] = "PENDING"
                       /\ \A v \in Workers : WorksOn(v, e)' => v = w
    BY DEF LeaseInv
  <1>1. ASSUME NEW f \in Entries, Enqueue(f) \/ TimePasses(f)
        PROVE  /\ ~due'[e] /\ status'[e] = "PENDING"
               /\ \A v \in Workers : WorksOn(v, e)' => v = w
    <2>1. /\ \A v \in Workers : WorksOn(v, e)' = WorksOn(v, e)
          /\ lapsed \subseteq lapsed'
      BY <1>1, OutsideMoves DEF WorksOn
    <2>2. WorksOn(w, e) /\ e \notin lapsed
      BY <2>1
    <2>3. status[e] # "NONE"
      BY <2>2 DEF WorksOn, TypeInv, TypeOK
    <2>. QED BY <1>1, <2>1, <2>2, <2>3, OutsideMoves DEF LeaseInv
  <1>2. ASSUME NEW x \in Workers, WorkerStep(x)
        PROVE  /\ ~due'[e] /\ status'[e] = "PENDING"
               /\ \A v \in Workers : WorksOn(v, e)' => v = w
    <2>1. e \notin lapsed
      BY <1>2, RowMoves
    <2>2. CASE WorksOn(w, e)
      <3>1. ~due[e] /\ status[e] = "PENDING" /\ \A v \in Workers : WorksOn(v, e) => v = w
        BY <2>1, <2>2 DEF LeaseInv
      <3>2. ~due'[e]
        BY <1>2, <3>1, RowMoves
      <3>3. status'[e] = "PENDING"
        BY <1>2, <3>1, RowMoves DEF WorksOn
      <3>4. \A v \in Workers : WorksOn(v, e)' => WorksOn(v, e)
        BY <1>2, <3>1, WorkMoves DEF Claimable
      <3>. QED BY <3>1, <3>2, <3>3, <3>4
    <2>3. CASE ~WorksOn(w, e)
      <3>1. /\ w = x /\ pc'[w] = "load" /\ Claimable(e)
            /\ due' = [due EXCEPT ![e] = FALSE]
        BY <1>2, <2>3, WorkMoves
      <3>2. ~due'[e]
        BY <3>1 DEF TypeInv, TypeOK
      <3>3. status'[e] = "PENDING"
        BY <1>2, <3>1, <2>3, RowMoves DEF Claimable
      <3>4. \A v \in Workers : ~WorksOn(v, e)
        BY <2>1, <3>1 DEF LeaseInv, Claimable
      <3>5. \A v \in Workers : WorksOn(v, e)' => v = w
        BY <1>2, <3>1, <3>4, WorkMoves
      <3>. QED BY <3>2, <3>3, <3>5
    <2>. QED BY <2>2, <2>3
  <1>. QED BY <1>1, <1>2 DEF Next, WorkerStep

\* Mail is never taken back.
LEMMA DeliveredGrows ==
  ASSUME TypeInv, Next, NEW e \in Entries
  PROVE  delivered[e] \subseteq delivered'[e]
  <1>0. delivered \in [Entries -> SUBSET Users]
    BY DEF TypeInv, TypeOK
  <1>1. ASSUME NEW f \in Entries, Enqueue(f) \/ TimePasses(f)
        PROVE  delivered' = delivered
    BY <1>1, OutsideMoves
  <1>2. ASSUME NEW w \in Workers,
               \/ Poll(w) \/ Claim(w) \/ Load(w) \/ SendRefused(w) \/ SaveProgress(w)
               \/ KeepProgress(w) \/ Finish(w) \/ RecordFailure(w) \/ DbErrorCaught(w)
               \/ Abandon(w)
        PROVE  delivered' = delivered
    BY <1>2 DEF Poll, Claim, Load, SendRefused, SaveProgress, KeepProgress, Finish,
       RecordFailure, DbErrorCaught, Abandon, history
  <1>3. ASSUME NEW w \in Workers, NEW u \in Users, SendAccepted(w, u) \/ SendUnsure(w, u)
        PROVE  delivered[e] \subseteq delivered'[e]
    <2>1. delivered' = [delivered EXCEPT ![job[w].entry] = @ \cup {u}]
      BY <1>3 DEF SendAccepted, SendUnsure, Deliver
    <2>. QED BY <1>0, <2>1
  <1>. QED BY <1>1, <1>2, <1>3 DEF Next, Step

RowOf(e) ==
  /\ sent[e] \subseteq delivered[e]
  /\ status[e] = "SENT" => Recipients[e] \subseteq delivered[e]
  /\ status[e] = "NONE" => attempts[e] = 0
  /\ status[e] = "PENDING" => attempts[e] < MaxAttempts
  /\ status[e] = "FAILED"  => attempts[e] >= MaxAttempts
  /\ e \notin lapsed => attempts[e] <= MaxAttempts

LEMMA NextRowInv ==
  ASSUME TypeInv, LeaseInv, CopyInv, RowInv, Next
  PROVE  RowInv'
  <1>. SUFFICES ASSUME NEW e \in Entries
                PROVE  RowOf(e)'
    BY DEF RowInv, RowOf
  <1>1. /\ RowOf(e) /\ delivered[e] \subseteq delivered'[e]
        /\ MaxAttempts \in Nat \ {0} /\ attempts[e] \in Nat
    BY DeliveredGrows, OutboxConstantsOK DEF RowInv, RowOf, TypeInv, TypeOK
  <1>2. ASSUME sent'[e] = sent[e], status'[e] = status[e], attempts'[e] = attempts[e],
               lapsed \subseteq lapsed'
        PROVE  RowOf(e)'
    BY <1>1, <1>2 DEF RowOf
  <1>3. ASSUME NEW f \in Entries, Enqueue(f) \/ TimePasses(f)
        PROVE  RowOf(e)'
    <2>1. CASE status'[e] = status[e]
      BY <1>2, <1>3, <2>1, OutsideMoves
    <2>2. CASE status[e] = "NONE" /\ status'[e] = "PENDING"
      <3>1. sent'[e] = sent[e] /\ attempts'[e] = 0 /\ attempts[e] = 0
        BY <1>1, <1>3, <2>2, OutsideMoves DEF RowOf
      <3>. QED BY <1>1, <2>2, <3>1 DEF RowOf
    <2>. QED BY <1>3, <2>1, <2>2, OutsideMoves
  <1>4. ASSUME NEW w \in Workers,
               \/ Poll(w) \/ Claim(w) \/ Load(w) \/ SendRefused(w) \/ DbErrorCaught(w)
               \/ Abandon(w)
        PROVE  RowOf(e)'
    <2>1. UNCHANGED <<sent, status, attempts, lapsed>>
      BY <1>4 DEF Poll, Claim, Load, SendRefused, DbErrorCaught, Abandon, row, history
    <2>. QED BY <1>2, <2>1
  <1>5. ASSUME NEW w \in Workers, NEW u \in Users, SendAccepted(w, u) \/ SendUnsure(w, u)
        PROVE  RowOf(e)'
    <2>1. UNCHANGED <<sent, status, attempts, lapsed>>
      BY <1>5 DEF SendAccepted, SendUnsure, row
    <2>. QED BY <1>2, <2>1
  <1>6. ASSUME NEW w \in Workers, SaveProgress(w) \/ KeepProgress(w)
        PROVE  RowOf(e)'
    <2>1. /\ sent' = [sent EXCEPT ![job[w].entry] = job[w].sent]
          /\ UNCHANGED <<status, attempts, lapsed, delivered>>
          /\ pc[w] \in Past
      BY <1>6 DEF SaveProgress, KeepProgress, WriteProgress, history, Past, Holding
    <2>2. sent'[e] \subseteq delivered[e]
      BY <1>1, <2>1 DEF CopyInv, TypeInv, TypeOK, RowOf
    <2>. QED BY <1>1, <2>1, <2>2 DEF RowOf
  <1>7. ASSUME NEW w \in Workers, Finish(w)
        PROVE  RowOf(e)'
    <2>1. /\ pc[w] = "finish" /\ pc[w] \in Past /\ pc[w] \in Holding
          /\ status' = [status EXCEPT ![job[w].entry] = "SENT"]
          /\ attempts' = [attempts EXCEPT ![job[w].entry] = @ + 1]
          /\ UNCHANGED <<sent, lapsed, delivered>>
      BY <1>7 DEF Finish, history, Past, Holding
    <2>2. CASE e # job[w].entry
      BY <1>2, <2>1, <2>2 DEF TypeInv, TypeOK
    <2>3. CASE e = job[w].entry
      <3>1. status'[e] = "SENT" /\ attempts'[e] = attempts[e] + 1
        BY <2>1, <2>3 DEF TypeInv, TypeOK
      <3>2. Recipients[e] \subseteq delivered[e]
        BY <2>1, <2>3 DEF CopyInv
      <3>3. e \notin lapsed => status[e] = "PENDING"
        BY <2>1, <2>3 DEF LeaseInv, WorksOn
      <3>4. e \notin lapsed => attempts[e] + 1 <= MaxAttempts
        BY <1>1, <3>3 DEF RowOf
      <3>. QED BY <1>1, <2>1, <3>1, <3>2, <3>4 DEF RowOf
    <2>. QED BY <2>2, <2>3
  <1>8. ASSUME NEW w \in Workers, RecordFailure(w)
        PROVE  RowOf(e)'
    <2>1. /\ pc[w] \in Past
          /\ status' = [status EXCEPT ![job[w].entry] =
                          IF FailedForGood(w) THEN "FAILED" ELSE "PENDING"]
          /\ attempts' = [attempts EXCEPT ![job[w].entry] = job[w].attempts + 1]
          /\ UNCHANGED <<sent, lapsed, delivered>>
      BY <1>8 DEF RecordFailure, history, Past, Holding
    <2>2. CASE e # job[w].entry
      BY <1>2, <2>1, <2>2 DEF TypeInv, TypeOK
    <2>3. CASE e = job[w].entry
      <3>1. /\ status'[e] = IF FailedForGood(w) THEN "FAILED" ELSE "PENDING"
            /\ attempts'[e] = job[w].attempts + 1
        BY <2>1, <2>3 DEF TypeInv, TypeOK
      <3>2. job[w].attempts < MaxAttempts /\ job[w].attempts \in Nat
        BY <2>1 DEF CopyInv, TypeInv, TypeOK
      <3>3. attempts'[e] <= MaxAttempts
        BY <1>1, <3>1, <3>2
      <3>4. CASE FailedForGood(w)
        <4>1. status'[e] = "FAILED" /\ attempts'[e] >= MaxAttempts
          BY <1>1, <3>1, <3>2, <3>4 DEF FailedForGood
        <4>. QED BY <1>1, <2>1, <3>3, <4>1 DEF RowOf
      <3>5. CASE ~FailedForGood(w)
        <4>1. status'[e] = "PENDING" /\ attempts'[e] < MaxAttempts
          BY <1>1, <3>1, <3>2, <3>5 DEF FailedForGood
        <4>. QED BY <1>1, <2>1, <3>3, <4>1 DEF RowOf
      <3>. QED BY <3>4, <3>5
    <2>. QED BY <2>2, <2>3
  <1>. QED BY <1>3, <1>4, <1>5, <1>6, <1>7, <1>8 DEF Next, Step

CopyOf(w) ==
  /\ job[w].sent \subseteq delivered[job[w].entry]
  /\ Recipients[job[w].entry] \subseteq job[w].todo \cup job[w].sent
  /\ job[w].attempts < MaxAttempts
  /\ pc[w] = "finish" => job[w].todo = {}

LEMMA NextCopyInv ==
  ASSUME TypeInv, CopyInv, RowInv, Next
  PROVE  CopyInv'
  <1>. SUFFICES ASSUME NEW v \in Workers, pc'[v] \in Past
                PROVE  CopyOf(v)'
    BY DEF CopyInv, CopyOf
  <1>1. ASSUME pc[v] \in Past, job'[v] = job[v], pc'[v] = "finish" => job[v].todo = {}
        PROVE  CopyOf(v)'
    <2>1. CopyOf(v) /\ job[v].entry \in Entries
      BY <1>1 DEF CopyInv, CopyOf, TypeInv, TypeOK, Past
    <2>2. delivered[job[v].entry] \subseteq delivered'[job[v].entry]
      BY <2>1, DeliveredGrows
    <2>. QED BY <1>1, <2>1, <2>2 DEF CopyOf
  <1>2. ASSUME pc'[v] = pc[v], job'[v] = job[v]
        PROVE  CopyOf(v)'
    BY <1>1, <1>2 DEF CopyInv
  <1>3. ASSUME NEW f \in Entries, Enqueue(f) \/ TimePasses(f)
        PROVE  CopyOf(v)'
    BY <1>2, <1>3, OutsideMoves
  <1>4. ASSUME NEW w \in Workers, WorkerStep(w), w # v
        PROVE  CopyOf(v)'
    BY <1>2, <1>4, OthersRest
  <1>5. CASE Poll(v) \/ Claim(v) \/ Finish(v) \/ RecordFailure(v) \/ Abandon(v)
    BY <1>5, OwnMoves DEF Past, Holding
  <1>6. CASE Load(v)
    <2>. DEFINE e == job[v].entry
    <2>1. /\ status[e] = "PENDING" /\ job'[v].entry = e /\ job'[v].attempts = attempts[e]
          /\ job'[v].sent = sent[e] /\ job'[v].todo = Recipients[e] \ sent[e]
          /\ pc'[v] = "finish" => job'[v].todo = {}
          /\ pc[v] = "load"
      BY <1>6, OwnMoves DEF Past
    <2>2. e \in Entries
      BY <2>1 DEF TypeInv, TypeOK, Holding
    <2>3. delivered[e] \subseteq delivered'[e]
      BY <2>2, DeliveredGrows
    <2>. HIDE DEF e
    <2>4. sent[e] \subseteq delivered[e] /\ attempts[e] < MaxAttempts
      BY <2>1, <2>2 DEF RowInv
    <2>. QED BY <2>1, <2>3, <2>4 DEF CopyOf
  <1>7. ASSUME NEW u \in Users, SendAccepted(v, u)
        PROVE  CopyOf(v)'
    <2>. DEFINE e == job[v].entry
    <2>1. /\ pc[v] = "send" /\ pc'[v] = "progress" /\ u \in job[v].todo
          /\ job'[v].entry = e /\ job'[v].attempts = job[v].attempts
          /\ job'[v].todo = job[v].todo \ {u} /\ job'[v].sent = job[v].sent \cup {u}
      BY <1>7, OwnMoves
    <2>2. e \in Entries /\ CopyOf(v)
      BY <2>1 DEF TypeInv, TypeOK, CopyInv, CopyOf, Past, Holding
    <2>3. delivered'[e] = delivered[e] \cup {u}
      BY <1>7, <2>2 DEF SendAccepted, Deliver, TypeInv, TypeOK
    <2>. HIDE DEF e
    <2>4. job[v].sent \subseteq delivered[e] /\ Recipients[e] \subseteq job[v].todo \cup job[v].sent
          /\ job[v].attempts < MaxAttempts
      BY <2>2 DEF CopyOf, e
    <2>. QED BY <2>1, <2>3, <2>4 DEF CopyOf
  <1>8. CASE SendRefused(v) \/ DbErrorCaught(v) \/ KeepProgress(v) \/ SaveProgress(v)
               \/ (\E u \in Users : SendUnsure(v, u))
    BY <1>1, <1>8, OwnMoves
  <1>. QED
    BY <1>3, <1>4, <1>5, <1>6, <1>7, <1>8 DEF Next, Step, WorkerStep

ListOf(e) ==
  /\ again[e] = {}
  /\ (\A w \in Workers : ~(WorksOn(w, e) /\ pc[w] = "progress"))
       => delivered[e] \subseteq sent[e]
  /\ \A w \in Workers : WorksOn(w, e) /\ pc[w] # "load" =>
       job[w].todo \cap delivered[e] = {} /\ delivered[e] \subseteq job[w].sent

\* A mail that nobody delivers and whose list nobody writes.
LEMMA ListRests ==
  ASSUME NEW e \in Entries, ListOf(e),
         delivered'[e] = delivered[e], again'[e] = again[e], sent'[e] = sent[e],
         \A v \in Workers : WorksOn(v, e)' /\ pc'[v] # "load" =>
           WorksOn(v, e) /\ pc[v] # "load" /\ job'[v] = job[v],
         \A v \in Workers : WorksOn(v, e) /\ pc[v] = "progress" =>
           WorksOn(v, e)' /\ pc'[v] = "progress"
  PROVE  ListOf(e)'
  BY DEF ListOf

LEMMA NextListInv ==
  ASSUME TypeInv, LeaseInv, ListInv, Next
  PROVE  ListInv'
  <1>. SUFFICES ASSUME NEW e \in Entries, e \notin lapsed' \cup unsure'
                PROVE  ListOf(e)'
    BY DEF ListInv, ListOf
  <1>1. ASSUME NEW f \in Entries, Enqueue(f) \/ TimePasses(f)
        PROVE  ListOf(e)'
    <2>1. /\ e \notin lapsed \cup unsure
          /\ UNCHANGED <<pc, queue, job, sent, delivered, again>>
      BY <1>1, OutsideMoves
    <2>2. ListOf(e)
      BY <2>1 DEF ListInv, ListOf
    <2>. QED BY <2>1, <2>2 DEF ListOf, WorksOn
  <1>2. ASSUME NEW w \in Workers, WorkerStep(w)
        PROVE  /\ e \notin lapsed \cup unsure /\ ListOf(e)
               /\ \A v, x \in Workers : WorksOn(v, e) /\ WorksOn(x, e) => v = x
    <2>1. e \notin lapsed \cup unsure
      BY <1>2, RowMoves
    <2>. QED BY <2>1 DEF ListInv, ListOf, LeaseInv
  <1>3. ASSUME NEW w \in Workers, WorkerStep(w),
               UNCHANGED <<sent, delivered, again>>,
               WorksOn(w, e)' /\ pc'[w] # "load" =>
                 WorksOn(w, e) /\ pc[w] # "load" /\ job'[w] = job[w],
               ~(WorksOn(w, e) /\ pc[w] = "progress")
        PROVE  ListOf(e)'
    <2>1. \A v \in Workers : v # w => /\ pc'[v] = pc[v] /\ job'[v] = job[v]
                                      /\ WorksOn(v, e)' = WorksOn(v, e)
      BY <1>3, OthersRest DEF WorksOn
    <2>2. ListOf(e)
      BY <1>2, <1>3
    <2>. QED BY <1>3, <2>1, <2>2, ListRests
  <1>4. ASSUME NEW w \in Workers, Poll(w) \/ Claim(w)
        PROVE  ListOf(e)'
    <2>1. /\ UNCHANGED <<sent, delivered, again>>
          /\ pc[w] \in {"idle", "claim"}
      BY <1>4 DEF Poll, Claim, row, history
    <2>2. pc'[w] = "load" \/ pc'[w] \notin Holding
      BY <1>4, OwnMoves DEF Holding
    <2>. QED BY <1>3, <1>4, <2>1, <2>2 DEF WorksOn, Holding, WorkerStep, Step
  <1>5. ASSUME NEW w \in Workers, Load(w)
        PROVE  ListOf(e)'
    <2>1. UNCHANGED <<sent, delivered, again>> /\ pc[w] = "load"
      BY <1>5 DEF Load, row, history
    <2>2. CASE job[w].entry # e \/ pc'[w] \notin Holding
      <3>1. ~WorksOn(w, e)'
        BY <1>5, <2>2, OwnMoves DEF WorksOn, Holding
      <3>. QED BY <1>3, <1>5, <2>1, <3>1 DEF WorkerStep, Step
    <2>3. CASE job[w].entry = e /\ pc'[w] \in Holding
      <3>1. /\ pc'[w] \in {"send", "finish"} /\ job'[w].entry = e
            /\ job'[w].sent = sent[e] /\ job'[w].todo = Recipients[e] \ sent[e]
        BY <1>5, <2>3, OwnMoves
      <3>2. WorksOn(w, e)
        BY <2>1, <2>3 DEF WorksOn, Holding
      <3>3. \A v \in Workers : WorksOn(v, e) => v = w
        BY <1>2, <1>5, <3>2 DEF WorkerStep, Step
      <3>4. \A v \in Workers : WorksOn(v, e)' => v = w
        BY <1>5, <3>3, OthersRest DEF WorksOn, WorkerStep, Step
      <3>5. ListOf(e) /\ delivered[e] \subseteq sent[e]
        BY <1>2, <1>5, <2>1, <3>3 DEF ListOf, WorkerStep, Step
      <3>. QED BY <2>1, <3>1, <3>4, <3>5 DEF ListOf
    <2>. QED BY <2>2, <2>3
  <1>6. ASSUME NEW w \in Workers, SendRefused(w)
        PROVE  ListOf(e)'
    <2>1. UNCHANGED <<sent, delivered, again, job>> /\ pc[w] = "send"
      BY <1>6 DEF SendRefused, row, history
    <2>. QED BY <1>3, <1>6, <2>1 DEF WorksOn, Holding, WorkerStep, Step
  <1>7. ASSUME NEW w \in Workers, NEW u \in Users, SendUnsure(w, u)
        PROVE  ListOf(e)'
    <2>1. /\ delivered' = [delivered EXCEPT ![job[w].entry] = @ \cup {u}]
          /\ again' = [again EXCEPT ![job[w].entry] =
                         IF u \in delivered[job[w].entry] THEN @ \cup {u} ELSE @]
          /\ unsure' = unsure \cup {job[w].entry}
          /\ UNCHANGED <<sent, job>> /\ pc[w] = "send" /\ pc'[w] = "keep"
      BY <1>7 DEF SendUnsure, Deliver, Goto, row, TypeInv, TypeOK
    <2>2. e # job[w].entry
      BY <2>1
    <2>3. delivered'[e] = delivered[e] /\ again'[e] = again[e]
      BY <2>1, <2>2 DEF TypeInv, TypeOK
    <2>4. ListOf(e)
      BY <1>2, <1>7 DEF WorkerStep, Step
    <2>5. \A v \in Workers : v # w => pc'[v] = pc[v] /\ job'[v] = job[v]
      BY <1>7, OthersRest DEF WorkerStep, Step
    <2>. QED BY <2>1, <2>2, <2>3, <2>4, <2>5, ListRests DEF WorksOn
  <1>8. ASSUME NEW w \in Workers, NEW u \in Users, SendAccepted(w, u)
        PROVE  ListOf(e)'
    <2>1. /\ delivered' = [delivered EXCEPT ![job[w].entry] = @ \cup {u}]
          /\ again' = [again EXCEPT ![job[w].entry] =
                         IF u \in delivered[job[w].entry] THEN @ \cup {u} ELSE @]
          /\ sent' = sent
      BY <1>8 DEF SendAccepted, Deliver, row
    <2>2. /\ pc[w] = "send" /\ pc'[w] = "progress" /\ u \in job[w].todo
          /\ job'[w].entry = job[w].entry
          /\ job'[w].todo = job[w].todo \ {u} /\ job'[w].sent = job[w].sent \cup {u}
      BY <1>8, OwnMoves
    <2>3. \A v \in Workers : v # w => pc'[v] = pc[v] /\ job'[v] = job[v]
      BY <1>8, OthersRest DEF WorkerStep, Step
    <2>4. ListOf(e) /\ \A v, x \in Workers : WorksOn(v, e) /\ WorksOn(x, e) => v = x
      BY <1>2, <1>8 DEF WorkerStep, Step
    <2>5. CASE e # job[w].entry
      <3>1. delivered'[e] = delivered[e] /\ again'[e] = again[e]
        BY <2>1, <2>5 DEF TypeInv, TypeOK
      <3>. QED BY <2>1, <2>2, <2>3, <2>4, <2>5, <3>1, ListRests DEF WorksOn
    <2>6. CASE e = job[w].entry
      <3>1. WorksOn(w, e) /\ WorksOn(w, e)'
        BY <2>2, <2>6 DEF WorksOn, Holding
      <3>2. u \notin delivered[e] /\ delivered[e] \subseteq job[w].sent
              /\ job[w].todo \cap delivered[e] = {} /\ again[e] = {}
        BY <2>2, <2>4, <3>1 DEF ListOf
      <3>3. delivered'[e] = delivered[e] \cup {u} /\ again'[e] = again[e]
        BY <2>1, <2>6, <3>2 DEF TypeInv, TypeOK
      <3>4. \A v \in Workers : WorksOn(v, e)' => v = w
        BY <2>3, <2>4, <3>1 DEF WorksOn
      <3>5. /\ job'[w].todo \cap delivered'[e] = {}
            /\ delivered'[e] \subseteq job'[w].sent
        BY <2>2, <3>2, <3>3
      <3>. QED BY <2>2, <3>1, <3>2, <3>3, <3>4, <3>5 DEF ListOf
    <2>. QED BY <2>5, <2>6
  <1>9. ASSUME NEW w \in Workers, SaveProgress(w) \/ KeepProgress(w)
        PROVE  ListOf(e)'
    <2>1. /\ sent' = [sent EXCEPT ![job[w].entry] = job[w].sent]
          /\ UNCHANGED <<delivered, again>>
          /\ pc[w] \in {"progress", "keep"}
      BY <1>9 DEF SaveProgress, KeepProgress, WriteProgress, history
    <2>2. /\ job' = job
          /\ pc'[w] \in {"send", "finish", "failed"}
      BY <1>9 DEF SaveProgress, KeepProgress, Goto, TypeInv, TypeOK
    <2>3. \A v \in Workers : v # w => pc'[v] = pc[v]
      BY <1>9, OthersRest DEF WorkerStep, Step
    <2>4. ListOf(e) /\ \A v, x \in Workers : WorksOn(v, e) /\ WorksOn(x, e) => v = x
      BY <1>2, <1>9 DEF WorkerStep, Step
    <2>5. CASE e # job[w].entry
      <3>1. sent'[e] = sent[e]
        BY <2>1, <2>5 DEF TypeInv, TypeOK
      <3>. QED BY <2>1, <2>2, <2>3, <2>4, <2>5, <3>1, ListRests DEF WorksOn
    <2>6. CASE e = job[w].entry
      <3>1. WorksOn(w, e) /\ WorksOn(w, e)' /\ pc[w] # "load"
        BY <2>1, <2>2, <2>6 DEF WorksOn, Holding
      <3>2. /\ delivered[e] \subseteq job[w].sent
            /\ job[w].todo \cap delivered[e] = {} /\ again[e] = {}
        BY <2>4, <3>1 DEF ListOf
      <3>3. sent'[e] = job[w].sent
        BY <2>1, <2>6 DEF TypeInv, TypeOK
      <3>4. \A v \in Workers : WorksOn(v, e)' => v = w
        BY <2>2, <2>3, <2>4, <3>1 DEF WorksOn
      <3>. QED BY <2>1, <2>2, <3>2, <3>3, <3>4 DEF ListOf
    <2>. QED BY <2>5, <2>6
  <1>10. ASSUME NEW w \in Workers, Finish(w) \/ RecordFailure(w)
         PROVE  ListOf(e)'
    <2>1. UNCHANGED <<sent, delivered, again>> /\ pc[w] \in {"finish", "failed"}
      BY <1>10 DEF Finish, RecordFailure, history
    <2>2. ~WorksOn(w, e)'
      BY <1>10, OwnMoves DEF WorksOn
    <2>. QED BY <1>3, <1>10, <2>1, <2>2 DEF WorkerStep, Step
  <1>11. ASSUME NEW w \in Workers, DbErrorCaught(w)
         PROVE  ListOf(e)'
    <2>1. /\ UNCHANGED <<sent, delivered, again, job>>
          /\ pc[w] \in {"send", "progress", "keep", "finish"}
          /\ unsure' = IF pc[w] = "progress" THEN unsure \cup {job[w].entry} ELSE unsure
      BY <1>11 DEF DbErrorCaught, LoseTrack, row
    <2>2. ~(WorksOn(w, e) /\ pc[w] = "progress")
      BY <2>1 DEF WorksOn
    <2>. QED BY <1>3, <1>11, <2>1, <2>2 DEF WorksOn, Holding, WorkerStep
  <1>12. ASSUME NEW w \in Workers, Abandon(w)
         PROVE  ListOf(e)'
    <2>1. /\ UNCHANGED <<sent, delivered, again>>
          /\ unsure' = IF pc[w] = "progress" THEN unsure \cup {job[w].entry} ELSE unsure
      BY <1>12 DEF Abandon, LoseTrack, row
    <2>2. ~WorksOn(w, e)' /\ ~(WorksOn(w, e) /\ pc[w] = "progress")
      BY <1>12, <2>1, OwnMoves DEF WorksOn
    <2>. QED BY <1>3, <1>12, <2>1, <2>2 DEF WorkerStep
  <1>. QED
    BY <1>1, <1>4, <1>5, <1>6, <1>7, <1>8, <1>9, <1>10, <1>11, <1>12 DEF Next, Step

\* A worker's copy is of its row: whom it still has to mail, and, without a
\* lapse, which attempt it is at.
MailInv ==
  \A w \in Workers : pc[w] \in Past =>
    /\ job[w].todo \subseteq Recipients[job[w].entry]
    /\ pc[w] = "progress" => delivered[job[w].entry] # {}
    /\ job[w].entry \notin lapsed => job[w].attempts = attempts[job[w].entry]

MailOf(w) ==
  /\ job[w].todo \subseteq Recipients[job[w].entry]
  /\ pc[w] = "progress" => delivered[job[w].entry] # {}
  /\ job[w].entry \notin lapsed => job[w].attempts = attempts[job[w].entry]

\* The attempts of a mail change only at the end of its worker's try.
LEMMA AttemptsMove ==
  ASSUME TypeInv, NEW w \in Workers, WorkerStep(w), NEW e \in Entries
  PROVE  attempts'[e] = attempts[e] \/ (WorksOn(w, e) /\ pc'[w] \notin Holding)
  <1> USE DEF TypeInv, TypeOK
  <1>1. CASE Poll(w) \/ Load(w) \/ SendRefused(w) \/ SaveProgress(w) \/ KeepProgress(w)
    BY <1>1 DEF Poll, Load, SendRefused, SaveProgress, KeepProgress, row, history
  <1>2. CASE Claim(w)
    BY <1>2 DEF Claim, row, history
  <1>3. CASE \E u \in Users : SendAccepted(w, u) \/ SendUnsure(w, u)
    BY <1>3 DEF SendAccepted, SendUnsure, row
  <1>4. CASE DbErrorCaught(w) \/ Abandon(w)
    BY <1>4 DEF DbErrorCaught, Abandon, row
  <1>5. CASE Finish(w) \/ RecordFailure(w)
    <2>1. pc[w] \in Holding /\ pc'[w] \notin Holding
      BY <1>5, OwnMoves DEF Past
    <2>2. attempts'[e] = attempts[e] \/ e = job[w].entry
      BY <1>5 DEF Finish, RecordFailure
    <2>. QED BY <2>1, <2>2 DEF WorksOn
  <1>. QED BY <1>1, <1>2, <1>3, <1>4, <1>5 DEF WorkerStep, Step

LEMMA NextMailInv ==
  ASSUME TypeInv, LeaseInv, MailInv, Next
  PROVE  MailInv'
  <1>. SUFFICES ASSUME NEW v \in Workers, pc'[v] \in Past
                PROVE  MailOf(v)'
    BY DEF MailInv, MailOf
  <1>1. ASSUME pc[v] \in Past, job'[v] = job[v], pc'[v] = "progress" => pc[v] = "progress",
               lapsed \subseteq lapsed',
               job[v].entry \notin lapsed' =>
                 attempts'[job[v].entry] = attempts[job[v].entry]
        PROVE  MailOf(v)'
    <2>1. MailOf(v) /\ job[v].entry \in Entries
      BY <1>1 DEF MailInv, MailOf, TypeInv, TypeOK, Past
    <2>2. delivered[job[v].entry] \subseteq delivered'[job[v].entry]
      BY <2>1, DeliveredGrows
    <2>. QED BY <1>1, <2>1, <2>2 DEF MailOf
  <1>2. ASSUME NEW f \in Entries, Enqueue(f) \/ TimePasses(f)
        PROVE  MailOf(v)'
    BY <1>1, <1>2, OutsideMoves
  <1>3. ASSUME NEW w \in Workers, WorkerStep(w), w # v
        PROVE  MailOf(v)'
    <2>. DEFINE e == job[v].entry
    <2>1. pc'[v] = pc[v] /\ job'[v] = job[v]
      BY <1>3, OthersRest
    <2>2. WorksOn(v, e) /\ e \in Entries
      BY <2>1 DEF WorksOn, Past, TypeInv, TypeOK
    <2>3. lapsed' = lapsed
      BY <1>3, <2>2, RowMoves
    <2>4. e \notin lapsed => attempts'[e] = attempts[e]
      BY <1>3, <2>2, AttemptsMove DEF LeaseInv
    <2>. QED BY <1>1, <2>1, <2>3, <2>4
  <1>4. CASE Poll(v) \/ Claim(v) \/ Finish(v) \/ RecordFailure(v) \/ Abandon(v)
    BY <1>4, OwnMoves DEF Past, Holding
  <1>5. CASE Load(v)
    <2>. DEFINE e == job[v].entry
    <2>1. /\ job'[v].entry = e /\ job'[v].attempts = attempts[e]
          /\ job'[v].todo = Recipients[e] \ sent[e]
          /\ pc'[v] # "progress"
      BY <1>5, OwnMoves DEF Past
    <2>2. attempts' = attempts
      BY <1>5 DEF Load, row
    <2>. HIDE DEF e
    <2>. QED BY <2>1, <2>2 DEF MailOf
  <1>6. ASSUME NEW u \in Users, SendAccepted(v, u)
        PROVE  MailOf(v)'
    <2>. DEFINE e == job[v].entry
    <2>1. /\ pc[v] = "send" /\ pc'[v] = "progress"
          /\ job'[v].entry = e /\ job'[v].attempts = job[v].attempts
          /\ job'[v].todo = job[v].todo \ {u}
      BY <1>6, OwnMoves
    <2>2. e \in Entries /\ MailOf(v)
      BY <2>1 DEF TypeInv, TypeOK, MailInv, MailOf, Past, Holding
    <2>3. /\ delivered'[e] = delivered[e] \cup {u}
          /\ attempts' = attempts /\ lapsed' = lapsed
      BY <1>6, <2>2 DEF SendAccepted, Deliver, TypeInv, TypeOK, row
    <2>4. /\ job[v].todo \subseteq Recipients[e]
          /\ e \notin lapsed => job[v].attempts = attempts[e]
      BY <2>2 DEF MailOf
    <2>. HIDE DEF e
    <2>. QED BY <2>1, <2>3, <2>4 DEF MailOf
  <1>7. CASE SendRefused(v) \/ DbErrorCaught(v) \/ KeepProgress(v) \/ SaveProgress(v)
               \/ (\E u \in Users : SendUnsure(v, u))
    <2>1. pc[v] \in Past /\ pc'[v] # "progress" /\ job' = job
      BY <1>7, OwnMoves
    <2>2. UNCHANGED <<attempts, lapsed>>
      BY <1>7 DEF SendRefused, DbErrorCaught, KeepProgress, SaveProgress, SendUnsure, row,
         history
    <2>. QED BY <1>1, <2>1, <2>2
  <1>. QED
    BY <1>2, <1>3, <1>4, <1>5, <1>6, <1>7 DEF Next, Step, WorkerStep

-----------------------------------------------------------------------------
(* The theorems.                                                           *)

OutboxInv == TypeInv /\ CopyInv /\ RowInv /\ LeaseInv /\ ListInv /\ MailInv

LEMMA InitOutbox == Init => OutboxInv
  <1>. SUFFICES ASSUME Init
                PROVE  OutboxInv
    OBVIOUS
  <1>1. TypeInv
    <2>1. MaxLapses \in Nat /\ MaxFaults \in Nat
      BY OutboxConstantsOK
    <2>. QED BY <2>1 DEF Init, TypeInv, TypeOK, NoJob, Places, Holding
  <1>2. CopyInv /\ LeaseInv /\ ListInv /\ MailInv
    BY DEF Init, CopyInv, LeaseInv, ListInv, MailInv, WorksOn, Past, Holding
  <1>3. RowInv
    <2>1. MaxAttempts \in Nat \ {0}
      BY OutboxConstantsOK
    <2>. QED BY <2>1 DEF Init, RowInv
  <1>. QED BY <1>1, <1>2, <1>3 DEF OutboxInv

LEMMA NextOutbox ==
  ASSUME OutboxInv, [Next]_vars
  PROVE  OutboxInv'
  <1>1. CASE Next
    BY <1>1, NextTypes, NextCopyInv, NextRowInv, NextLease, NextListInv, NextMailInv
       DEF OutboxInv
  <1>2. CASE UNCHANGED vars
    BY <1>2 DEF vars, row, history, OutboxInv, TypeInv, TypeOK, CopyInv, RowInv, LeaseInv,
       ListInv, MailInv, WorksOn
  <1>. QED BY <1>1, <1>2

\* For any number of workers, mails and recipients every variable keeps its type
\* and a worker works on a mail of its poll.
THEOREM OutboxTypes == Spec => []TypeOK
  <1>1. OutboxInv => TypeOK
    BY DEF OutboxInv, TypeInv
  <1>. QED BY InitOutbox, NextOutbox, <1>1, PTL DEF Spec

\* A recipient on a progress list, in a row or in a worker's copy of it, has the
\* mail, and SENT means that all have, however many workers overwrite each other
\* (processEntry of email-outbox.service.ts).
THEOREM RecordsAreTrue == Spec => []RecordsTellDeliveries
  <1>1. OutboxInv => RecordsTellDeliveries
    BY DEF OutboxInv, CopyInv, RowInv, RecordsTellDeliveries, Past
  <1>. QED BY InitOutbox, NextOutbox, <1>1, PTL DEF Spec

\* The claim of processEntry is exclusive for any number of workers, as long as
\* no lease has run out under one of them.
THEOREM ClaimsAreExclusive == Spec => []OneDelivererPerLease
  <1>1. OutboxInv => OneDelivererPerLease
    BY DEF OutboxInv, LeaseInv, OneDelivererPerLease
  <1>. QED BY InitOutbox, NextOutbox, <1>1, PTL DEF Spec

\* For any number of workers and tries a mail reaches somebody twice only if its
\* lease ran out under a worker, the mail server's answer was lost, or a worker
\* stopped or failed between a delivery and the record of it.
THEOREM DuplicatesAreExplained == Spec => []DuplicatesHaveCause
  <1>1. OutboxInv => DuplicatesHaveCause
    BY DEF OutboxInv, ListInv, DuplicatesHaveCause
  <1>. QED BY InitOutbox, NextOutbox, <1>1, PTL DEF Spec

\* For any number of workers a pending mail has used fewer than max_attempts and one
\* given up at least as many; a mail whose lease never ran out under a worker never
\* counts more.  A try that ends in a crash is not counted (processEntry).
THEOREM RetriesEnd == Spec => []RetriesAreBounded
  <1>1. OutboxInv => RetriesAreBounded
    BY DEF OutboxInv, RowInv, RetriesAreBounded
  <1>. QED BY InitOutbox, NextOutbox, <1>1, PTL DEF Spec

\* For any number of workers a mail whose lease has not run out under one of them
\* stays SENT or FAILED; after a lapse an old copy may still be written over it.
THEOREM OutcomesAreFinal == Spec => OutcomeIsFinal
  <1>. DEFINE Final == \A e \in Entries \ lapsed :
                         status[e] \in {"SENT", "FAILED"} => status'[e] = status[e]
  <1>1. ASSUME OutboxInv, [Next]_vars
        PROVE  [Final]_vars
    <2>1. ASSUME NEW e \in Entries \ lapsed, status[e] \in {"SENT", "FAILED"},
                 NEW f \in Entries, Enqueue(f) \/ TimePasses(f)
          PROVE  status'[e] = status[e]
      BY <1>1, <2>1, OutsideMoves DEF OutboxInv
    <2>2. ASSUME NEW e \in Entries \ lapsed, status[e] \in {"SENT", "FAILED"},
                 NEW w \in Workers, WorkerStep(w)
          PROVE  status'[e] = status[e]
      <3>1. ~WorksOn(w, e)
        BY <1>1, <2>2 DEF OutboxInv, LeaseInv
      <3>. QED BY <1>1, <2>2, <3>1, RowMoves DEF OutboxInv
    <2>. QED BY <1>1, <2>1, <2>2 DEF Next, WorkerStep
  <1>2. Spec => [][Final]_vars
    BY <1>1, InitOutbox, NextOutbox, PTL DEF Spec
  <1>. QED BY <1>2 DEF OutcomeIsFinal
-----------------------------------------------------------------------------
(* The outbox implements MailDelivery.                                     *)

stageMap == [e \in Entries |-> StageOf(e)]

\* Workers, rows and leases move under the abstract mail without a step of it.
LEMMA MailRests ==
  ASSUME UNCHANGED <<status, attempts, delivered, again, lapsed, unsure>>
  PROVE  UNCHANGED Mail!mail
  BY DEF Mail!mail, StageOf

\* A row that takes a new status, and its mail the stage of that status.
LEMMA StageSet ==
  ASSUME TypeInv, NEW e \in Entries, NEW v,
         status' = [status EXCEPT ![e] = v]
  PROVE  /\ v = "PENDING" => stageMap' = [stageMap EXCEPT ![e] = "queued"]
         /\ v = "SENT"    => stageMap' = [stageMap EXCEPT ![e] = "complete"]
         /\ v = "FAILED"  => stageMap' = [stageMap EXCEPT ![e] = "givenup"]
  <1>1. \A f \in Entries : status'[f] = IF f = e THEN v ELSE status[f]
    BY DEF TypeInv, TypeOK
  <1>2. \A f \in Entries : f # e => StageOf(f)' = StageOf(f)
    BY <1>1 DEF StageOf
  <1>3. /\ v = "PENDING" => StageOf(e)' = "queued"
        /\ v = "SENT"    => StageOf(e)' = "complete"
        /\ v = "FAILED"  => StageOf(e)' = "givenup"
    BY <1>1 DEF StageOf
  <1>. QED BY <1>2, <1>3 DEF stageMap

\* A worker at an entry works on a written mail: on a queued one, if no lease
\* has run out under a worker of it.
LEMMA WorkedMail ==
  ASSUME OutboxInv, NEW w \in Workers, pc[w] \in Past
  PROVE  /\ job[w].entry \in Entries
         /\ stageMap[job[w].entry] # "unwritten"
         /\ stageMap[job[w].entry] = "queued" \/ job[w].entry \in lapsed
  <1>1. /\ job[w].entry \in Entries /\ status[job[w].entry] # "NONE"
        /\ status[job[w].entry] \in {"NONE", "PENDING", "SENT", "FAILED"}
    BY DEF OutboxInv, TypeInv, TypeOK, Past
  <1>2. status[job[w].entry] = "PENDING" \/ job[w].entry \in lapsed
    BY <1>1 DEF OutboxInv, LeaseInv, WorksOn, Past
  <1>. QED BY <1>1, <1>2 DEF stageMap, StageOf

LEMMA EnqueueWrites ==
  ASSUME OutboxInv, NEW e \in Entries, Enqueue(e)
  PROVE  Mail!Write(e)
  <1>1. status[e] = "NONE" /\ status' = [status EXCEPT ![e] = "PENDING"]
    BY DEF Enqueue
  <1>2. stageMap' = [stageMap EXCEPT ![e] = "queued"]
    BY <1>1, StageSet DEF OutboxInv
  <1>3. stageMap[e] = "unwritten"
    BY <1>1 DEF stageMap, StageOf
  <1>. QED BY <1>2, <1>3 DEF Enqueue, history, Mail!Write, stageMap

LEMMA TimeOverruns ==
  ASSUME OutboxInv, NEW e \in Entries, TimePasses(e)
  PROVE  Mail!Overrun(e) \/ UNCHANGED Mail!mail
  <1>1. /\ status[e] = "PENDING"
        /\ UNCHANGED <<status, attempts, delivered, again, unsure>>
        /\ lapsed' = lapsed \/ lapsed' = lapsed \cup {e}
    BY DEF TimePasses
  <1>2. CASE lapsed' = lapsed
    BY <1>1, <1>2, MailRests
  <1>3. CASE lapsed' = lapsed \cup {e}
    <2>1. stageMap[e] = "queued" /\ stageMap' = stageMap
      BY <1>1 DEF stageMap, StageOf
    <2>. QED BY <1>1, <1>3, <2>1 DEF Mail!Overrun, stageMap
  <1>. QED BY <1>1, <1>2, <1>3

\* One call of mail.send that the server takes is one mail handed over.
LEMMA DeliverHands ==
  ASSUME OutboxInv, NEW w \in Workers, pc[w] = "send",
         NEW u \in job[w].todo, Deliver(job[w].entry, u),
         unsure' \in {unsure, unsure \cup {job[w].entry}},
         UNCHANGED <<status, attempts, lapsed>>
  PROVE  Mail!Hand(job[w].entry, u)
  <1>. DEFINE e == job[w].entry
  <1>0. pc[w] \in Past /\ WorksOn(w, e)
    BY DEF Past, Holding, WorksOn
  <1>1. /\ e \in Entries
        /\ stageMap[e] # "unwritten" /\ (stageMap[e] = "queued" \/ e \in lapsed)
    BY <1>0, WorkedMail
  <1>2. u \in Recipients[e]
    BY <1>0 DEF OutboxInv, MailInv
  <1>3. u \in delivered[e] => e \in lapsed \cup unsure
    BY <1>0, <1>1 DEF OutboxInv, ListInv
  <1>4. /\ delivered' = [delivered EXCEPT ![e] = @ \cup {u}]
        /\ again' = [again EXCEPT ![e] = IF u \in delivered[e] THEN @ \cup {u} ELSE @]
    BY DEF Deliver
  <1>5. stageMap' = stageMap
    BY DEF stageMap, StageOf
  <1>. HIDE DEF e
  <1>6. unsure' \in {unsure, unsure \cup {e}}
    BY DEF e
  <1>7. Mail!Hand(e, u)
    BY <1>1, <1>2, <1>3, <1>4, <1>5, <1>6 DEF Mail!Hand, stageMap
  <1>. QED BY <1>7 DEF e

\* A worker that stops right after a delivery, or not.
LEMMA TrackIsLost ==
  ASSUME OutboxInv, NEW w \in Workers, DbErrorCaught(w) \/ Abandon(w)
  PROVE  \/ UNCHANGED Mail!mail
         \/ job[w].entry \in Entries /\ Mail!LoseRecord(job[w].entry)
  <1>1. /\ UNCHANGED <<status, attempts, delivered, again, lapsed>>
        /\ unsure' = IF pc[w] = "progress" THEN unsure \cup {job[w].entry} ELSE unsure
    BY DEF DbErrorCaught, Abandon, LoseTrack, row
  <1>2. CASE pc[w] # "progress"
    BY <1>1, <1>2, MailRests
  <1>3. CASE pc[w] = "progress"
    <2>1. job[w].entry \in Entries /\ delivered[job[w].entry] # {}
      BY <1>3 DEF OutboxInv, TypeInv, TypeOK, MailInv, Past, Holding
    <2>2. stageMap' = stageMap
      BY <1>1 DEF stageMap, StageOf
    <2>. QED BY <1>1, <1>3, <2>1, <2>2 DEF Mail!LoseRecord, stageMap
  <1>. QED BY <1>2, <1>3

LEMMA FinishCompletes ==
  ASSUME OutboxInv, NEW w \in Workers, Finish(w)
  PROVE  job[w].entry \in Entries /\ Mail!Complete(job[w].entry)
  <1>. DEFINE e == job[w].entry
  <1>1. /\ pc[w] = "finish" /\ pc[w] \in Past
        /\ status' = [status EXCEPT ![e] = "SENT"]
        /\ attempts' = [attempts EXCEPT ![e] = @ + 1]
        /\ UNCHANGED <<delivered, again, lapsed, unsure>>
    BY DEF Finish, history, Past, Holding
  <1>2. /\ e \in Entries
        /\ stageMap[e] # "unwritten" /\ (stageMap[e] = "queued" \/ e \in lapsed)
    BY <1>1, WorkedMail
  <1>3. Recipients[e] \subseteq delivered[e]
    BY <1>1 DEF OutboxInv, CopyInv
  <1>. HIDE DEF e
  <1>4. stageMap' = [stageMap EXCEPT ![e] = "complete"]
    BY <1>1, <1>2, StageSet DEF OutboxInv
  <1>5. attempts' = [attempts EXCEPT ![e] = attempts[e] + 1]
    BY <1>1
  <1>6. Mail!EndTry(e, "complete", attempts[e] + 1)
    BY <1>1, <1>2, <1>4, <1>5 DEF Mail!EndTry, stageMap
  <1>7. Mail!Complete(e)
    BY <1>3, <1>6 DEF Mail!Complete
  <1>. QED BY <1>2, <1>7 DEF e

\* The catch block: another try, or none if this was the last.
LEMMA FailureEndsTry ==
  ASSUME OutboxInv, NEW w \in Workers, RecordFailure(w)
  PROVE  /\ job[w].entry \in Entries
         /\ Mail!Retry(job[w].entry) \/ Mail!GiveUp(job[w].entry)
  <1>. DEFINE e == job[w].entry
              n == job[w].attempts + 1
  <1>1. /\ pc[w] \in Past
        /\ status' = [status EXCEPT ![e] = IF FailedForGood(w) THEN "FAILED" ELSE "PENDING"]
        /\ attempts' = [attempts EXCEPT ![e] = n]
        /\ UNCHANGED <<delivered, again, lapsed, unsure>>
    BY DEF RecordFailure, history, Past, Holding
  <1>2. /\ e \in Entries
        /\ stageMap[e] # "unwritten" /\ (stageMap[e] = "queued" \/ e \in lapsed)
    BY <1>1, WorkedMail
  <1>3. e \notin lapsed => n = attempts[e] + 1
    BY <1>1 DEF OutboxInv, MailInv
  <1>4. /\ MaxAttempts \in Nat \ {0} /\ job[w].attempts \in Nat
        /\ job[w].attempts < MaxAttempts
    BY <1>1, OutboxConstantsOK DEF OutboxInv, TypeInv, TypeOK, CopyInv
  <1>5. n \in Nat /\ (FailedForGood(w) => n = MaxAttempts)
          /\ (~FailedForGood(w) => n \in 1..(MaxAttempts - 1))
    BY <1>4 DEF FailedForGood
  <1>. HIDE DEF e, n
  <1>6. CASE FailedForGood(w)
    <2>1. stageMap' = [stageMap EXCEPT ![e] = "givenup"]
      BY <1>1, <1>2, <1>6, StageSet DEF OutboxInv
    <2>2. Mail!EndTry(e, "givenup", n)
      BY <1>1, <1>2, <1>3, <2>1 DEF Mail!EndTry, stageMap
    <2>3. Mail!GiveUp(e)
      BY <1>5, <1>6, <2>2 DEF Mail!GiveUp
    <2>. QED BY <1>2, <2>3 DEF e
  <1>7. CASE ~FailedForGood(w)
    <2>1. stageMap' = [stageMap EXCEPT ![e] = "queued"]
      BY <1>1, <1>2, <1>7, StageSet DEF OutboxInv
    <2>2. Mail!EndTry(e, "queued", n)
      BY <1>1, <1>2, <1>3, <2>1 DEF Mail!EndTry, stageMap
    <2>3. Mail!Retry(e)
      BY <1>5, <1>7, <2>2 DEF Mail!Retry
    <2>. QED BY <1>2, <2>3 DEF e
  <1>. QED BY <1>6, <1>7

LEMMA OtherStepsRest ==
  ASSUME NEW w \in Workers,
         \/ Poll(w) \/ Claim(w) \/ Load(w) \/ SendRefused(w)
         \/ SaveProgress(w) \/ KeepProgress(w)
  PROVE  UNCHANGED Mail!mail
  <1>1. UNCHANGED <<status, attempts, delivered, again, lapsed, unsure>>
    BY DEF Poll, Claim, Load, SendRefused, SaveProgress, KeepProgress, row, history
  <1>. QED BY <1>1, MailRests

\* Every step of the outbox is a step of the abstract mail service, or none.
LEMMA NextMails ==
  ASSUME OutboxInv, [Next]_vars
  PROVE  [Mail!Next]_(Mail!mail)
  <1>1. ASSUME NEW e \in Entries, Enqueue(e) \/ TimePasses(e)
        PROVE  Mail!Next \/ UNCHANGED Mail!mail
    BY <1>1, EnqueueWrites, TimeOverruns DEF Mail!Next
  <1>2. ASSUME NEW w \in Workers, NEW u \in Users, SendAccepted(w, u) \/ SendUnsure(w, u)
        PROVE  Mail!Next
    <2>1. job[w].entry \in Entries
      BY <1>2 DEF SendAccepted, SendUnsure, OutboxInv, TypeInv, TypeOK, Holding
    <2>2. Mail!Hand(job[w].entry, u)
      BY <1>2, DeliverHands DEF SendAccepted, SendUnsure, row
    <2>. QED BY <2>1, <2>2 DEF Mail!Next
  <1>3. ASSUME NEW w \in Workers, DbErrorCaught(w) \/ Abandon(w)
        PROVE  Mail!Next \/ UNCHANGED Mail!mail
    BY <1>3, TrackIsLost DEF Mail!Next
  <1>4. ASSUME NEW w \in Workers, Finish(w) \/ RecordFailure(w)
        PROVE  Mail!Next
    BY <1>4, FinishCompletes, FailureEndsTry DEF Mail!Next
  <1>5. CASE Next
    BY <1>1, <1>2, <1>3, <1>4, <1>5, OtherStepsRest DEF Next, Step
  <1>6. CASE UNCHANGED vars
    BY <1>6, MailRests DEF vars, row, history
  <1>. QED BY <1>5, <1>6

\* For any number of workers, mails and recipients, whatever they overwrite of
\* each other, the outbox implements MailDelivery: its rows tell the story of a
\* mail that is handed once to each recipient and is complete only when all have
\* it, but for overrun tries and lost records (email-outbox.service.ts).
THEOREM MailImplemented == Spec => MailIsDelivered
  <1>1. Init => Mail!Init
    BY DEF Init, Mail!Init, StageOf
  <1>. QED
    BY <1>1, InitOutbox, NextOutbox, NextMails, PTL DEF Spec, MailIsDelivered, Mail!Spec
=============================================================================
