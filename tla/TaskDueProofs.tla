--------------------------- MODULE TaskDueProofs ----------------------------
(***************************************************************************)
(* Theorems about TaskDue, for any number of requests and dates: the due   *)
(* date is the last commit's, and only overlapping changes can put the     *)
(* history out of step.                                                    *)
(***************************************************************************)
EXTENDS TaskDue, TLAPS

\* A request under way holds what it read.
TypeInv ==
  /\ TypeOK
  /\ \A r \in Requests : pc[r] \in Active => req[r] \in RequestRecs

\* Nobody else is inside its transaction while a request is alone.
Undisturbed ==
  \A r, q \in Requests :
    pc[r] \in Active /\ req[r].alone /\ pc[q] \in InTx => q = r

\* What a request has loaded is still so if nothing was committed since.
OldIsTrue ==
  \A r \in Requests : pc[r] \in Active =>
    /\ req[r].seen <= commits
    /\ exists /\ req[r].seen = commits => req[r].old = dueAt

\* A row whose request saw the commit before it replaced what it names.
RowsAreTrue ==
  \A x \in dueChanges : x.at = x.seen + 1 => x.old = x.prev

\* A transaction keeps the task, and its row was stamped in the past.
TxKeepsTask ==
  \A r \in Requests :
    pc[r] \in InTx => exists /\ req[r].createdAt <= clock

\* The rows in the order of their commits: the last one is the due date's.
RowsInOrder ==
  /\ \A x \in dueChanges : x.at <= commits /\ x.createdAt <= clock
  /\ \A x \in dueChanges : x.at = commits => x.new = dueAt
  /\ IF dueChanges = {} THEN dueAt = None ELSE \E x \in dueChanges : x.at = commits

\* What commits after a row that nobody overlapped was stamped after it too.
AloneIsNewest ==
  \A x \in dueChanges : x.alone =>
    /\ \A y \in dueChanges : y.at > x.at => y.createdAt > x.createdAt
    /\ \A r \in Requests : pc[r] \in InTx => req[r].createdAt > x.createdAt

DueInv ==
  /\ TypeInv /\ Undisturbed /\ OldIsTrue /\ TxKeepsTask /\ RowsInOrder
  /\ RowsAreTrue /\ AloneIsNewest

-----------------------------------------------------------------------------
LEMMA InitDue == Init => DueInv
  BY DueConstantsOK DEF Init, DueInv, TypeInv, TypeOK, Undisturbed, OldIsTrue, TxKeepsTask,
     RowsInOrder, RowsAreTrue, AloneIsNewest, Active, InTx

\* Marking the others as no longer alone changes nothing else in them.
LEMMA DisturbKeeps ==
  ASSUME NEW f \in [Requests -> RequestRecs \cup {None}], TypeInv, NEW r \in Requests,
         \A q \in Requests : pc[q] \in Active => f[q] \in RequestRecs
  PROVE  /\ Disturb(r, f) \in [Requests -> RequestRecs \cup {None}]
         /\ Disturb(r, f)[r] = f[r]
         /\ \A q \in Requests : pc[q] \in Active =>
              /\ Disturb(r, f)[q] \in RequestRecs
              /\ Disturb(r, f)[q].old = f[q].old
              /\ Disturb(r, f)[q].seen = f[q].seen
              /\ Disturb(r, f)[q].createdAt = f[q].createdAt
              /\ q # r => ~Disturb(r, f)[q].alone
  <1>1. ASSUME NEW q \in Requests, f[q] \in RequestRecs
        PROVE  /\ [f[q] EXCEPT !.alone = FALSE] \in RequestRecs
               /\ [f[q] EXCEPT !.alone = FALSE].old = f[q].old
               /\ [f[q] EXCEPT !.alone = FALSE].seen = f[q].seen
               /\ [f[q] EXCEPT !.alone = FALSE].createdAt = f[q].createdAt
               /\ ~[f[q] EXCEPT !.alone = FALSE].alone
    BY <1>1 DEF RequestRecs
  <1>. QED BY <1>1 DEF Disturb

\* The types are kept, one action at a time.
LEMMA NextTypes ==
  ASSUME TypeInv, Next
  PROVE  TypeInv'
  <1> USE DueConstantsOK DEF TypeInv
  <1>1. ASSUME DeleteProject \/ \E u \in Users : SetAgency(u)
        PROVE  TypeInv'
    <2>1. changes' \in 0..MaxChanges
      BY <1>1 DEF DeleteProject, SetAgency, Change, TypeOK
    <2>2. CASE DeleteProject
      BY <2>1, <2>2 DEF DeleteProject, TypeOK
    <2>3. ASSUME NEW u \in Users, SetAgency(u)
          PROVE  TypeInv'
      BY <2>1, <2>3 DEF SetAgency, TypeOK
    <2>. QED BY <1>1, <2>2, <2>3
  <1>2. ASSUME NEW r \in Requests, NEW u \in Users, NEW body \in Bodies, Receive(r, u, body)
        PROVE  TypeInv'
    <2>. DEFINE new == [user |-> u, body |-> body, old |-> dueAt, new |-> None,
                        createdAt |-> 0, seen |-> commits,
                        alone |-> \A q \in Requests : pc[q] \notin InTx]
    <2>1. new \in RequestRecs
      BY DEF RequestRecs, TypeOK
    <2>2. req' = [req EXCEPT ![r] = new]
      BY <1>2 DEF Receive
    <2>3. /\ pc' = [pc EXCEPT ![r] = IF exists THEN "loaded" ELSE "notfound"]
          /\ pc[r] = "idle"
      BY <1>2 DEF Receive, ReadStep, Goto
    <2>. HIDE DEF new
    <2>4. req' \in [Requests -> RequestRecs \cup {None}]
      BY <2>1, <2>2 DEF TypeOK
    <2>5. pc' \in [Requests -> {"idle"} \cup Active \cup Answers]
      BY <2>3 DEF TypeOK, Active, Answers, Refused
    <2>6. \A q \in Requests : pc'[q] \in Active => req'[q] \in RequestRecs
      BY <2>1, <2>2, <2>3 DEF TypeOK
    <2>7. \A q \in Requests : pc'[q] = "commit" <=> rowLock = q
      BY <2>3 DEF TypeOK
    <2>. QED BY <1>2, <2>4, <2>5, <2>6, <2>7 DEF Receive, ReadStep, TypeOK
  <1>3. ASSUME NEW r \in Requests, CheckRole(r) \/ CheckProject(r) \/ View(r) \/ Update(r)
        PROVE  TypeInv'
    BY <1>3 DEF CheckRole, CheckProject, View, Update, ReadStep, Goto, TypeOK, Active,
       InTx, Answers, Refused
  <1>4. ASSUME NEW r \in Requests, Decide(r)
        PROVE  TypeInv'
    <2>. DEFINE new == IF req[r].body.dueAt = Undefined THEN req[r].old
                       ELSE req[r].body.dueAt
    <2>1. req[r] \in RequestRecs
      BY <1>4 DEF Decide, ReadStep, Active
    <2>2. [req[r] EXCEPT !.new = new] \in RequestRecs
      BY <2>1 DEF RequestRecs, Bodies
    <2>3. req' = [req EXCEPT ![r] = [req[r] EXCEPT !.new = new]]
      BY <1>4 DEF Decide
    <2>. HIDE DEF new
    <2>. QED
      BY <1>4, <2>2, <2>3 DEF Decide, ReadStep, Goto, TypeOK, Active, InTx, Answers, Refused
  <1>5. ASSUME NEW r \in Requests, Insert(r)
        PROVE  TypeInv'
    <2>. DEFINE f == [req EXCEPT ![r] = [req[r] EXCEPT !.createdAt = clock + 1]]
    <2>1. [req[r] EXCEPT !.createdAt = clock + 1] \in RequestRecs
      BY <1>5 DEF Insert, RequestRecs, TypeOK, Active
    <2>2. /\ f \in [Requests -> RequestRecs \cup {None}]
          /\ \A q \in Requests : pc[q] \in Active => f[q] \in RequestRecs
      BY <2>1 DEF TypeOK
    <2>3. CASE exists
      <3>1. req' = Disturb(r, f)
        BY <1>5, <2>3 DEF Insert
      <3>2. /\ req' \in [Requests -> RequestRecs \cup {None}]
            /\ \A q \in Requests : pc[q] \in Active => req'[q] \in RequestRecs
        BY <2>2, <3>1, DisturbKeeps
      <3>3. /\ pc' = [pc EXCEPT ![r] = "update"] /\ pc[r] = "insert"
            /\ clock' \in Nat
            /\ UNCHANGED <<exists, agency, dueAt, dueChanges, rowLock, commits, changes>>
        BY <1>5, <2>3 DEF Insert, Goto, TypeOK
      <3>4. pc' \in [Requests -> {"idle"} \cup Active \cup Answers]
        BY <3>3 DEF TypeOK, Active, InTx
      <3>5. \A q \in Requests : pc'[q] \in Active => req'[q] \in RequestRecs
        BY <3>2, <3>3 DEF TypeOK, Active
      <3>6. \A q \in Requests : pc'[q] = "commit" <=> rowLock = q
        BY <3>3 DEF TypeOK
      <3>. QED BY <3>2, <3>3, <3>4, <3>5, <3>6 DEF TypeOK
    <2>4. CASE ~exists
      BY <1>5, <2>4 DEF Insert, Goto, TypeOK, Active, InTx, Answers, Refused
    <2>. QED BY <2>3, <2>4
  <1>6. ASSUME NEW r \in Requests, Commit(r)
        PROVE  TypeInv'
    <2>1. req[r] \in RequestRecs
      BY <1>6 DEF Commit, Active, InTx
    <2>2. dueChanges' \subseteq DueRow /\ dueAt' \in Dates \cup {None}
      BY <1>6, <2>1 DEF Commit, OldValue, RequestRecs, DueRow, TypeOK
    <2>3. rowLock = r
      BY <1>6 DEF Commit, TypeOK
    <2>. QED
      BY <1>6, <2>2, <2>3 DEF Commit, Goto, TypeOK, Active, InTx, Answers, Refused
  <1>7. ASSUME NEW r \in Requests, Fail(r) \/ Return(r)
        PROVE  TypeInv'
    BY <1>7 DEF Fail, Return, Goto, TypeOK, Active, InTx, Answers, Refused
  <1>. QED BY <1>1, <1>2, <1>3, <1>4, <1>5, <1>6, <1>7 DEF Next, Step

-----------------------------------------------------------------------------
\* Steps that write no row and let no request begin, or enter its transaction.
LEMMA QuietKeeps ==
  ASSUME DueInv,
         UNCHANGED <<exists, dueAt, dueChanges, clock, commits>>,
         \A q \in Requests : pc'[q] \in InTx =>
           pc[q] \in InTx /\ req'[q].createdAt = req[q].createdAt,
         \A q \in Requests : pc'[q] \in Active =>
           /\ pc[q] \in Active /\ (req'[q].alone => req[q].alone)
           /\ req'[q].old = req[q].old /\ req'[q].seen = req[q].seen
  PROVE  /\ Undisturbed' /\ OldIsTrue' /\ TxKeepsTask'
         /\ RowsInOrder' /\ RowsAreTrue' /\ AloneIsNewest'
  <1>1. Undisturbed' BY DEF DueInv, Undisturbed
  <1>2. OldIsTrue' BY DEF DueInv, OldIsTrue
  <1>3. TxKeepsTask' BY DEF DueInv, TxKeepsTask
  <1>4. RowsInOrder' BY DEF DueInv, RowsInOrder
  <1>5. AloneIsNewest' BY DEF DueInv, AloneIsNewest
  <1>6. RowsAreTrue' BY DEF DueInv, RowsAreTrue
  <1>. QED BY <1>1, <1>2, <1>3, <1>4, <1>5, <1>6

\* A new request is alone only if nobody is inside a transaction.
LEMMA ReceiveDue ==
  ASSUME DueInv, TypeInv', NEW r \in Requests, NEW u \in Users, NEW body \in Bodies,
         Receive(r, u, body)
  PROVE  DueInv'
  <1>. DEFINE new == [user |-> u, body |-> body, old |-> dueAt, new |-> None,
                      createdAt |-> 0, seen |-> commits,
                      alone |-> \A q \in Requests : pc[q] \notin InTx]
  <1>1. /\ pc' = [pc EXCEPT ![r] = IF exists THEN "loaded" ELSE "notfound"]
        /\ req' = [req EXCEPT ![r] = new]
        /\ UNCHANGED <<exists, dueAt, dueChanges, clock, commits>>
    BY DEF Receive, ReadStep, Goto
  <1>2. /\ \A q \in Requests : q # r => pc'[q] = pc[q] /\ req'[q] = req[q]
        /\ pc'[r] \in {"loaded", "notfound"} /\ req'[r] = new
    BY <1>1 DEF DueInv, TypeInv, TypeOK
  <1>3. \A q \in Requests : pc'[q] \in InTx => q # r /\ pc[q] \in InTx
    BY <1>2 DEF InTx
  <1>4. /\ new.old = dueAt /\ new.seen = commits /\ commits \in Nat
        /\ new.alone => \A q \in Requests : pc[q] \notin InTx
    BY DEF DueInv, TypeInv, TypeOK
  <1>. HIDE DEF new
  <1>5. Undisturbed'
    <2>. SUFFICES ASSUME NEW p \in Requests, NEW q \in Requests,
                         pc'[p] \in Active, req'[p].alone, pc'[q] \in InTx
                  PROVE  q = p
      BY DEF Undisturbed
    <2>1. CASE p = r
      BY <1>2, <1>3, <1>4, <2>1
    <2>2. CASE p # r
      BY <1>2, <1>3, <2>2 DEF DueInv, Undisturbed
    <2>. QED BY <2>1, <2>2
  <1>6. OldIsTrue'
    BY <1>1, <1>2, <1>4 DEF DueInv, OldIsTrue
  <1>7. TxKeepsTask'
    BY <1>1, <1>2, <1>3 DEF DueInv, TxKeepsTask
  <1>8. RowsInOrder'
    BY <1>1 DEF DueInv, RowsInOrder
  <1>9. AloneIsNewest'
    BY <1>1, <1>2, <1>3 DEF DueInv, AloneIsNewest
  <1>10. RowsAreTrue'
    BY <1>1 DEF DueInv, RowsAreTrue
  <1>. QED BY <1>5, <1>6, <1>7, <1>8, <1>9, <1>10 DEF DueInv

\* The row is stamped later than all others, and disturbs everybody else.
LEMMA InsertDue ==
  ASSUME DueInv, TypeInv', NEW r \in Requests, Insert(r)
  PROVE  DueInv'
  <1>. DEFINE f == [req EXCEPT ![r] = [req[r] EXCEPT !.createdAt = clock + 1]]
  <1>1. CASE ~exists
    <2>1. /\ pc' = [pc EXCEPT ![r] = "error"]
          /\ UNCHANGED <<exists, dueAt, dueChanges, clock, commits, req>>
      BY <1>1 DEF Insert, Goto
    <2>2. \A q \in Requests : pc'[q] \in Active => pc'[q] = pc[q]
      BY <2>1 DEF DueInv, TypeInv, TypeOK, Active, InTx
    <2>. QED BY <2>1, <2>2, QuietKeeps DEF DueInv, Active
  <1>2. CASE exists
    <2>1. /\ pc' = [pc EXCEPT ![r] = "update"]
          /\ clock' = clock + 1 /\ clock \in Nat
          /\ req' = Disturb(r, f)
          /\ UNCHANGED <<exists, dueAt, dueChanges, commits>>
          /\ pc[r] = "insert"
      BY <1>2 DEF Insert, Goto, DueInv, TypeInv, TypeOK
    <2>2. req[r] \in RequestRecs
      BY <2>1 DEF DueInv, TypeInv, Active
    <2>3. /\ [req[r] EXCEPT !.createdAt = clock + 1] \in RequestRecs
          /\ [req[r] EXCEPT !.createdAt = clock + 1].createdAt = clock + 1
          /\ [req[r] EXCEPT !.createdAt = clock + 1].old = req[r].old
          /\ [req[r] EXCEPT !.createdAt = clock + 1].seen = req[r].seen
          /\ [req[r] EXCEPT !.createdAt = clock + 1].alone = req[r].alone
      BY <2>1, <2>2 DEF RequestRecs
    <2>4. /\ f \in [Requests -> RequestRecs \cup {None}]
          /\ \A q \in Requests : pc[q] \in Active => f[q] \in RequestRecs
          /\ \A q \in Requests : q # r => f[q] = req[q]
          /\ f[r].createdAt = clock + 1 /\ f[r].old = req[r].old
          /\ f[r].alone = req[r].alone /\ f[r].seen = req[r].seen
      BY <2>3 DEF DueInv, TypeInv, TypeOK
    <2>. HIDE DEF f
    <2>5. /\ req'[r] = f[r]
          /\ \A q \in Requests : pc[q] \in Active =>
               /\ req'[q].old = f[q].old /\ req'[q].seen = f[q].seen
               /\ req'[q].createdAt = f[q].createdAt
               /\ q # r => ~req'[q].alone
      BY <2>1, <2>4, DisturbKeeps DEF DueInv
    <2>6. /\ pc'[r] = "update" /\ pc[r] \in Active
          /\ \A q \in Requests : q # r => pc'[q] = pc[q]
          /\ \A q \in Requests : pc'[q] \in InTx /\ q # r =>
               pc[q] \in InTx /\ pc[q] \in Active /\ req'[q].createdAt = req[q].createdAt
      BY <2>1, <2>4, <2>5 DEF DueInv, TypeInv, TypeOK, Active
    <2>7. \A q \in Requests : pc'[q] \in Active /\ req'[q].alone => q = r
      BY <2>5, <2>6
    <2>8. Undisturbed'
      <3>. SUFFICES ASSUME NEW q \in Requests, req'[r].alone, pc'[q] \in InTx, q # r
                    PROVE  FALSE
        BY <2>7 DEF Undisturbed
      <3>1. req[r].alone /\ pc[q] \in InTx
        BY <2>4, <2>5, <2>6
      <3>. QED BY <2>6, <3>1 DEF DueInv, Undisturbed
    <2>9. OldIsTrue'
      <3>1. \A q \in Requests : pc'[q] \in Active =>
              /\ pc[q] \in Active
              /\ req'[q].old = req[q].old /\ req'[q].seen = req[q].seen
        BY <2>4, <2>5, <2>6
      <3>. QED BY <2>1, <3>1, <1>2 DEF DueInv, OldIsTrue
    <2>10. TxKeepsTask'
      <3>. SUFFICES ASSUME NEW q \in Requests, pc'[q] \in InTx
                    PROVE  exists' /\ req'[q].createdAt <= clock'
        BY DEF TxKeepsTask
      <3>1. CASE q = r
        BY <1>2, <2>1, <2>4, <2>5, <3>1
      <3>2. CASE q # r
        <4>1. req[q] \in RequestRecs /\ req[q].createdAt <= clock
          BY <2>6, <3>2 DEF DueInv, TypeInv, TxKeepsTask
        <4>. QED BY <1>2, <2>1, <2>6, <3>2, <4>1 DEF RequestRecs
      <3>. QED BY <3>1, <3>2
    <2>11. RowsInOrder'
      BY <2>1 DEF DueInv, RowsInOrder, TypeInv, TypeOK, DueRow
    <2>12. AloneIsNewest'
      <3>1. \A x \in dueChanges : x.createdAt <= clock /\ x.createdAt \in Nat
        BY DEF DueInv, RowsInOrder, TypeInv, TypeOK, DueRow
      <3>. QED BY <2>1, <2>4, <2>5, <2>6, <3>1 DEF DueInv, AloneIsNewest
    <2>13. RowsAreTrue'
      BY <2>1 DEF DueInv, RowsAreTrue
    <2>. QED BY <2>8, <2>9, <2>10, <2>11, <2>12, <2>13 DEF DueInv
  <1>. QED BY <1>1, <1>2

\* The committed row is the last one; if it was alone nobody else may follow it
\* with an earlier stamp.
LEMMA CommitDue ==
  ASSUME DueInv, TypeInv', NEW r \in Requests, Commit(r)
  PROVE  DueInv'
  <1>. DEFINE row == [old |-> OldValue(r), new |-> req[r].new,
                      createdAt |-> req[r].createdAt, prev |-> dueAt, at |-> commits + 1,
                      seen |-> req[r].seen, alone |-> req[r].alone]
  <1>1. /\ pc[r] = "commit" /\ pc' = [pc EXCEPT ![r] = "ok"]
        /\ dueAt' = req[r].new /\ dueChanges' = dueChanges \cup {row}
        /\ commits' = commits + 1 /\ commits \in Nat
        /\ UNCHANGED <<exists, req, clock>>
    BY DEF Commit, Goto, DueInv, TypeInv, TypeOK
  <1>2. /\ pc[r] \in Active /\ pc[r] \in InTx /\ req[r] \in RequestRecs
        /\ req[r].createdAt \in Nat /\ req[r].createdAt <= clock
        /\ exists
    BY <1>1 DEF DueInv, TypeInv, TxKeepsTask, Active, InTx, RequestRecs
  <1>3. /\ row.old = req[r].old /\ row.new = req[r].new /\ row.prev = dueAt
        /\ row.createdAt = req[r].createdAt /\ row.at = commits + 1
        /\ row.alone = req[r].alone /\ row.seen = req[r].seen
    BY DEF OldValue
  <1>. HIDE DEF row
  <1>4. /\ \A q \in Requests : pc'[q] \in Active => pc[q] = pc'[q] /\ q # r
        /\ \A q \in Requests : pc'[q] \in InTx => pc[q] = pc'[q] /\ q # r
    BY <1>1 DEF DueInv, TypeInv, TypeOK, Active, InTx
  <1>5. \A x \in dueChanges : /\ x.at \in Nat /\ x.createdAt \in Nat
                              /\ x.at <= commits /\ x.createdAt <= clock
    BY DEF DueInv, TypeInv, TypeOK, DueRow, RowsInOrder
  <1>6. Undisturbed'
    BY <1>1, <1>4 DEF DueInv, Undisturbed
  <1>7. OldIsTrue'
    <2>1. \A q \in Requests : pc'[q] \in Active =>
            pc[q] \in Active /\ req[q].seen \in Nat /\ req[q].seen <= commits
      BY <1>4 DEF DueInv, TypeInv, OldIsTrue, RequestRecs
    <2>. QED BY <1>1, <2>1 DEF OldIsTrue
  <1>8. TxKeepsTask'
    BY <1>1, <1>4 DEF DueInv, TxKeepsTask
  <1>9. RowsInOrder'
    BY <1>1, <1>2, <1>3, <1>5 DEF RowsInOrder
  <1>10. AloneIsNewest'
    <2>2. row.alone => \A q \in Requests : pc'[q] \notin InTx
      BY <1>2, <1>3, <1>4 DEF DueInv, Undisturbed
    <2>3. \A x \in dueChanges : x.alone => row.createdAt > x.createdAt
      BY <1>2, <1>3 DEF DueInv, AloneIsNewest
    <2>4. \A y \in dueChanges' : ~(y.at > row.at)
      BY <1>1, <1>3, <1>5
    <2>5. ASSUME NEW x \in dueChanges, x.alone
          PROVE  /\ \A y \in dueChanges' : y.at > x.at => y.createdAt > x.createdAt
                 /\ \A q \in Requests : pc'[q] \in InTx => req'[q].createdAt > x.createdAt
      BY <1>1, <1>4, <2>3, <2>5 DEF DueInv, AloneIsNewest
    <2>. QED BY <1>1, <2>2, <2>4, <2>5 DEF AloneIsNewest
  <1>11. RowsAreTrue'
    <2>1. req[r].seen = commits => req[r].old = dueAt
      BY <1>2 DEF DueInv, OldIsTrue
    <2>2. row.at = row.seen + 1 => row.old = row.prev
      BY <1>1, <1>2, <1>3, <2>1 DEF RequestRecs
    <2>. QED BY <1>1, <2>2 DEF DueInv, RowsAreTrue
  <1>. QED BY <1>6, <1>7, <1>8, <1>9, <1>10, <1>11 DEF DueInv

LEMMA NextDue ==
  ASSUME DueInv, Next
  PROVE  DueInv'
  <1>1. TypeInv'
    BY NextTypes DEF DueInv
  <1>2. CASE DeleteProject
    BY <1>1, <1>2 DEF DueInv, DeleteProject, Undisturbed, OldIsTrue, TxKeepsTask,
       RowsInOrder, RowsAreTrue, AloneIsNewest
  <1>3. CASE \E u \in Users : SetAgency(u)
    BY <1>1, <1>3, QuietKeeps DEF SetAgency, DueInv
  <1>4. ASSUME NEW r \in Requests,
               CheckRole(r) \/ CheckProject(r) \/ View(r) \/ Update(r)
        PROVE  DueInv'
    <2>1. /\ UNCHANGED <<exists, dueAt, dueChanges, clock, commits, req>>
          /\ \A q \in Requests : q # r => pc'[q] = pc[q]
          /\ pc[r] \in Active
          /\ pc'[r] \in InTx => pc[r] \in InTx
      BY <1>4 DEF CheckRole, CheckProject, View, Update, ReadStep, Goto, DueInv, TypeInv,
         TypeOK, Active, InTx
    <2>. QED BY <1>1, <2>1, QuietKeeps DEF DueInv
  <1>5. ASSUME NEW r \in Requests, Decide(r)
        PROVE  DueInv'
    <2>1. /\ UNCHANGED <<exists, dueAt, dueChanges, clock, commits>>
          /\ \A q \in Requests : q # r => pc'[q] = pc[q] /\ req'[q] = req[q]
          /\ pc[r] \in Active /\ pc'[r] \notin InTx
      BY <1>5 DEF Decide, ReadStep, Goto, DueInv, TypeInv, TypeOK, Active, InTx
    <2>2. req[r] \in RequestRecs
      BY <2>1 DEF DueInv, TypeInv
    <2>3. /\ req'[r].alone = req[r].alone /\ req'[r].old = req[r].old
          /\ req'[r].seen = req[r].seen
      BY <1>5, <2>2 DEF Decide, DueInv, TypeInv, TypeOK, RequestRecs
    <2>. QED BY <1>1, <2>1, <2>3, QuietKeeps DEF DueInv
  <1>6. ASSUME NEW r \in Requests, Fail(r) \/ Return(r)
        PROVE  DueInv'
    <2>1. /\ UNCHANGED <<exists, dueAt, dueChanges, clock, commits>>
          /\ \A q \in Requests : q # r => pc'[q] = pc[q] /\ req'[q] = req[q]
          /\ pc'[r] \notin Active /\ pc'[r] \notin InTx
      BY <1>6 DEF Fail, Return, Goto, DueInv, TypeInv, TypeOK, Active, InTx
    <2>. QED BY <1>1, <2>1, QuietKeeps DEF DueInv
  <1>. QED
    BY <1>1, <1>2, <1>3, <1>4, <1>5, <1>6, ReceiveDue, InsertDue, CommitDue DEF Next, Step

LEMMA StutterDue ==
  ASSUME DueInv, UNCHANGED vars
  PROVE  DueInv'
  BY DEF vars, DueInv, TypeInv, TypeOK, Undisturbed, OldIsTrue, TxKeepsTask, RowsInOrder,
     RowsAreTrue, AloneIsNewest

\* For any number of requests, dates and role changes every variable keeps its
\* type and only a transaction holds the row lock of the task.
THEOREM DueTypes == Spec => []TypeOK
  <1>1. DueInv => TypeOK
    BY DEF DueInv, TypeInv
  <1>. QED BY InitDue, NextDue, StutterDue, <1>1, PTL DEF Spec

\* For any number of concurrent updates the due date is the one of the change that
\* was committed last, which need not be the newest by its time stamp, and none
\* before the first (updateDue of tasks.service.ts).
THEOREM LastCommitDecides == Spec => []LastCommitWins
  <1>1. ASSUME DueInv
        PROVE  LastCommitWins
    <2>1. \A x \in dueChanges : x.at \in Nat
      BY <1>1 DEF DueInv, TypeInv, TypeOK, DueRow
    <2>2. commits \in Nat
      BY <1>1 DEF DueInv, TypeInv, TypeOK
    <2>3. ASSUME NEW x \in dueChanges, \A y \in dueChanges : y.at <= x.at
          PROVE  x.new = dueAt
      BY <1>1, <2>1, <2>2, <2>3 DEF DueInv, RowsInOrder
    <2>. QED BY <1>1, <2>3 DEF LastCommitWins, Newest, CommitOf, DueInv, RowsInOrder
  <1>. QED BY InitDue, NextDue, StutterDue, <1>1, PTL DEF Spec

\* For any number of requests a change is logged with the value it replaced unless
\* another one was committed since its request loaded the task; and if the newest
\* row is of a request that no transaction overlapped, the task has its due date.
THEOREM HistoryIsTrueAlone == Spec => []HistoryTrueUnlessOverlapped
  <1>1. ASSUME DueInv
        PROVE  HistoryTrueUnlessOverlapped
    <2>1. \A x \in dueChanges : x.at \in Nat /\ x.createdAt \in Nat
      BY <1>1 DEF DueInv, TypeInv, TypeOK, DueRow
    <2>2. commits \in Nat
      BY <1>1 DEF DueInv, TypeInv, TypeOK
    <2>3. ASSUME NEW x \in dueChanges, x.alone,
                 \A y \in dueChanges : y.createdAt <= x.createdAt
          PROVE  x.new = dueAt
      <3>1. PICK z \in dueChanges : z.at = commits
        BY <1>1, <2>3 DEF DueInv, RowsInOrder
      <3>2. ~(z.at > x.at)
        BY <1>1, <2>1, <2>3 DEF DueInv, AloneIsNewest
      <3>3. x.at = commits
        BY <1>1, <2>1, <2>2, <3>1, <3>2 DEF DueInv, RowsInOrder
      <3>. QED BY <1>1, <3>3 DEF DueInv, RowsInOrder
    <2>. QED
      BY <1>1, <2>3 DEF HistoryTrueUnlessOverlapped, Newest, CreatedOf, DueInv,
         RowsAreTrue
  <1>. QED BY InitDue, NextDue, StutterDue, <1>1, PTL DEF Spec
=============================================================================
