--------------------------- MODULE WebClientProofs ---------------------------
(***************************************************************************)
(* Proofs about three parts of the web client that share no state: the     *)
(* calendar day of a due date (DueDatePicker), the pages of the activity   *)
(* feed (ActivityFeed) and the settings page (SettingsPage).               *)
(***************************************************************************)
EXTENDS DueDatePicker, ActivityFeed, SettingsPage, FiniteSetTheorems, FunctionTheorems,
        SequenceTheorems, TLAPS

-----------------------------------------------------------------------------
(* Calendar days.                                                          *)

DateTypeOK ==
  /\ offset \in -12..14 /\ clock \in Int
  /\ dueDate \in Int /\ picked \in Int

\* The task is due at noon UTC of the day that was submitted.
DueIsPicked ==
  dueAt = IF picked = NoDay THEN NoDay ELSE DateInputToIso(picked)

DateInv == DateTypeOK /\ DueIsPicked

\* The instant the API gets is on the day in UTC, and on another day only where
\* the clock is twelve hours or more ahead.
LEMMA NoonIsOnTheDay ==
  ASSUME NEW day \in Int, offset \in -12..14
  PROVE  /\ DateInputToIso(day) \in Int /\ DateInputToIso(day) # NoDay
         /\ DateInputValue(DateInputToIso(day)) = day
         /\ FormatDate(DateInputToIso(day)) # day => offset >= 12
  <1>. DEFINE noon == 24 * day + 12
  <1>1. noon \in Int /\ noon # 0 /\ noon \div 24 = day
    OBVIOUS
  <1>2. (noon + offset) \div 24 # day => offset >= 12
    OBVIOUS
  <1>. QED BY <1>1, <1>2 DEF DateInputToIso, DateInputValue, UtcDay, FormatDate,
                             LocalDay, NoDay

\* Later instants are on later days, or the same.
LEMMA DaysAreInOrder ==
  ASSUME NEW a \in Int, NEW b \in Int, a <= b, offset \in -12..14
  PROVE  LocalDay(a) \in Int /\ LocalDay(b) \in Int /\ LocalDay(a) <= LocalDay(b)
  BY DEF LocalDay

LEMMA InitDateInv == DateInit => DateInv
  BY DateConstantsOK DEF DateInit, DateInv, DateTypeOK, DueIsPicked, NoDay

\* Every step keeps the invariant.
LEMMA NextDateInv ==
  ASSUME DateInv, [DateNext]_dateVars
  PROVE  DateInv'
  <1>1. Today \in Int
    BY DEF DateInv, DateTypeOK, Today, LocalDay
  <1>2. CASE FillForm
    <2>1. DateInputValue(dueAt) \in Int
      <3>1. CASE picked = NoDay
        BY <3>1 DEF DateInv, DueIsPicked, DateInputValue, NoDay
      <3>2. CASE picked # NoDay
        BY <3>2, NoonIsOnTheDay DEF DateInv, DateTypeOK, DueIsPicked
      <3>. QED BY <3>1, <3>2
    <2>. QED BY <1>2, <2>1 DEF FillForm, DateInv, DateTypeOK, DueIsPicked
  <1>3. CASE Preset
    BY <1>1, <1>3 DEF Preset, DateInv, DateTypeOK, DueIsPicked
  <1>4. CASE PickDay \/ PickToday \/ PickClear
    <2>1. PICK day \in Int : Pick(day)
      <3>1. CASE PickDay
        BY <3>1, DateConstantsOK, Zenon DEF PickDay
      <3>2. CASE PickToday
        BY <1>1, <3>2 DEF PickToday
      <3>3. CASE PickClear
        BY <3>3 DEF PickClear, NoDay
      <3>. QED BY <1>4, <3>1, <3>2, <3>3
    <2>. QED BY <2>1 DEF Pick, DateInv, DateTypeOK, DueIsPicked
  <1>5. CASE SubmitDue
    BY <1>5 DEF SubmitDue, DateInv, DateTypeOK, DueIsPicked
  <1>6. CASE Later
    BY <1>6, DateConstantsOK DEF Later, DateInv, DateTypeOK, DueIsPicked
  <1>7. CASE Finish \/ OpenCalendar \/ CloseCalendar \/ ShiftMonth \/ UNCHANGED dateVars
    BY <1>7 DEF Finish, OpenCalendar, CloseCalendar, ShiftMonth, dateVars, DateInv,
                DateTypeOK, DueIsPicked
  <1>. QED BY <1>2, <1>3, <1>4, <1>5, <1>6, <1>7 DEF DateNext

\* A calendar day survives the way to the API and back, for every day, hour and
\* clock from twelve hours behind UTC to fourteen ahead of it, except what the page
\* displays where the clock is twelve hours or more ahead.  A task that the page
\* calls overdue is counted as overdue by the statistics unless it is DONE
\* (lib/format.ts, lib/calendar.ts, TaskPage.tsx, project-stats.service.ts:27-34).
THEOREM DateSafe == DateSpec => []DaySurvives
  <1>1. DateInit => DateInv
    BY InitDateInv
  <1>2. DateInv /\ [DateNext]_dateVars => DateInv'
    BY NextDateInv
  <1>3. DateInv => DaySurvives
    <2>. SUFFICES ASSUME DateInv, picked # NoDay PROVE DaySurvives
      BY DEF DaySurvives
    <2>1. dueAt = DateInputToIso(picked) /\ dueAt \in Int /\ dueAt # NoDay
      BY NoonIsOnTheDay DEF DateInv, DateTypeOK, DueIsPicked
    <2>2. DateInputValue(dueAt) = picked /\ (Display.day # picked => offset >= 12)
      BY <2>1, NoonIsOnTheDay DEF DateInv, DateTypeOK, Display
    <2>3. dueDate \notin {NoDay, Preview} => offset >= 12
      BY NoonIsOnTheDay DEF DateInv, DateTypeOK, Preview
    <2>4. Display.overdue => CountedOverdue \/ done
      <3>1. Display.overdue => LocalDay(dueAt) - LocalDay(clock) < 0
        BY DEF Display, DaysUntilDue, Today
      <3>2. clock <= dueAt => LocalDay(clock) <= LocalDay(dueAt)
        BY <2>1, DaysAreInOrder DEF DateInv, DateTypeOK
      <3>3. LocalDay(clock) \in Int /\ LocalDay(dueAt) \in Int
        BY <2>1 DEF DateInv, DateTypeOK, LocalDay
      <3>. QED BY <2>1, <3>1, <3>2, <3>3 DEF DateInv, DateTypeOK, CountedOverdue
    <2>5. CountedOverdue => DaysUntilDue(dueAt) <= 0
      BY <2>1, DaysAreInOrder
         DEF DateInv, DateTypeOK, CountedOverdue, DaysUntilDue, Today
    <2>. QED BY <2>2, <2>3, <2>4, <2>5 DEF DaySurvives
  <1>. QED BY <1>1, <1>2, <1>3, PTL DEF DateSpec

-----------------------------------------------------------------------------
(* The order of the feed.                                                  *)

FeedRows == [id : RowIds, at : 1..MaxTime, table : FeedTables, task : FeedTasks]
Cursors  == [at : 0..(MaxTime + 1), id : Nat]

Distinct(S) == \A q, r \in S : q.id = r.id => q = r

\* Rows as the feed reads them: finitely many, with an id of their own.
Readable(S) == S \subseteq FeedRows /\ IsFiniteSet(S) /\ Distinct(S)

LEMMA ReadableSubset ==
  ASSUME NEW S, NEW T \in SUBSET S, Readable(S)
  PROVE  Readable(T)
  BY FS_Subset DEF Readable, Distinct

LEMMA RowNumbers ==
  ASSUME NEW r \in FeedRows
  PROVE  /\ r.at \in Int /\ r.id \in Int
         /\ r.at > 0 /\ r.at <= MaxTime /\ r.id > 0 /\ MaxTime \in Int
  <1>1. r.at \in 1..MaxTime /\ r.id \in RowIds
    BY DEF FeedRows
  <1>2. RowIds \subseteq Nat \ {0} /\ MaxTime \in Nat
    BY FeedConstantsOK
  <1>3. r.id \in Nat \ {0}
    BY <1>1, <1>2, Zenon
  <1>. QED BY <1>1, <1>2, <1>3

\* Rows with ids of their own are in a strict order.
LEMMA NewerIsStrict ==
  /\ \A r \in FeedRows : ~Newer(r, r)
  /\ \A q, r, s \in FeedRows : Newer(q, r) /\ Newer(r, s) => Newer(q, s)
  /\ \A q, r \in FeedRows : q.id # r.id => Newer(q, r) \/ Newer(r, q)
  <1>1. \A r \in FeedRows : r.at \in Int /\ r.id \in Int
    BY RowNumbers
  <1>. QED BY <1>1 DEF Newer

\* What is shown before a cursor is newer than what comes behind it.
LEMMA CursorDivides ==
  ASSUME NEW q \in FeedRows, NEW r \in FeedRows, NEW c \in Cursors
  PROVE  /\ Behind(r, c) /\ ~Behind(q, c) => Newer(q, r)
         /\ Behind(r, Start)
         /\ ~Behind(r, End)
  <1>1. c.at \in Int /\ c.id \in Int
    BY FeedConstantsOK DEF Cursors
  <1>. QED BY <1>1, RowNumbers DEF Behind, Newer, Start, End

\* The cursor of a row is behind nothing but newer rows.
LEMMA CursorOfRow ==
  ASSUME NEW q \in FeedRows, NEW r \in FeedRows
  PROVE  /\ [at |-> q.at, id |-> q.id] \in Cursors
         /\ Behind(r, [at |-> q.at, id |-> q.id]) <=> Newer(q, r)
         /\ [at |-> q.at, id |-> q.id] \notin {Start, End}
  BY RowNumbers DEF Cursors, Behind, Newer, Start, End

Above(S, r) == {q \in S : Newer(q, r)}

\* Rows can be sorted: a row comes after as many as are newer than it is.
LEMMA SortedExists ==
  ASSUME NEW S, Readable(S)
  PROVE  \E s \in [1..Cardinality(S) -> S] :
           \A i, j \in 1..Cardinality(S) : i < j => Newer(s[i], s[j])
  <1>. DEFINE n == Cardinality(S)
              rank == [r \in S |-> Cardinality(Above(S, r)) + 1]
  <1>1. n \in Nat
    BY FS_CardinalityType DEF Readable
  <1>2. ASSUME NEW r \in S
        PROVE  /\ IsFiniteSet(Above(S, r)) /\ Cardinality(Above(S, r)) \in Nat
               /\ rank[r] \in 1..n
    <2>1. r \notin Above(S, r) /\ Above(S, r) \in SUBSET S
      BY NewerIsStrict DEF Above, Readable
    <2>2. /\ IsFiniteSet(Above(S, r)) /\ Cardinality(Above(S, r)) <= n
          /\ n = Cardinality(Above(S, r)) => S = Above(S, r)
      BY <2>1, FS_Subset DEF Readable
    <2>3. Cardinality(Above(S, r)) \in Nat
      BY <2>2, FS_CardinalityType
    <2>4. Cardinality(Above(S, r)) # n
      BY <2>1, <2>2
    <2>. QED BY <1>1, <2>2, <2>3, <2>4
  <1>3. ASSUME NEW q \in S, NEW r \in S, Newer(q, r)
        PROVE  rank[q] < rank[r]
    <2>1. Above(S, q) \in SUBSET Above(S, r) /\ q \in Above(S, r) /\ q \notin Above(S, q)
      BY <1>3, NewerIsStrict DEF Above, Readable
    <2>2. /\ Cardinality(Above(S, q)) <= Cardinality(Above(S, r))
          /\ Cardinality(Above(S, q)) # Cardinality(Above(S, r))
      BY <1>2, <2>1, FS_Subset
    <2>. QED BY <1>2, <2>2
  <1>. HIDE DEF n
  <1>4. rank \in Injection(S, 1..n)
    <2>1. rank \in [S -> 1..n]
      BY <1>2
    <2>2. ASSUME NEW q \in S, NEW r \in S, q # r
          PROVE  rank[q] # rank[r]
      <3>1. q.id # r.id
        BY <2>2 DEF Readable, Distinct
      <3>2. Newer(q, r) \/ Newer(r, q)
        BY <3>1, NewerIsStrict DEF Readable
      <3>. QED BY <1>2, <1>3, <3>2
    <2>. HIDE DEF rank
    <2>. QED BY <2>1, <2>2, Fun_IsInj
  <1>. HIDE DEF rank
  <1>5. \A i \in 1..n : \E r \in S : rank[r] = i
    <2>1. IsFiniteSet(1..n) /\ Cardinality(1..n) = n
      BY <1>1, FS_Interval
    <2>2. Cardinality(S) = Cardinality(1..n)
      BY <2>1 DEF n
    <2>3. rank \in Surjection(S, 1..n)
      BY <1>4, <2>1, <2>2, FS_Injection
    <2>. QED BY <2>3 DEF Surjection
  <1>. DEFINE s == [i \in 1..n |-> CHOOSE r \in S : rank[r] = i]
  <1>6. \A i \in 1..n : s[i] \in S /\ rank[s[i]] = i
    BY <1>5
  <1>7. s \in [1..n -> S]
    BY <1>6
  <1>. HIDE DEF s
  <1>8. ASSUME NEW i \in 1..n, NEW j \in 1..n, i < j
        PROVE  Newer(s[i], s[j])
    <2>1. s[i] # s[j]
      BY <1>6, <1>8
    <2>2. s[i].id # s[j].id
      BY <1>6, <2>1 DEF Readable, Distinct
    <2>3. Newer(s[i], s[j]) \/ Newer(s[j], s[i])
      BY <1>6, <2>2, NewerIsStrict DEF Readable
    <2>4. ~Newer(s[j], s[i])
      <3>1. rank[s[i]] = i /\ rank[s[j]] = j /\ s[i] \in S /\ s[j] \in S
        BY <1>6
      <3>2. Newer(s[j], s[i]) => j < i
        BY <1>3, <3>1, Zenon
      <3>. QED BY <1>8, <3>2
    <2>. QED BY <2>3, <2>4
  <1>. QED BY <1>7, <1>8 DEF n

\* Sorted gives every row once, the newest first.
LEMMA SortedIsSorted ==
  ASSUME NEW S, Readable(S)
  PROVE  /\ Cardinality(S) \in Nat
         /\ Sorted(S) \in [1..Cardinality(S) -> S]
         /\ \A i, j \in 1..Cardinality(S) : i < j => Newer(Sorted(S)[i], Sorted(S)[j])
         /\ \A i, j \in 1..Cardinality(S) : i # j => Sorted(S)[i] # Sorted(S)[j]
         /\ \A r \in S : \E i \in 1..Cardinality(S) : Sorted(S)[i] = r
  <1>. DEFINE n == Cardinality(S)
              s == Sorted(S)
  <1>1. n \in Nat
    BY FS_CardinalityType DEF Readable
  <1>2. s \in [1..n -> S] /\ \A i, j \in 1..n : i < j => Newer(s[i], s[j])
    BY SortedExists DEF Sorted
  <1>. HIDE DEF s
  <1>3. ASSUME NEW i \in 1..n, NEW j \in 1..n, i # j
        PROVE  s[i] # s[j]
    <2>1. s[i] \in FeedRows
      BY <1>2 DEF Readable
    <2>2. Newer(s[i], s[j]) \/ Newer(s[j], s[i])
      BY <1>1, <1>2, <1>3
    <2>. QED BY <2>1, <2>2, NewerIsStrict
  <1>. HIDE DEF n
  <1>4. \A r \in S : \E i \in 1..n : s[i] = r
    <2>1. s \in Injection(1..n, S)
      BY <1>2, <1>3, Fun_IsInj
    <2>2. IsFiniteSet(1..n) /\ Cardinality(1..n) = n
      BY <1>1, FS_Interval
    <2>3. Cardinality(1..n) = Cardinality(S)
      BY <2>2 DEF n
    <2>4. s \in Surjection(1..n, S)
      BY <2>1, <2>3, FS_Injection DEF Readable
    <2>. QED BY <2>4 DEF Surjection
  <1>. QED BY <1>1, <1>2, <1>3, <1>4 DEF n, s

-----------------------------------------------------------------------------
(* What one statement reads, and what one page keeps.                      *)

\* The first rows of a sorted set.
LEMMA CutIsPrefix ==
  ASSUME NEW S, NEW n \in Nat, NEW s \in [1..n -> S], NEW k \in Nat
  PROVE  /\ Len(s) = n /\ s \in Seq(S) /\ Cut(s, k) \in Seq(S)
         /\ Len(Cut(s, k)) = IF n < k THEN n ELSE k
         /\ \A i \in 1..Len(Cut(s, k)) : Cut(s, k)[i] = s[i]
  <1>. DEFINE m == IF n < k THEN n ELSE k
  <1>1. s \in Seq(S) /\ Len(s) = n
    <2>1. s \in Seq(S)
      BY SeqDef, Zenon
    <2>2. Len(s) \in Nat /\ DOMAIN s = 1..Len(s)
      BY <2>1, LenProperties
    <2>. QED BY <2>1, <2>2
  <1>2. m \in Nat /\ m <= n /\ Cut(s, k) = SubSeq(s, 1, m)
    BY <1>1 DEF Cut
  <1>. HIDE DEF m
  <1>3. \A i \in 1..m : s[i] \in S
    BY <1>2
  <1>4. /\ SubSeq(s, 1, m) \in Seq(S)
        /\ Len(SubSeq(s, 1, m)) = IF 1 <= m THEN m - 1 + 1 ELSE 0
        /\ \A i \in 1..(m - 1 + 1) : SubSeq(s, 1, m)[i] = s[1 + i - 1]
    BY <1>2, <1>3, SubSeqProperties
  <1>5. Len(Cut(s, k)) = m /\ \A i \in 1..m : Cut(s, k)[i] = s[i]
    BY <1>2, <1>4
  <1>. QED BY <1>1, <1>2, <1>4, <1>5 DEF m

LEMMA CutOfSorted ==
  ASSUME NEW S, Readable(S), NEW k \in Nat
  PROVE  /\ Len(Sorted(S)) = Cardinality(S) /\ Cut(Sorted(S), k) \in Seq(S)
         /\ Len(Cut(Sorted(S), k)) = IF Cardinality(S) < k THEN Cardinality(S) ELSE k
         /\ \A i \in 1..Len(Cut(Sorted(S), k)) : Cut(Sorted(S), k)[i] = Sorted(S)[i]
  <1>1. Cardinality(S) \in Nat /\ Sorted(S) \in [1..Cardinality(S) -> S]
    BY SortedIsSorted
  <1>2. \A n \in Nat : \A s \in [1..n -> S] :
          /\ Len(s) = n /\ Cut(s, k) \in Seq(S)
          /\ Len(Cut(s, k)) = IF n < k THEN n ELSE k
          /\ \A i \in 1..Len(Cut(s, k)) : Cut(s, k)[i] = s[i]
    BY CutIsPrefix
  <1>. QED BY <1>1, <1>2, Zenon

\* A statement that takes k rows of a table leaves a row out only for k newer
\* ones.
LEMMA ReadKeepsNewest ==
  ASSUME NEW S, Readable(S), NEW k \in Nat, NEW r \in S
  PROVE  LET got == Range(Cut(Sorted(S), k)) IN
         /\ got \subseteq S
         /\ r \in got \/ Cardinality(Above(got, r)) >= k
  <1>. DEFINE n   == Cardinality(S)
              s   == Sorted(S)
              cut == Cut(s, k)
              got == Range(cut)
  <1>1. /\ n \in Nat /\ s \in [1..n -> S]
        /\ \A i, j \in 1..n : i < j => Newer(s[i], s[j])
        /\ \A i, j \in 1..n : i # j => s[i] # s[j]
        /\ \A q \in S : \E i \in 1..n : s[i] = q
    BY SortedIsSorted
  <1>. HIDE DEF s, n
  <1>2. /\ cut \in Seq(S) /\ Len(cut) = IF n < k THEN n ELSE k
        /\ \A i \in 1..Len(cut) : cut[i] = s[i]
    BY CutOfSorted DEF cut, s, n
  <1>. HIDE DEF cut
  <1>3. got \subseteq S /\ \A i \in 1..Len(cut) : s[i] \in got
    BY <1>2 DEF Range
  <1>. HIDE DEF got
  <1>4. PICK i \in 1..n : s[i] = r
    BY <1>1
  <1>5. CASE i <= Len(cut)
    BY <1>1, <1>2, <1>3, <1>4, <1>5 DEF got, cut, s
  <1>6. CASE i > Len(cut)
    <2>1. Len(cut) = k /\ k < i
      BY <1>1, <1>2, <1>6
    <2>2. \A j \in 1..k : s[j] \in Above(got, r)
      BY <1>1, <1>3, <1>4, <2>1 DEF Above
    <2>. DEFINE f == [j \in 1..k |-> s[j]]
    <2>3. f \in Injection(1..k, Above(got, r))
      <3>1. f \in [1..k -> Above(got, r)]
        BY <2>2
      <3>2. \A a, b \in 1..k : f[a] = f[b] => a = b
        BY <1>1, <2>1
      <3>. QED BY <3>1, <3>2, Fun_IsInj
    <2>4. IsFiniteSet(Above(got, r))
      BY <1>3, FS_Subset DEF Above, Readable
    <2>5. Cardinality(1..k) = k /\ Cardinality(1..k) <= Cardinality(Above(got, r))
      BY <2>3, <2>4, FS_Injection, FS_Interval
    <2>6. Cardinality(Above(got, r)) \in Nat
      BY <2>4, FS_CardinalityType
    <2>. QED BY <1>3, <2>5, <2>6 DEF got, cut, s
  <1>. QED BY <1>1, <1>2, <1>5, <1>6

\* A page is in order, ends at its oldest row, and leaves nothing newer out.
LEMMA PageIsNewest ==
  ASSUME NEW S, Readable(S), NEW k \in Nat \ {0}
  PROVE  LET page == Cut(Sorted(S), k) IN
         /\ page \in Seq(S)
         /\ \A i, j \in 1..Len(page) : i < j => Newer(page[i], page[j])
         /\ Len(Sorted(S)) = Cardinality(S) /\ Cardinality(S) \in Nat
         /\ Cardinality(S) <= k => \A r \in S : r \in Range(page)
         /\ Cardinality(S) > k =>
              /\ Last(page) \in S
              /\ \A i \in 1..Len(page) : page[i] = Last(page) \/ Newer(page[i], Last(page))
              /\ \A r \in S : r \in Range(page) \/ Newer(Last(page), r)
              /\ \A r \in FeedRows :
                   Cardinality(Above(S, r)) > k => Newer(Last(page), r)
  <1>. DEFINE n    == Cardinality(S)
              s    == Sorted(S)
              page == Cut(s, k)
  <1>1. /\ n \in Nat /\ s \in [1..n -> S]
        /\ \A i, j \in 1..n : i < j => Newer(s[i], s[j])
        /\ \A q \in S : \E i \in 1..n : s[i] = q
    BY SortedIsSorted
  <1>. HIDE DEF s, n
  <1>2. /\ Len(s) = n /\ page \in Seq(S) /\ Len(page) = IF n < k THEN n ELSE k
        /\ \A i \in 1..Len(page) : page[i] = s[i]
    BY CutOfSorted DEF page, s, n
  <1>. HIDE DEF page
  <1>3. \A i, j \in 1..Len(page) : i < j => Newer(page[i], page[j])
    BY <1>1, <1>2
  <1>4. \A i \in 1..Len(page) : s[i] \in Range(page)
    BY <1>2 DEF Range
  <1>5. ASSUME n <= k, NEW r \in S
        PROVE  r \in Range(page)
    BY <1>1, <1>2, <1>4, <1>5
  <1>6. ASSUME n > k
        PROVE  /\ Last(page) \in S
               /\ \A i \in 1..Len(page) : page[i] = Last(page) \/ Newer(page[i], Last(page))
               /\ \A r \in S : r \in Range(page) \/ Newer(Last(page), r)
               /\ \A r \in FeedRows :
                    Cardinality(Above(S, r)) > k => Newer(Last(page), r)
    <2>1. Len(page) = k /\ k \in 1..n /\ Last(page) = s[k]
      BY <1>1, <1>2, <1>6 DEF Last
    <2>2. Last(page) \in S
      BY <1>1, <2>1
    <2>3. \A i \in 1..Len(page) : page[i] = Last(page) \/ Newer(page[i], Last(page))
      BY <1>1, <1>2, <2>1
    <2>4. ASSUME NEW r \in S
          PROVE  r \in Range(page) \/ Newer(Last(page), r)
      <3>1. PICK i \in 1..n : s[i] = r
        BY <1>1
      <3>2. CASE i <= k
        BY <1>4, <2>1, <3>1, <3>2
      <3>3. CASE i > k
        BY <1>1, <2>1, <3>1, <3>3
      <3>. QED BY <2>1, <3>2, <3>3
    <2>5. ASSUME NEW r \in FeedRows, Cardinality(Above(S, r)) > k, ~Newer(Last(page), r)
          PROVE  FALSE
      <3>1. \A q \in Above(S, r) : \E i \in 1..(k - 1) : s[i] = q
        <4>1. ASSUME NEW q \in Above(S, r)
              PROVE  \E i \in 1..(k - 1) : s[i] = q
          <5>1. PICK i \in 1..n : s[i] = q
            BY <1>1 DEF Above
          <5>2. i < k
            <6>1. ASSUME i >= k
                  PROVE  Newer(Last(page), r)
              <7>1. q \in FeedRows /\ Newer(q, r) /\ s[k] \in FeedRows
                BY <1>1, <2>1 DEF Above, Readable
              <7>2. s[k] = q \/ Newer(s[k], q)
                BY <1>1, <2>1, <5>1, <6>1
              <7>. QED BY <2>1, <7>1, <7>2, NewerIsStrict
            <6>. QED BY <2>1, <2>5, <6>1
          <5>. QED BY <2>1, <5>1, <5>2
        <4>. QED BY <4>1
      <3>. DEFINE f == [q \in Above(S, r) |-> CHOOSE i \in 1..(k - 1) : s[i] = q]
      <3>2. \A q \in Above(S, r) : f[q] \in 1..(k - 1) /\ s[f[q]] = q
        BY <3>1
      <3>3. f \in Injection(Above(S, r), 1..(k - 1))
        <4>1. f \in [Above(S, r) -> 1..(k - 1)]
          BY <3>2
        <4>2. \A a, b \in Above(S, r) : f[a] = f[b] => a = b
          BY <3>2
        <4>. HIDE DEF f
        <4>. QED BY <4>1, <4>2, Fun_IsInj
      <3>. HIDE DEF f
      <3>4. IsFiniteSet(1..(k - 1)) /\ Cardinality(1..(k - 1)) = k - 1
        BY FS_Interval
      <3>5. Cardinality(Above(S, r)) <= k - 1 /\ IsFiniteSet(Above(S, r))
        BY <3>3, <3>4, FS_Injection
      <3>6. Cardinality(Above(S, r)) \in Nat
        BY <3>5, FS_CardinalityType
      <3>. QED BY <2>5, <3>5, <3>6
    <2>. QED BY <2>2, <2>3, <2>4, <2>5
  <1>. QED BY <1>1, <1>2, <1>3, <1>5, <1>6 DEF n, s, page

-----------------------------------------------------------------------------
(* The feed while rows are written, commit and are read.                   *)

FeedTypeOK ==
  /\ now \in 1..MaxTime
  /\ Readable(rows \cup writing)
  /\ unread \subseteq FeedTables /\ found \subseteq rows
  /\ request.limit \in Nat
  /\ shown \in Seq(FeedRows) /\ next \in Cursors
  /\ due \subseteq rows

\* A page in progress goes on where the last one ended.
PageGoesOn ==
  /\ request = Nothing => unread = {} /\ found = {}
  /\ request # Nothing => request.limit > 0 /\ request.cursor = next
  /\ \A r \in found : Behind(r, next)

\* A due row that the statements have passed was returned, or there were
\* already more newer ones than the page can take.
DueIsFound ==
  \A r \in due :
    /\ r.task \in visible
    /\ request # Nothing /\ Behind(r, next) /\ r.table \notin unread =>
         r \in found \/ Cardinality(Above(found, r)) > request.limit

\* What was shown lies before the cursor.
ShownBeforeNext == \A i \in 1..Len(shown) : ~Behind(shown[i], next)

FeedInv ==
  /\ FeedTypeOK /\ PageGoesOn /\ DueIsFound /\ ShownBeforeNext
  /\ FeedInOrder /\ NothingSkipped

LEMMA InitFeedInv == FeedInit => FeedInv
  <1>. SUFFICES ASSUME FeedInit PROVE FeedInv  OBVIOUS
  <1>1. Readable(rows \cup writing)
    BY FS_EmptySet DEF FeedInit, Readable, Distinct
  <1>2. Start \in Cursors /\ 1 \in 1..MaxTime
    BY FeedConstantsOK DEF Start, Cursors
  <1>3. shown = <<>> /\ shown \in Seq(FeedRows) /\ Len(shown) = 0
    BY DEF FeedInit
  <1>4. FeedTypeOK
    BY <1>1, <1>2, <1>3 DEF FeedInit, FeedTypeOK, Nothing
  <1>. QED BY <1>3, <1>4 DEF FeedInit, FeedInv, PageGoesOn, DueIsFound, ShownBeforeNext,
                             FeedInOrder, NothingSkipped

\* More rows commit, and nothing else that the feed reads changes.
LEMMA RowsFeedInv ==
  ASSUME FeedInv, Readable((rows \cup writing)'), now' \in 1..MaxTime,
         rows \subseteq rows',
         UNCHANGED <<visible, request, unread, found, shown, next, due>>
  PROVE  FeedInv'
  BY DEF FeedInv, FeedTypeOK, PageGoesOn, DueIsFound, ShownBeforeNext, FeedInOrder,
         NothingSkipped

\* A new row has an id that no other row has.
LEMMA WriteRowFeedInv ==
  ASSUME FeedInv, WriteRow
  PROVE  FeedInv'
  <1>1. PICK id \in RowIds \ {r.id : r \in rows \cup writing},
             kind \in FeedTables, task \in FeedTasks :
          writing' = writing \cup {[id |-> id, at |-> now, table |-> kind, task |-> task]}
    BY DEF WriteRow
  <1>. DEFINE row == [id |-> id, at |-> now, table |-> kind, task |-> task]
  <1>2. Readable(rows \cup writing) /\ now \in 1..MaxTime
    BY DEF FeedInv, FeedTypeOK
  <1>3. row \in FeedRows /\ row.id = id
    BY <1>2 DEF FeedRows
  <1>4. (rows \cup writing)' = (rows \cup writing) \cup {row}
    BY <1>1 DEF WriteRow
  <1>. HIDE DEF row
  <1>5. IsFiniteSet((rows \cup writing) \cup {row})
    BY <1>2, FS_AddElement DEF Readable
  <1>6. Readable((rows \cup writing) \cup {row})
    BY <1>1, <1>2, <1>3, <1>5 DEF Readable, Distinct
  <1>. QED BY <1>2, <1>4, <1>6, RowsFeedInv DEF WriteRow

\* A reader opens the feed, or goes on behind the cursor.
LEMMA AskFeedInv ==
  ASSUME FeedInv, OpenFeed \/ LoadTooMuch \/ NextPage
  PROVE  FeedInv'
  <1>1. Start \in Cursors /\ End \in Cursors /\ Start # End
    BY FeedConstantsOK DEF Start, End, Cursors
  <1>2. <<>> \in Seq(FeedRows) /\ Len(<<>>) = 0
    OBVIOUS
  <1>3. CASE OpenFeed
    <2>1. PICK k \in 1..3 : Ask(PageSize * k, Start)
      BY <1>3 DEF OpenFeed
    <2>2. PageSize * k \in Nat /\ PageSize * k > 0
      BY FeedConstantsOK
    <2>3. FeedTypeOK'
      BY <1>1, <1>2, <1>3, <2>1, <2>2 DEF OpenFeed, Ask, FeedInv, FeedTypeOK
    <2>4. PageGoesOn'
      BY <1>3, <2>1, <2>2 DEF OpenFeed, Ask, PageGoesOn, Nothing
    <2>5. DueIsFound'
      <3>1. \A r \in rows : r.table \in FeedTables
        BY DEF FeedInv, FeedTypeOK, Readable, FeedRows
      <3>. QED BY <1>3, <2>1, <3>1 DEF OpenFeed, Ask, DueIsFound
    <2>. QED BY <1>2, <1>3, <2>3, <2>4, <2>5
             DEF OpenFeed, FeedInv, ShownBeforeNext, FeedInOrder, NothingSkipped
  <1>4. CASE LoadTooMuch
    BY <1>1, <1>2, <1>4 DEF LoadTooMuch, FeedInv, FeedTypeOK, PageGoesOn, DueIsFound,
       ShownBeforeNext, FeedInOrder, NothingSkipped
  <1>5. CASE NextPage
    <2>1. Ask(PageSize, next) /\ PageSize \in Nat /\ PageSize > 0
      BY <1>5, FeedConstantsOK DEF NextPage
    <2>2. FeedTypeOK'
      BY <1>5, <2>1 DEF NextPage, Ask, FeedInv, FeedTypeOK
    <2>3. PageGoesOn'
      BY <1>5, <2>1 DEF NextPage, Ask, PageGoesOn, Nothing
    <2>4. DueIsFound'
      <3>1. \A r \in rows : r.table \in FeedTables
        BY DEF FeedInv, FeedTypeOK, Readable, FeedRows
      <3>. QED BY <1>5, <2>1, <3>1 DEF NextPage, Ask, DueIsFound, FeedInv, FeedTypeOK
    <2>. QED BY <1>5, <2>2, <2>3, <2>4
             DEF NextPage, FeedInv, ShownBeforeNext, FeedInOrder, NothingSkipped
  <1>. QED BY <1>3, <1>4, <1>5

\* A statement returns the due rows of its table, or enough newer ones.
LEMMA ReadTableFeedInv ==
  ASSUME FeedInv, ReadTable
  PROVE  FeedInv'
  <1>1. PICK kind \in unread :
          LET seen == {r \in rows : /\ r.table = kind /\ r.task \in visible
                                    /\ Behind(r, request.cursor)} IN
          /\ found' = found \cup Range(Cut(Sorted(seen), request.limit + 1))
          /\ unread' = unread \ {kind}
          /\ UNCHANGED <<now, rows, writing, visible, request, shown, next, due>>
    BY DEF ReadTable
  <1>. DEFINE seen == {r \in rows : /\ r.table = kind /\ r.task \in visible
                                    /\ Behind(r, request.cursor)}
              got  == Range(Cut(Sorted(seen), request.limit + 1))
  <1>2. /\ request # Nothing /\ request.cursor = next /\ request.limit \in Nat
        /\ Readable(rows \cup writing) /\ found \subseteq rows
    BY <1>1 DEF FeedInv, FeedTypeOK, PageGoesOn
  <1>3. Readable(rows) /\ seen \in SUBSET rows
    BY <1>2, ReadableSubset
  <1>4. Readable(seen) /\ request.limit + 1 \in Nat
    BY <1>2, <1>3, ReadableSubset
  <1>5. \A r \in seen : /\ got \subseteq seen
                        /\ r \in got \/ Cardinality(Above(got, r)) >= request.limit + 1
    <2>. HIDE DEF seen
    <2>. QED BY <1>4, ReadKeepsNewest
  <1>6. got \subseteq seen
    <2>. HIDE DEF seen
    <2>. QED BY <1>4, CutOfSorted DEF Range
  <1>7. found' = found \cup got /\ found' \subseteq rows
    BY <1>1, <1>2, <1>3, <1>6
  <1>8. FeedTypeOK'
    BY <1>1, <1>7 DEF FeedInv, FeedTypeOK
  <1>9. PageGoesOn'
    BY <1>1, <1>2, <1>6, <1>7 DEF FeedInv, PageGoesOn
  <1>10. DueIsFound'
    <2>1. ASSUME NEW r \in due, Behind(r, next), r.table \notin unread'
          PROVE  r \in found' \/ Cardinality(Above(found', r)) > request.limit
      <3>1. r \in rows /\ r.task \in visible
        BY DEF FeedInv, FeedTypeOK, DueIsFound
      <3>2. IsFiniteSet(found') /\ IsFiniteSet(Above(found', r))
        BY <1>3, <1>7, FS_Subset DEF Readable, Above
      <3>3. CASE r.table = kind
        <4>1. r \in seen
          BY <1>2, <2>1, <3>1, <3>3
        <4>2. r \in got \/ Cardinality(Above(got, r)) >= request.limit + 1
          BY <1>5, <4>1
        <4>3. Above(got, r) \in SUBSET Above(found', r)
          BY <1>7 DEF Above
        <4>4. /\ Cardinality(Above(got, r)) <= Cardinality(Above(found', r))
              /\ Cardinality(Above(got, r)) \in Nat /\ Cardinality(Above(found', r)) \in Nat
          BY <3>2, <4>3, FS_Subset, FS_CardinalityType
        <4>. QED BY <1>2, <1>7, <4>2, <4>4
      <3>4. CASE r.table # kind
        <4>1. r \in found \/ Cardinality(Above(found, r)) > request.limit
          BY <1>1, <1>2, <2>1, <3>4 DEF FeedInv, DueIsFound
        <4>2. Above(found, r) \in SUBSET Above(found', r)
          BY <1>7 DEF Above
        <4>3. /\ Cardinality(Above(found, r)) <= Cardinality(Above(found', r))
              /\ Cardinality(Above(found, r)) \in Nat /\ Cardinality(Above(found', r)) \in Nat
          BY <3>2, <4>2, FS_Subset, FS_CardinalityType
        <4>. QED BY <1>2, <1>7, <4>1, <4>3
      <3>. QED BY <3>3, <3>4
    <2>. QED BY <1>1, <2>1 DEF FeedInv, DueIsFound
  <1>. QED BY <1>1, <1>8, <1>9, <1>10
           DEF FeedInv, ShownBeforeNext, FeedInOrder, NothingSkipped

\* The page appends what is next in the order, and its cursor passes no due row.
LEMMA AnswerPageFeedInv ==
  ASSUME FeedInv, AnswerPage
  PROVE  FeedInv'
  <1>. DEFINE items == Sorted(found)
              k     == request.limit
              page  == Cut(items, k)
              cursor == [at |-> Last(page).at, id |-> Last(page).id]
  <1>1. /\ request # Nothing /\ unread = {} /\ k \in Nat \ {0}
        /\ shown' = shown \o page
        /\ next' = (IF Len(items) > k THEN cursor ELSE End)
        /\ request' = Nothing /\ found' = {}
        /\ UNCHANGED <<now, rows, writing, visible, unread, due>>
    BY DEF AnswerPage, CursorAfter, FeedInv, FeedTypeOK, PageGoesOn
  <1>2. Readable(found) /\ found \subseteq FeedRows /\ rows \subseteq FeedRows
    BY ReadableSubset DEF FeedInv, FeedTypeOK, Readable
  <1>3. /\ page \in Seq(found)
        /\ \A i, j \in 1..Len(page) : i < j => Newer(page[i], page[j])
        /\ Len(items) = Cardinality(found) /\ Cardinality(found) \in Nat
        /\ Cardinality(found) <= k => \A r \in found : r \in Range(page)
        /\ Cardinality(found) > k =>
             /\ Last(page) \in found
             /\ \A i \in 1..Len(page) : page[i] = Last(page) \/ Newer(page[i], Last(page))
             /\ \A r \in found : r \in Range(page) \/ Newer(Last(page), r)
             /\ \A r \in FeedRows :
                  Cardinality(Above(found, r)) > k => Newer(Last(page), r)
    BY <1>1, <1>2, PageIsNewest
  <1>. HIDE DEF items, page, k
  <1>4. next' \in Cursors
    <2>1. End \in Cursors
      BY FeedConstantsOK DEF End, Cursors
    <2>. QED BY <1>1, <1>2, <1>3, <2>1, CursorOfRow
  <1>5. page \in Seq(FeedRows)
    BY <1>2, <1>3, SeqMonotonic
  <1>6. /\ shown \in Seq(FeedRows) /\ shown' \in Seq(FeedRows)
        /\ Len(shown) \in Nat /\ Len(page) \in Nat
        /\ Len(shown') = Len(shown) + Len(page)
        /\ \A i \in 1..Len(shown) : shown'[i] = shown[i] /\ shown[i] \in FeedRows
        /\ \A i \in 1..Len(page) : shown'[Len(shown) + i] = page[i] /\ page[i] \in found
    BY <1>1, <1>3, <1>5 DEF FeedInv, FeedTypeOK
  <1>7. \A i \in 1..Len(shown') :
          \/ i \in 1..Len(shown) /\ shown'[i] = shown[i]
          \/ \E j \in 1..Len(page) : i = Len(shown) + j /\ shown'[i] = page[j]
    <2>1. \A i \in 1..Len(shown') :
            i \in 1..Len(shown) \/ i - Len(shown) \in 1..Len(page)
      BY <1>6
    <2>2. ASSUME NEW i \in 1..Len(shown'), i \notin 1..Len(shown)
          PROVE  \E j \in 1..Len(page) : i = Len(shown) + j /\ shown'[i] = page[j]
      <3>. DEFINE j == i - Len(shown)
      <3>1. j \in 1..Len(page) /\ i = Len(shown) + j
        BY <1>6, <2>1, <2>2
      <3>2. shown'[Len(shown) + j] = page[j]
        <4>. HIDE DEF j
        <4>. QED BY <1>6, <3>1
      <3>. QED BY <3>1, <3>2
    <2>. QED BY <1>6, <2>2
  <1>8. \A i \in 1..Len(shown) : \A r \in found : Newer(shown[i], r)
    BY <1>2, <1>6, CursorDivides
       DEF FeedInv, FeedTypeOK, PageGoesOn, ShownBeforeNext
  <1>9. FeedTypeOK'
    BY <1>1, <1>4, <1>6 DEF FeedInv, FeedTypeOK, Nothing
  <1>10. PageGoesOn' /\ DueIsFound'
    BY <1>1 DEF FeedInv, PageGoesOn, DueIsFound
  <1>11. FeedInOrder'
    <2>1. ASSUME NEW i \in 1..Len(shown'), NEW j \in 1..(i - 1)
          PROVE  Newer(shown'[j], shown'[i])
      <3>1. i \in Nat /\ j \in Nat /\ j < i /\ j \in 1..Len(shown')
        BY <1>6
      <3>2. CASE i \in 1..Len(shown)
        BY <1>6, <3>1, <3>2 DEF FeedInv, FeedInOrder
      <3>3. CASE i \notin 1..Len(shown)
        <4>1. PICK b \in 1..Len(page) : i = Len(shown) + b /\ shown'[i] = page[b]
          BY <1>7, <3>3
        <4>2. CASE j \in 1..Len(shown)
          BY <1>6, <1>8, <4>1, <4>2
        <4>3. CASE j \notin 1..Len(shown)
          <5>1. PICK a \in 1..Len(page) : j = Len(shown) + a /\ shown'[j] = page[a]
            BY <1>7, <3>1, <4>3
          <5>2. a < b
            BY <1>6, <3>1, <4>1, <5>1
          <5>. QED BY <1>3, <4>1, <5>1, <5>2
        <4>. QED BY <4>2, <4>3
      <3>. QED BY <3>2, <3>3
    <2>. QED BY <2>1 DEF FeedInOrder
  <1>12. \A r \in Range(page) \cup Range(shown) : r \in Range(shown')
    <2>1. DOMAIN shown = 1..Len(shown) /\ DOMAIN shown' = 1..Len(shown')
          /\ DOMAIN page = 1..Len(page)
      BY <1>5, <1>6, LenProperties
    <2>2. \A i \in 1..Len(page) : Len(shown) + i \in 1..Len(shown')
      BY <1>6
    <2>3. \A i \in 1..Len(shown) : i \in 1..Len(shown')
      BY <1>6
    <2>. QED BY <1>6, <2>1, <2>2, <2>3 DEF Range
  <1>13. \A r \in due : /\ r \in FeedRows
                        /\ \/ Behind(r, next)
                           \/ r \in Range(shown)
                        /\ Behind(r, next) =>
                             r \in found \/ Cardinality(Above(found, r)) > k
    <2>1. due \subseteq FeedRows
      BY <1>2 DEF FeedInv, FeedTypeOK
    <2>2. \A r \in due : Behind(r, Start)
      BY <2>1, CursorDivides DEF FeedInv, FeedTypeOK
    <2>. QED BY <1>1, <2>1, <2>2 DEF FeedInv, NothingSkipped, DueIsFound, k
  <1>14. CASE Len(items) <= k
    <2>1. next' = End /\ \A r \in found : r \in Range(page)
      BY <1>1, <1>3, <1>14
    <2>2. \A r \in FeedRows : ~Behind(r, End)
      BY CursorDivides DEF FeedInv, FeedTypeOK
    <2>3. \A i \in 1..Len(shown') : shown'[i] \in FeedRows
      BY <1>6
    <2>4. ShownBeforeNext'
      BY <2>1, <2>2, <2>3 DEF ShownBeforeNext
    <2>5. ASSUME NEW r \in due
          PROVE  r \in Range(shown')
      <3>1. Cardinality(Above(found, r)) \in Nat /\ Cardinality(Above(found, r)) <= k
        <4>1. Above(found, r) \in SUBSET found /\ IsFiniteSet(found)
          BY <1>2 DEF Above, Readable
        <4>2. IsFiniteSet(Above(found, r))
              /\ Cardinality(Above(found, r)) <= Cardinality(found)
          BY <4>1, FS_Subset
        <4>3. Cardinality(Above(found, r)) \in Nat
          BY <4>2, FS_CardinalityType
        <4>. QED BY <1>1, <1>3, <1>14, <4>2, <4>3
      <3>. QED BY <1>1, <1>12, <1>13, <2>1, <3>1
    <2>. QED BY <1>1, <1>9, <1>10, <1>11, <2>4, <2>5 DEF FeedInv, NothingSkipped
  <1>15. CASE Len(items) > k
    <2>1. next' = cursor /\ Last(page) \in found /\ Last(page) \in FeedRows
      BY <1>1, <1>2, <1>3, <1>15
    <2>2. \A r \in FeedRows : Behind(r, next') <=> Newer(Last(page), r)
      BY <2>1, CursorOfRow
    <2>. HIDE DEF cursor
    <2>3. ShownBeforeNext'
      <3>1. ASSUME NEW i \in 1..Len(shown')
            PROVE  ~Behind(shown'[i], next')
        <4>1. shown'[i] \in FeedRows
          BY <1>6
        <4>2. shown'[i] = Last(page) \/ Newer(shown'[i], Last(page))
          BY <1>3, <1>7, <1>8, <1>15, <2>1
        <4>. QED BY <2>1, <2>2, <4>1, <4>2, NewerIsStrict
      <3>. QED BY <3>1 DEF ShownBeforeNext
    <2>4. ASSUME NEW r \in due, ~Behind(r, next')
          PROVE  r \in Range(shown')
      <3>1. ~Newer(Last(page), r)
        BY <1>13, <2>2, <2>4
      <3>2. Behind(r, next) => r \in Range(page)
        BY <1>3, <1>13, <1>15, <3>1
      <3>. QED BY <1>12, <1>13, <3>2
    <2>. QED BY <1>1, <1>9, <1>10, <1>11, <2>3, <2>4 DEF FeedInv, NothingSkipped
  <1>. QED BY <1>1, <1>3, <1>14, <1>15

\* Every step keeps the invariant.
LEMMA NextFeedInv ==
  ASSUME FeedInv, [FeedNext]_feedVars
  PROVE  FeedInv'
  <1>1. Readable(rows \cup writing) /\ now \in 1..MaxTime
    BY DEF FeedInv, FeedTypeOK
  <1>2. CASE Tick
    BY <1>1, <1>2, RowsFeedInv, FeedConstantsOK DEF Tick
  <1>3. CASE CommitRow
    <2>1. (rows \cup writing)' = rows \cup writing /\ rows \subseteq rows'
      BY <1>3 DEF CommitRow
    <2>. QED BY <1>1, <1>3, <2>1, RowsFeedInv DEF CommitRow
  <1>4. CASE Regroup
    BY <1>4 DEF Regroup, FeedInv, FeedTypeOK, PageGoesOn, DueIsFound, ShownBeforeNext,
                FeedInOrder, NothingSkipped
  <1>5. CASE UNCHANGED feedVars
    BY <1>1, <1>5, RowsFeedInv DEF feedVars
  <1>. QED BY <1>2, <1>3, <1>4, <1>5, WriteRowFeedInv, AskFeedInv, ReadTableFeedInv,
              AnswerPageFeedInv DEF FeedNext

LEMMA FeedInvHolds == FeedSpec => []FeedInv
  <1>1. FeedInit => FeedInv
    BY InitFeedInv
  <1>2. FeedInv /\ [FeedNext]_feedVars => FeedInv'
    BY NextFeedInv
  <1>. QED BY <1>1, <1>2, PTL DEF FeedSpec

\* The reader of a project's feed gets the rows newest first and none of them
\* twice, for any number of tables, tasks and rows and every page size, whatever
\* commits between two pages or two statements of a page
\* (project-activity.service.ts, activity-cursor.ts).
THEOREM FeedOrderSafe == FeedSpec => []FeedInOrder
  <1>1. FeedInv => FeedInOrder
    BY DEF FeedInv
  <1>. QED BY <1>1, FeedInvHolds, PTL

\* No row that was there when the feed was opened is skipped while its reader may
\* see its task: not at the end of a page, not between rows of one instant, and
\* not by three statements that read at three moments.
THEOREM FeedComplete == FeedSpec => []NothingSkipped
  <1>1. FeedInv => NothingSkipped
    BY DEF FeedInv
  <1>. QED BY <1>1, FeedInvHolds, PTL

-----------------------------------------------------------------------------
(* The settings page: its calls.                                           *)

Outcomes == {"idle", "sent", "ok", "refused", "lost"}

CallRecs ==
  [kind : {"none", "update", "profile", "role", "invite", "remove", "delete"},
   user : Users \cup {None}, to : Roles \cup {None},
   data : UNION {[F -> Texts \cup {Blank}] : F \in SUBSET Fields}, state : Outcomes]

Fetches == [state : {"none", "asked", "answered", "refused"},
            rows : [Users -> Roles \cup {None}], old : BOOLEAN]

\* Every slot holds a call that one of the forms, rows or dialogs sent.
SettingsTypeOK ==
  /\ role \in [Users -> Roles \cup {None}]
  /\ pick \in [Users -> Roles \cup {None}]
  /\ table \in [Users -> Roles \cup {None}]
  /\ text \in [Fields -> Texts \cup {Blank}]
  /\ cached \in [Fields -> Texts \cup {Blank}]
  /\ draft \in [Fields -> Texts \cup {Blank}]
  /\ input \in [Fields -> Texts \cup {Blank}]
  /\ fetch \in Fetches /\ (fetch.state = "none" => fetch = NoFetch)
  /\ marked \in BOOLEAN /\ broken \in BOOLEAN /\ overtaken \in BOOLEAN
  /\ inviteRole \in Roles
  /\ dialog \in Users \cup {None, "workspace"}
  /\ calls \in [Slots -> CallRecs]

LEMMA NoData == <<>> \in UNION {[F -> Texts \cup {Blank}] : F \in SUBSET Fields}
  <1>1. <<>> \in [{} -> Texts \cup {Blank}]
    OBVIOUS
  <1>. QED BY <1>1, Zenon

LEMMA IdleIsCall == Idle \in CallRecs
  BY NoData DEF Idle, CallRecs, Outcomes

\* A call that is sent.
LEMMA SendTypes ==
  ASSUME SettingsTypeOK, NEW kind, NEW u \in Users \cup {None}, NEW to \in Roles \cup {None},
         NEW data \in UNION {[F -> Texts \cup {Blank}] : F \in SUBSET Fields},
         kind \in {"update", "profile", "role", "invite", "remove", "delete"},
         Send(kind, u, to, data)
  PROVE  calls' \in [Slots -> CallRecs]
  <1>1. PICK s \in Slots :
          /\ calls[s] = Idle
          /\ calls' = [calls EXCEPT ![s] =
               [kind |-> kind, user |-> u, to |-> to, data |-> data, state |-> "sent"]]
    BY DEF Send
  <1>2. [kind |-> kind, user |-> u, to |-> to, data |-> data, state |-> "sent"] \in CallRecs
    BY DEF CallRecs, Outcomes
  <1>. QED BY <1>1, <1>2 DEF SettingsTypeOK

\* The texts a form sends.
LEMMA SentTexts ==
  ASSUME SettingsTypeOK, NEW F \in SUBSET Fields
  PROVE  [f \in F |-> Wanted(f)] \in UNION {[G -> Texts \cup {Blank}] : G \in SUBSET Fields}
  <1>1. [f \in F |-> Wanted(f)] \in [F -> Texts \cup {Blank}]
    BY DEF SettingsTypeOK, Wanted
  <1>. QED BY <1>1, Zenon

\* What the outcome of a call does to its slot.
LEMMA OutcomeTypes ==
  ASSUME SettingsTypeOK, NEW s \in Slots, NEW o \in Outcomes,
         calls' = [calls EXCEPT ![s].state = o]
  PROVE  /\ calls' \in [Slots -> CallRecs]
         /\ calls'[s] = [calls[s] EXCEPT !.state = o]
         /\ \A x \in Slots \ {s} : calls'[x] = calls[x]
  <1>. DEFINE c == [calls[s] EXCEPT !.state = o]
  <1>1. calls \in [Slots -> CallRecs]
    BY DEF SettingsTypeOK
  <1>2. c \in CallRecs
    BY <1>1 DEF CallRecs
  <1>. QED BY <1>1, <1>2

LEMMA AnswerTypes ==
  ASSUME SettingsTypeOK, NEW s \in Slots, calls' = [calls EXCEPT ![s] = Idle]
  PROVE  /\ calls' \in [Slots -> CallRecs]
         /\ calls'[s] = Idle
         /\ \A x \in Slots \ {s} : calls'[x] = calls[x]
  <1>1. calls \in [Slots -> CallRecs]
    BY DEF SettingsTypeOK
  <1>. QED BY <1>1, IdleIsCall

\* What fetching does to the copies.
LEMMA SeeTypes ==
  ASSUME SettingsTypeOK, NEW new \in [Fields -> Texts \cup {Blank}], See(new)
  PROVE  /\ cached' \in [Fields -> Texts \cup {Blank}]
         /\ draft' \in [Fields -> Texts \cup {Blank}]
         /\ input' \in [Fields -> Texts \cup {Blank}]
  BY DEF SettingsTypeOK, See, Filled

\* What becomes of the fetch of the members.
MembersTypeOK ==
  /\ table \in [Users -> Roles \cup {None}]
  /\ fetch \in Fetches /\ (fetch.state = "none" => fetch = NoFetch)
  /\ marked \in BOOLEAN /\ broken \in BOOLEAN /\ overtaken \in BOOLEAN

LEMMA FetchTypes ==
  /\ NoFetch \in Fetches /\ NoFetch.state = "none"
  /\ Asked \in Fetches /\ Asked.state = "asked"
  BY DEF NoFetch, Asked, Fetches

LEMMA InvalidateTypes ==
  ASSUME SettingsTypeOK, InvalidateMembers
  PROVE  MembersTypeOK'
  <1>1. CASE CanViewMembers
    BY <1>1, FetchTypes DEF SettingsTypeOK, MembersTypeOK, InvalidateMembers
  <1>2. CASE ~CanViewMembers /\ fetch.state = "answered"
    <2>1. fetch' = [fetch EXCEPT !.old = TRUE]
      BY <1>2 DEF InvalidateMembers
    <2>2. fetch' \in Fetches /\ fetch'.state = "answered"
      BY <1>2, <2>1 DEF Fetches, SettingsTypeOK
    <2>. QED BY <2>2 DEF SettingsTypeOK, MembersTypeOK, InvalidateMembers
  <1>3. CASE ~CanViewMembers /\ fetch.state # "answered"
    BY <1>3 DEF SettingsTypeOK, MembersTypeOK, InvalidateMembers
  <1>. QED BY <1>1, <1>2, <1>3

LEMMA SeeUserTypes ==
  ASSUME SettingsTypeOK, NEW mine, SeeUser(mine)
  PROVE  MembersTypeOK'
  BY FetchTypes DEF SettingsTypeOK, MembersTypeOK, SeeUser

-----------------------------------------------------------------------------
(* What each step of the settings page keeps: the types.                   *)

LEMMA RefreshTypes ==
  ASSUME SettingsTypeOK
  PROVE  /\ [cached EXCEPT !["profile"] = text["profile"]] \in [Fields -> Texts \cup {Blank}]
         /\ [text EXCEPT !["profile"] = cached["profile"]] \in [Fields -> Texts \cup {Blank}]
         /\ text \in [Fields -> Texts \cup {Blank}]
  BY DEF SettingsTypeOK, Fields

LEMMA InitSettingsTypeOK == Init => SettingsTypeOK
  <1>. SUFFICES ASSUME Init PROVE SettingsTypeOK  OBVIOUS
  <1>1. text \in [Fields -> Texts \cup {Blank}] /\ role \in [Users -> Roles \cup {None}]
    BY SettingsConstantsOK DEF Init
  <1>. QED BY <1>1, IdleIsCall, FetchTypes DEF Init, SettingsTypeOK, Roles

\* A role that is highlighted in a dropdown.
LEMMA ChoiceIsRole ==
  ASSUME NEW m, NEW r \in Choice(m, RoleOptions)
  PROVE  r = RoleOptions[m.at] /\ r \in Roles
  BY DEF Choice, RoleOptions, Roles

\* An answer is taken from its slot, and what is fetched has its type.
LEMMA SettingsNext == SettingsTypeOK /\ [Next]_vars => SettingsTypeOK'
  <1>. SUFFICES ASSUME SettingsTypeOK, [Next]_vars PROVE SettingsTypeOK'
    OBVIOUS
  <1>. USE DEF server, copies, members, texts
  <1>1. CASE Poll
    BY <1>1, FetchTypes DEF Poll, SettingsTypeOK
  <1>a. CASE AnswerMembers
    <2>1. fetch' \in Fetches /\ fetch'.state # "none"
      BY <1>a DEF AnswerMembers, SettingsTypeOK, Fetches
    <2>. QED BY <1>a, <2>1 DEF AnswerMembers, SettingsTypeOK
  <1>b. CASE MembersArrive
    <2>1. fetch.rows \in [Users -> Roles \cup {None}] /\ fetch.old \in BOOLEAN
      BY DEF SettingsTypeOK, Fetches
    <2>. QED BY <1>b, <2>1, FetchTypes DEF MembersArrive, SettingsTypeOK
  <1>c. CASE MembersFail
    BY <1>c, FetchTypes DEF MembersFail, SettingsTypeOK
  <1>2. CASE Focus
    <2>1. \/ See([text EXCEPT !["profile"] = cached["profile"]])
          \/ UNCHANGED texts
      BY <1>2 DEF Focus, SeeWorkspace
    <2>2. /\ cached' \in [Fields -> Texts \cup {Blank}]
          /\ draft' \in [Fields -> Texts \cup {Blank}]
          /\ input' \in [Fields -> Texts \cup {Blank}]
      BY <2>1, RefreshTypes, SeeTypes DEF SettingsTypeOK
    <2>. QED BY <1>2, <2>2 DEF Focus, SettingsTypeOK
  <1>3. CASE Type
    BY <1>3 DEF Type, SettingsTypeOK
  <1>4. CASE SaveWorkspace
    <2>1. [f \in Changes |-> Wanted(f)]
             \in UNION {[G -> Texts \cup {Blank}] : G \in SUBSET Fields}
      BY SentTexts, Changes \in SUBSET Fields DEF Changes, Fields
    <2>2. calls' \in [Slots -> CallRecs]
      BY <1>4, <2>1, SendTypes DEF SaveWorkspace
    <2>. QED BY <1>4, <2>2 DEF SaveWorkspace, SettingsTypeOK
  <1>5. CASE SaveProfile
    <2>1. [f \in {"profile"} |-> Wanted(f)]
             \in UNION {[G -> Texts \cup {Blank}] : G \in SUBSET Fields}
      BY SentTexts, {"profile"} \in SUBSET Fields DEF Fields
    <2>2. calls' \in [Slots -> CallRecs]
      BY <1>5, <2>1, SendTypes DEF SaveProfile
    <2>. QED BY <1>5, <2>2 DEF SaveProfile, SettingsTypeOK
  <1>6. CASE UseMenu
    BY <1>6 DEF UseMenu, SettingsTypeOK
  <1>7. CASE ChooseInviteRole
    BY <1>7, ChoiceIsRole DEF ChooseInviteRole, SettingsTypeOK
  <1>8. CASE ChooseRole
    <2>1. PICK u \in Users : 
            /\ \E r \in Choice(menus[u], RoleOptions) : Send("role", u, r, <<>>)
            /\ pick' = [pick EXCEPT ![u] = IF PendingFor(u) THEN None
                                           ELSE RoleOptions[menus[u].at]]
      BY <1>8 DEF ChooseRole
    <2>2. PICK r \in Choice(menus[u], RoleOptions) : Send("role", u, r, <<>>)
      BY <2>1
    <2>3. r = RoleOptions[menus[u].at] /\ r \in Roles
      BY ChoiceIsRole
    <2>4. calls' \in [Slots -> CallRecs]
      BY <2>2, <2>3, SendTypes, NoData
    <2>5. pick' \in [Users -> Roles \cup {None}]
      BY <2>1, <2>3 DEF SettingsTypeOK
    <2>. QED BY <1>8, <2>4, <2>5 DEF ChooseRole, SettingsTypeOK
  <1>9. CASE Invite
    <2>1. PICK u \in Mates :
            Send("invite", u, inviteRole, <<>>) /\ pick' = [pick EXCEPT ![u] = None]
      BY <1>9 DEF Invite
    <2>2. calls' \in [Slots -> CallRecs]
      BY <2>1, SendTypes, NoData DEF SettingsTypeOK, Users
    <2>. QED BY <1>9, <2>1, <2>2 DEF Invite, SettingsTypeOK
  <1>10. CASE OpenDialog
    BY <1>10 DEF OpenDialog, SettingsTypeOK
  <1>11. CASE CancelDialog
    BY <1>11 DEF CancelDialog, SettingsTypeOK
  <1>12. CASE ConfirmDialog
    <2>1. calls' \in [Slots -> CallRecs]
      <3>1. CASE dialog = "workspace"
        BY <1>12, <3>1, SendTypes, NoData DEF ConfirmDialog
      <3>2. CASE dialog # "workspace"
        <4>1. dialog \in Users
          BY <1>12, <3>2 DEF ConfirmDialog, SettingsTypeOK
        <4>. QED BY <1>12, <3>2, <4>1, SendTypes, NoData DEF ConfirmDialog
      <3>. QED BY <3>1, <3>2
    <2>2. pick' \in [Users -> Roles \cup {None}]
      BY <1>12 DEF ConfirmDialog, SettingsTypeOK
    <2>. QED BY <1>12, <2>1, <2>2 DEF ConfirmDialog, SettingsTypeOK
  <1>13. CASE RolesElsewhere \/ TextsElsewhere \/ DeletedElsewhere
    <2>1. role' \in [Users -> Roles \cup {None}] /\ pick' \in [Users -> Roles \cup {None}]
      BY <1>13 DEF RolesElsewhere, TextsElsewhere, DeletedElsewhere, SettingsTypeOK
    <2>2. text' \in [Fields -> Texts \cup {Blank}]
      BY <1>13 DEF RolesElsewhere, TextsElsewhere, DeletedElsewhere, SettingsTypeOK
    <2>. QED BY <1>13, <2>1, <2>2
             DEF RolesElsewhere, TextsElsewhere, DeletedElsewhere, SettingsTypeOK
  <1>14. ASSUME NEW s \in Slots, Serve(s) PROVE SettingsTypeOK'
    <2>. DEFINE c == calls[s]
    <2>1. c \in CallRecs
      BY DEF SettingsTypeOK
    <2>2. calls' \in [Slots -> CallRecs]
      BY <1>14, OutcomeTypes DEF Serve, Outcomes
    <2>3. CASE Accepted(c)
      <3>1. text' \in [Fields -> Texts \cup {Blank}]
        <4>1. PICK F \in SUBSET Fields : c.data \in [F -> Texts \cup {Blank}]
          BY <2>1 DEF CallRecs
        <4>. QED BY <1>14, <2>3, <4>1 DEF Serve, SettingsTypeOK
      <3>2. role' \in [Users -> Roles \cup {None}]
        BY <1>14, <2>1, <2>3 DEF Serve, SettingsTypeOK, CallRecs
      <3>. QED BY <1>14, <2>2, <2>3, <3>1, <3>2 DEF Serve, SettingsTypeOK
    <2>4. CASE ~Accepted(c)
      <3>1. pick' \in [Users -> Roles \cup {None}]
        BY <1>14, <2>4 DEF Serve, SettingsTypeOK
      <3>. QED BY <1>14, <2>2, <2>4, <3>1 DEF Serve, SettingsTypeOK
    <2>. QED BY <2>3, <2>4
  <1>15. ASSUME NEW s \in Slots, Lose(s) PROVE SettingsTypeOK'
    <2>1. calls' \in [Slots -> CallRecs]
      BY <1>15, OutcomeTypes DEF Lose, Outcomes
    <2>. QED BY <1>15, <2>1 DEF Lose, SettingsTypeOK
  <1>16. ASSUME NEW s \in Slots, MembersAnswer(s) PROVE SettingsTypeOK'
    <2>1. calls' \in [Slots -> CallRecs]
      BY <1>16, AnswerTypes DEF MembersAnswer
    <2>2. dialog' \in Users \cup {None, "workspace"}
      BY <1>16 DEF MembersAnswer, CloseAfter, SettingsTypeOK
    <2>3. MembersTypeOK'
      BY <1>16, InvalidateTypes DEF MembersAnswer
    <2>. QED BY <1>16, <2>1, <2>2, <2>3 DEF MembersAnswer, SettingsTypeOK, MembersTypeOK
  <1>17. ASSUME NEW s \in Slots, TextsAnswer(s) PROVE SettingsTypeOK'
    <2>1. calls' \in [Slots -> CallRecs]
      BY <1>17, AnswerTypes DEF TextsAnswer
    <2>2. dialog' \in Users \cup {None, "workspace"}
      BY <1>17 DEF TextsAnswer, CloseAfter, SettingsTypeOK
    <2>3. MembersTypeOK'
      <3>1. (\E mine : SeeUser(mine)) \/ UNCHANGED members
        BY <1>17 DEF TextsAnswer, RefreshUser
      <3>. QED BY <3>1, SeeUserTypes DEF SettingsTypeOK, MembersTypeOK
    <2>4. /\ cached' \in [Fields -> Texts \cup {Blank}]
          /\ draft' \in [Fields -> Texts \cup {Blank}]
          /\ input' \in [Fields -> Texts \cup {Blank}]
      BY <1>17, RefreshTypes, SeeTypes
      DEF TextsAnswer, SeeWorkspace, RefreshUser, SettingsTypeOK
    <2>. QED BY <1>17, <2>1, <2>2, <2>3, <2>4 DEF TextsAnswer, SettingsTypeOK, MembersTypeOK
  <1>18. ASSUME NEW s \in Slots, ErrorAnswer(s) PROVE SettingsTypeOK'
    <2>1. calls' \in [Slots -> CallRecs]
      BY <1>18, AnswerTypes DEF ErrorAnswer
    <2>2. dialog' \in Users \cup {None, "workspace"}
      BY <1>18 DEF ErrorAnswer, CloseAfter, SettingsTypeOK
    <2>. QED BY <1>18, <2>1, <2>2 DEF ErrorAnswer, SettingsTypeOK
  <1>19. CASE UNCHANGED vars
    BY <1>19 DEF vars, SettingsTypeOK
  <1>. QED BY <1>1, <1>a, <1>b, <1>c, <1>2, <1>3, <1>4, <1>5, <1>6, <1>7, <1>8, <1>9, <1>10,
              <1>11, <1>12, <1>13, <1>14, <1>15, <1>16, <1>17, <1>18, <1>19 DEF Next

-----------------------------------------------------------------------------
(* The settings page: the role picked last.                                *)

\* The call in a slot is the only one for a member, and asks for the picked role.
AsksFor(s, u) ==
  /\ calls[s].user = u /\ calls[s].kind = "role" /\ calls[s].to = pick[u]
  /\ \A x \in Slots \ {s} : calls[x].user # u

\* What a fetch on its way brings, unless it was answered before an invalidation.
Fresh(u) ==
  fetch.state = "answered" /\ ~fetch.old => fetch.rows[u] = pick[u]

\* The table shows the picked role, or will: it is invalidated, and a fetch is on its
\* way, or has failed, or waits until the query is switched on again.
Shown(u) ==
  /\ Fresh(u)
  /\ \/ overtaken \/ table[u] = pick[u]
     \/ marked /\ (~CanViewMembers \/ fetch.state # "none" \/ broken)

\* A role that was picked, and that nothing else touched, is on its way, or the
\* member has it: then its answer is under way, or the table shows it, or will.
PickStands(u) ==
  pick[u] # None =>
    \/ \E s \in Slots : /\ AsksFor(s, u)
                        /\ \/ calls[s].state = "sent"
                           \/ calls[s].state = "ok" /\ role[u] = pick[u]
    \/ ~PendingFor(u) /\ role[u] = pick[u] /\ Shown(u)

PickInv == \A u \in Users : PickStands(u)

\* An input displays its draft, or the fetched text where nothing else was typed:
\* unless it was filled again over the draft.
FormInv ==
  \A f \in Fields :
    \/ f \in overlaid
    \/ input[f] = draft[f]
    \/ draft[f] \in {Blank, cached[f]} /\ input[f] = cached[f]

LEMMA NoneIsNoUser == None \notin Users /\ None \notin Roles
  BY SettingsConstantsOK DEF Users

LEMMA InitPickInv == Init => PickInv
  BY NoneIsNoUser DEF Init, PickInv, PickStands

\* A member for whom nothing is sent, answered or changed.
LEMMA PickFrame ==
  ASSUME SettingsTypeOK, NEW u \in Users, PickStands(u), pick'[u] = pick[u],
         role'[u] = role[u],
         \A s \in Slots : \/ calls'[s] = calls[s]
                          \/ calls[s].user # u /\ calls'[s].user # u,
         Shown(u) /\ role[u] = pick[u] => Shown(u)'
  PROVE  PickStands(u)'
  BY DEF PickStands, AsksFor, PendingFor

LEMMA ShownFrame ==
  ASSUME NEW u, UNCHANGED <<user, members>>, pick'[u] = pick[u], Shown(u)
  PROVE  Shown(u)'
  BY DEF Shown, Fresh, CanViewMembers, members

\* A call is sent that is not for the member.
LEMMA PickSend ==
  ASSUME SettingsTypeOK, NEW kind, NEW v \in Users \cup {None}, NEW to, NEW data,
         Send(kind, v, to, data),
         NEW u \in Users, u # v, PickStands(u), pick'[u] = pick[u],
         UNCHANGED <<role, user, members>>
  PROVE  PickStands(u)'
  <1>1. PICK s \in Slots :
          /\ calls[s] = Idle
          /\ calls' = [calls EXCEPT ![s] =
               [kind |-> kind, user |-> v, to |-> to, data |-> data, state |-> "sent"]]
    BY DEF Send
  <1>2. calls[s].user # u /\ calls'[s].user # u
    BY <1>1, NoneIsNoUser DEF Idle, SettingsTypeOK
  <1>3. \A x \in Slots : x = s \/ calls'[x] = calls[x]
    BY <1>1 DEF SettingsTypeOK
  <1>4. Shown(u) => Shown(u)'
    BY ShownFrame
  <1>. QED BY <1>2, <1>3, <1>4, PickFrame

\* The members are invalidated: whatever was known of them is asked for again.
LEMMA ShownInvalidated ==
  ASSUME SettingsTypeOK, InvalidateMembers, UNCHANGED user, NEW u \in Users
  PROVE  Shown(u)'
  <1>1. CASE CanViewMembers
    BY <1>1, FetchTypes DEF InvalidateMembers, Shown, Fresh
  <1>2. CASE ~CanViewMembers
    <2>1. fetch.state = "answered" => fetch' = [fetch EXCEPT !.old = TRUE]
      BY <1>2 DEF InvalidateMembers
    <2>2. \/ fetch.state = "answered" /\ fetch'.state = "answered" /\ fetch'.old
          \/ fetch.state # "answered" /\ fetch' = fetch
      BY <1>2, <2>1 DEF Fetches, SettingsTypeOK, InvalidateMembers
    <2>3. ~CanViewMembers'
      BY <1>2 DEF CanViewMembers
    <2>. QED BY <2>2, <2>3 DEF InvalidateMembers, Shown, Fresh
  <1>. QED BY <1>1, <1>2

\* The query may be switched on: then it asks.
LEMMA ShownSeeUser ==
  ASSUME SettingsTypeOK, NEW mine, SeeUser(mine), UNCHANGED pick, NEW u \in Users, Shown(u)
  PROVE  Shown(u)'
  <1>1. CanViewMembers' = SeesMembers(mine)
    BY DEF SeeUser, CanViewMembers
  <1>2. Fresh(u)'
    BY FetchTypes DEF SeeUser, Shown, Fresh
  <1>3. fetch' = fetch \/ fetch' = Asked
    BY DEF SeeUser
  <1>4. fetch.state # "none" => fetch'.state # "none"
    BY <1>3, FetchTypes
  <1>5. marked /\ ~CanViewMembers /\ CanViewMembers' => fetch'.state # "none"
    BY <1>1, FetchTypes DEF SeeUser, SettingsTypeOK
  <1>. QED BY <1>2, <1>4, <1>5 DEF SeeUser, Shown

\* The fetch takes a step of its own.
LEMMA ShownFetch ==
  ASSUME SettingsTypeOK, Poll \/ AnswerMembers \/ MembersArrive \/ MembersFail,
         NEW u \in Users, Shown(u), role[u] = pick[u]
  PROVE  Shown(u)'
  <1>. USE DEF members
  <1>1. UNCHANGED <<user, pick, role>>
    BY DEF Poll, AnswerMembers, MembersArrive, MembersFail, server
  <1>2. CASE Poll
    BY <1>1, <1>2, FetchTypes DEF Poll, Shown, Fresh
  <1>3. CASE AnswerMembers
    <2>1. \/ fetch'.state = "answered" /\ fetch'.rows = role
          \/ fetch'.state = "refused"
      BY <1>3 DEF AnswerMembers, SettingsTypeOK, Fetches
    <2>. QED BY <1>1, <1>3, <2>1 DEF AnswerMembers, Shown, Fresh, CanViewMembers
  <1>4. CASE MembersArrive
    BY <1>1, <1>4, FetchTypes DEF MembersArrive, Shown, Fresh, SettingsTypeOK
  <1>5. CASE MembersFail
    BY <1>1, <1>5, FetchTypes DEF MembersFail, Shown, Fresh
  <1>. QED BY <1>2, <1>3, <1>4, <1>5

\* A call leaves its slot, and the members or the user may be fetched after it.
LEMMA PickAnswer ==
  ASSUME SettingsTypeOK, NEW s \in Slots, calls' = [calls EXCEPT ![s] = Idle],
         NEW u \in Users, PickStands(u), UNCHANGED <<role, pick>>,
         calls[s].kind = "role" /\ calls[s].state = "ok" => Shown(u)',
         calls[s].user = u => calls[s].state # "sent",
         Shown(u) => Shown(u)'
  PROVE  PickStands(u)'
  <1>1. calls'[s].user # u
    BY NoneIsNoUser DEF Idle, SettingsTypeOK
  <1>2. \A x \in Slots \ {s} : calls'[x] = calls[x]
    BY DEF SettingsTypeOK
  <1>. SUFFICES ASSUME pick[u] # None PROVE PickStands(u)'
    BY DEF PickStands
  <1>3. CASE \E x \in Slots : AsksFor(x, u) /\ \/ calls[x].state = "sent"
                                               \/ calls[x].state = "ok" /\ role[u] = pick[u]
    <2>1. PICK x \in Slots : AsksFor(x, u) /\ \/ calls[x].state = "sent"
                                              \/ calls[x].state = "ok" /\ role[u] = pick[u]
      BY <1>3
    <2>2. CASE x = s
      <3>1. calls[s].state = "ok" /\ calls[s].kind = "role" /\ role[u] = pick[u]
        BY <2>1, <2>2 DEF AsksFor
      <3>2. ~PendingFor(u)'
        BY <1>1, <1>2, <2>1, <2>2 DEF PendingFor, AsksFor
      <3>. QED BY <3>1, <3>2 DEF PickStands
    <2>3. CASE x # s
      <3>1. AsksFor(x, u)' /\ calls'[x] = calls[x]
        BY <1>1, <1>2, <2>1, <2>3 DEF AsksFor
      <3>. QED BY <2>1, <3>1 DEF PickStands
    <2>. QED BY <2>2, <2>3
  <1>4. CASE ~PendingFor(u) /\ role[u] = pick[u] /\ Shown(u)
    BY <1>1, <1>2, <1>4 DEF PickStands, PendingFor
  <1>. QED BY <1>3, <1>4 DEF PickStands

LEMMA PickNext == SettingsTypeOK /\ PickInv /\ [Next]_vars => PickInv'
  <1>. SUFFICES ASSUME SettingsTypeOK, PickInv, [Next]_vars PROVE PickInv'
    OBVIOUS
  <1>. USE DEF server, copies, members, texts
  <1>stands. \A u \in Users : PickStands(u)
    BY DEF PickInv
  <1>frame. ASSUME UNCHANGED <<role, user, members, calls, pick>> PROVE PickInv'
    <2>1. ASSUME NEW u \in Users PROVE PickStands(u)'
      BY <1>frame, <1>stands, PickFrame, ShownFrame
    <2>. QED BY <2>1 DEF PickInv
  <1>1. CASE Poll \/ AnswerMembers \/ MembersArrive \/ MembersFail
    <2>1. UNCHANGED <<role, calls, pick>>
      BY <1>1 DEF Poll, AnswerMembers, MembersArrive, MembersFail
    <2>2. ASSUME NEW u \in Users PROVE PickStands(u)'
      BY <1>1, <1>stands, <2>1, PickFrame, ShownFetch
    <2>. QED BY <2>2 DEF PickInv
  <1>2. CASE \/ Focus \/ Type \/ UseMenu \/ ChooseInviteRole \/ OpenDialog \/ CancelDialog
             \/ TextsElsewhere \/ DeletedElsewhere
    BY <1>2, <1>frame DEF Focus, Type, UseMenu, ChooseInviteRole, OpenDialog, CancelDialog,
                          TextsElsewhere, DeletedElsewhere
  <1>3. CASE SaveWorkspace
    <2>1. ASSUME NEW u \in Users PROVE PickStands(u)'
      BY <1>3, <1>stands, NoneIsNoUser, PickSend DEF SaveWorkspace
    <2>. QED BY <1>3, <2>1 DEF SaveWorkspace, PickInv
  <1>4. CASE SaveProfile
    <2>1. ASSUME NEW u \in Users PROVE PickStands(u)'
      BY <1>4, <1>stands, NoneIsNoUser, PickSend DEF SaveProfile
    <2>. QED BY <1>4, <2>1 DEF SaveProfile, PickInv
  <1>5. CASE ChooseRole
    <2>1. PICK v \in Users :
            /\ \E r \in Choice(menus[v], RoleOptions) : Send("role", v, r, <<>>)
            /\ pick' = [pick EXCEPT ![v] = IF PendingFor(v) THEN None
                                           ELSE RoleOptions[menus[v].at]]
      BY <1>5 DEF ChooseRole
    <2>2. PICK r \in Choice(menus[v], RoleOptions) : Send("role", v, r, <<>>)
      BY <2>1
    <2>3. r = RoleOptions[menus[v].at] /\ r \in Roles
      BY ChoiceIsRole
    <2>4. UNCHANGED <<role, user, members>>
      BY <1>5 DEF ChooseRole
    <2>5. ASSUME NEW u \in Users PROVE PickStands(u)'
      <3>1. CASE u # v
        <4>1. pick'[u] = pick[u]
          BY <2>1, <3>1 DEF SettingsTypeOK
        <4>. QED BY <1>stands, <2>2, <2>4, <3>1, <4>1, PickSend
      <3>2. CASE u = v /\ PendingFor(v)
        <4>1. pick'[u] = None
          BY <2>1, <3>2 DEF SettingsTypeOK
        <4>. QED BY <4>1 DEF PickStands
      <3>3. CASE u = v /\ ~PendingFor(v)
        <4>1. pick'[u] = r
          BY <2>1, <2>3, <3>3 DEF SettingsTypeOK
        <4>2. PICK s \in Slots :
                /\ calls'[s] = [kind |-> "role", user |-> v, to |-> r, data |-> <<>>,
                                state |-> "sent"]
                /\ \A x \in Slots \ {s} : calls'[x] = calls[x]
          <5>1. PICK s \in Slots :
                  calls' = [calls EXCEPT ![s] = [kind |-> "role", user |-> v, to |-> r,
                                                 data |-> <<>>, state |-> "sent"]]
            BY <2>2 DEF Send
          <5>. QED BY <5>1 DEF SettingsTypeOK
        <4>3. AsksFor(s, u)' /\ calls'[s].state = "sent"
          BY <3>3, <4>1, <4>2 DEF AsksFor, PendingFor
        <4>. QED BY <4>3 DEF PickStands
      <3>. QED BY <3>1, <3>2, <3>3
    <2>. QED BY <2>4, <2>5 DEF PickInv
  <1>6. CASE Invite
    <2>1. PICK v \in Mates : /\ Send("invite", v, inviteRole, <<>>)
                             /\ pick' = [pick EXCEPT ![v] = None]
      BY <1>6 DEF Invite
    <2>2. UNCHANGED <<role, user, members>> /\ v \in Users
      BY <1>6 DEF Invite, Users
    <2>3. ASSUME NEW u \in Users PROVE PickStands(u)'
      <3>1. CASE u = v
        BY <2>1, <3>1 DEF PickStands, SettingsTypeOK
      <3>2. CASE u # v
        <4>1. pick'[u] = pick[u]
          BY <2>1, <3>2 DEF SettingsTypeOK
        <4>. QED BY <1>stands, <2>1, <2>2, <3>2, <4>1, PickSend
      <3>. QED BY <3>1, <3>2
    <2>. QED BY <2>2, <2>3 DEF PickInv
  <1>7. CASE ConfirmDialog
    <2>1. UNCHANGED <<role, user, members>>
      BY <1>7 DEF ConfirmDialog
    <2>2. ASSUME NEW u \in Users PROVE PickStands(u)'
      <3>1. CASE dialog = "workspace"
        BY <1>7, <1>stands, <2>1, <3>1, NoneIsNoUser, PickSend DEF ConfirmDialog
      <3>2. CASE dialog # "workspace" /\ u = dialog
        BY <1>7, <3>2 DEF ConfirmDialog, PickStands, SettingsTypeOK
      <3>3. CASE dialog # "workspace" /\ u # dialog
        <4>1. Send("remove", dialog, None, <<>>) /\ pick' = [pick EXCEPT ![dialog] = None]
          BY <1>7, <3>3 DEF ConfirmDialog
        <4>2. dialog \in Users
          BY <1>7, <3>3 DEF ConfirmDialog, SettingsTypeOK
        <4>3. pick'[u] = pick[u]
          BY <3>3, <4>1 DEF SettingsTypeOK
        <4>. QED BY <1>stands, <2>1, <3>3, <4>1, <4>2, <4>3, PickSend
      <3>. QED BY <3>1, <3>2, <3>3
    <2>. QED BY <2>1, <2>2 DEF PickInv
  <1>8. CASE RolesElsewhere
    <2>1. UNCHANGED <<user, members, calls>>
      BY <1>8 DEF RolesElsewhere
    <2>2. PICK v \in Users, r \in Roles \cup {None} :
            role' = [role EXCEPT ![v] = r] /\ pick' = [pick EXCEPT ![v] = None]
      BY <1>8 DEF RolesElsewhere
    <2>3. ASSUME NEW u \in Users PROVE PickStands(u)'
      <3>1. CASE u = v
        BY <2>2, <3>1 DEF PickStands, SettingsTypeOK
      <3>2. CASE u # v
        <4>1. pick'[u] = pick[u] /\ role'[u] = role[u]
          BY <2>2, <3>2 DEF SettingsTypeOK
        <4>2. Shown(u) => Shown(u)'
          BY <2>1, <4>1, ShownFrame
        <4>. QED BY <1>stands, <2>1, <4>1, <4>2, PickFrame
      <3>. QED BY <3>1, <3>2
    <2>. QED BY <2>3 DEF PickInv
  <1>9. ASSUME NEW s \in Slots, Serve(s) PROVE PickInv'
    <2>. DEFINE c == calls[s]
    <2>1. /\ c \in CallRecs /\ c.state = "sent"
          /\ calls'[s].user = c.user /\ calls'[s].kind = c.kind /\ calls'[s].to = c.to
          /\ calls'[s].state = IF Accepted(c) THEN "ok" ELSE "refused"
          /\ \A x \in Slots \ {s} : calls'[x] = calls[x]
      BY <1>9 DEF Serve, SettingsTypeOK, CallRecs
    <2>2. UNCHANGED <<user, members>>
      BY <1>9 DEF Serve
    <2>3. ASSUME NEW u \in Users PROVE PickStands(u)'
      <3>1. CASE c.user # u
        <4>1. role'[u] = role[u] /\ pick'[u] = pick[u]
          BY <1>9, <3>1 DEF Serve, SettingsTypeOK
        <4>2. calls'[s].user # u
          BY <2>1, <3>1
        <4>. QED BY <1>stands, <2>1, <2>2, <3>1, <4>1, <4>2, PickFrame, ShownFrame
      <3>2. CASE c.user = u /\ ~Accepted(c)
        <4>1. pick'[u] = None
          BY <1>9, <3>2 DEF Serve
        <4>. QED BY <4>1 DEF PickStands
      <3>3. CASE c.user = u /\ Accepted(c) /\ pick[u] # None
        <4>1. pick' = pick /\ role' = [role EXCEPT ![c.user] = c.to]
          BY <1>9, <3>3, NoneIsNoUser DEF Serve
        <4>2. AsksFor(s, u)
          BY <1>stands, <2>1, <3>3 DEF PickStands, AsksFor, PendingFor
        <4>3. role'[u] = pick'[u]
          BY <3>3, <4>1, <4>2 DEF AsksFor, SettingsTypeOK
        <4>4. AsksFor(s, u)'
          BY <2>1, <4>1, <4>2 DEF AsksFor
        <4>. QED BY <2>1, <3>3, <4>3, <4>4 DEF PickStands
      <3>4. CASE Accepted(c) /\ pick[u] = None
        <4>1. pick' = pick
          BY <1>9, <3>4 DEF Serve
        <4>. QED BY <3>4, <4>1 DEF PickStands
      <3>. QED BY <3>1, <3>2, <3>3, <3>4
    <2>. QED BY <2>2, <2>3 DEF PickInv
  <1>10. ASSUME NEW s \in Slots, Lose(s) PROVE PickInv'
    <2>1. /\ calls'[s].user = calls[s].user
          /\ \A x \in Slots \ {s} : calls'[x] = calls[x]
      BY <1>10 DEF Lose, SettingsTypeOK, CallRecs
    <2>2. UNCHANGED <<role, user, members>>
      BY <1>10 DEF Lose
    <2>3. ASSUME NEW u \in Users PROVE PickStands(u)'
      <3>1. CASE calls[s].user = u
        <4>1. pick'[u] = None
          BY <1>10, <3>1 DEF Lose
        <4>. QED BY <4>1 DEF PickStands
      <3>2. CASE calls[s].user # u
        <4>1. pick'[u] = pick[u]
          BY <1>10, <3>2 DEF Lose
        <4>2. calls'[s].user # u
          BY <2>1, <3>2
        <4>. QED BY <1>stands, <2>1, <2>2, <3>2, <4>1, <4>2, PickFrame, ShownFrame
      <3>. QED BY <3>1, <3>2
    <2>. QED BY <2>2, <2>3 DEF PickInv
  <1>11. ASSUME NEW s \in Slots, MembersAnswer(s) PROVE PickInv'
    <2>1. /\ InvalidateMembers /\ UNCHANGED <<role, user, pick>>
          /\ calls' = [calls EXCEPT ![s] = Idle] /\ calls[s].state = "ok"
      BY <1>11 DEF MembersAnswer
    <2>2. ASSUME NEW u \in Users PROVE PickStands(u)'
      BY <1>stands, <2>1, ShownInvalidated, PickAnswer
    <2>. QED BY <2>2 DEF PickInv
  <1>12. ASSUME NEW s \in Slots, TextsAnswer(s) PROVE PickInv'
    <2>1. /\ UNCHANGED <<role, pick>> /\ calls' = [calls EXCEPT ![s] = Idle]
          /\ calls[s].state = "ok" /\ calls[s].kind # "role"
      BY <1>12 DEF TextsAnswer
    <2>2. (\E mine : SeeUser(mine)) \/ UNCHANGED <<user, members>>
      BY <1>12 DEF TextsAnswer, RefreshUser
    <2>3. \A u \in Users : Shown(u) => Shown(u)'
      BY <2>1, <2>2, ShownSeeUser, ShownFrame
    <2>4. ASSUME NEW u \in Users PROVE PickStands(u)'
      BY <1>stands, <2>1, <2>3, PickAnswer
    <2>. QED BY <2>4 DEF PickInv
  <1>13. ASSUME NEW s \in Slots, ErrorAnswer(s) PROVE PickInv'
    <2>1. /\ UNCHANGED <<role, user, members, pick>>
          /\ calls' = [calls EXCEPT ![s] = Idle] /\ calls[s].state \in {"refused", "lost"}
      BY <1>13 DEF ErrorAnswer
    <2>2. ASSUME NEW u \in Users PROVE PickStands(u)'
      BY <1>stands, <2>1, ShownFrame, PickAnswer
    <2>. QED BY <2>1, <2>2 DEF PickInv
  <1>14. CASE UNCHANGED vars
    BY <1>14, <1>frame DEF vars
  <1>. QED BY <1>1, <1>2, <1>3, <1>4, <1>5, <1>6, <1>7, <1>8, <1>9, <1>10, <1>11, <1>12,
              <1>13, <1>14 DEF Next

\* For any number of users and of calls in flight, and for visits of every kind: the
\* role picked last for a member is the one the member has once the call is answered,
\* unless another call for the member was under way, the call was refused or lost, or
\* somebody else changed the member.  The table then shows it, or it is marked as
\* invalid and a fetch that brings it is on its way, or was refused, or there is an
\* error in its place; except that it may show an older role, which such an answer
\* brings or has brought that was on its way while the query was switched off
\* (useWorkspaceMembersPageModel.ts:54-63, 96-116, workspace-members.service.ts).
THEOREM PickSafe == Spec => []LastPickWins
  <1>1. Init => SettingsTypeOK /\ PickInv
    BY InitSettingsTypeOK, InitPickInv
  <1>2. SettingsTypeOK /\ PickInv /\ [Next]_vars => (SettingsTypeOK /\ PickInv)'
    BY SettingsNext, PickNext
  <1>3. SettingsTypeOK /\ PickInv => LastPickWins
    <2>. SUFFICES ASSUME SettingsTypeOK, PickInv, NEW u \in Users,
                         pick[u] # None, ~PendingFor(u)
                  PROVE  /\ role[u] = pick[u]
                         /\ CanViewMembers =>
                              \/ table[u] = pick[u] \/ broken \/ overtaken
                              \/ /\ marked
                                 /\ \/ fetch.state \in {"asked", "refused"}
                                    \/ fetch.rows[u] = pick[u] \/ fetch.old
      BY DEF LastPickWins
    <2>1. role[u] = pick[u] /\ Shown(u)
      BY DEF PickInv, PickStands, AsksFor, PendingFor
    <2>. QED BY <2>1 DEF Shown, Fresh, SettingsTypeOK, Fetches
  <1>. QED BY <1>1, <1>2, <1>3, PTL DEF Spec

-----------------------------------------------------------------------------
(* The settings page: what is saved.                                       *)

LEMMA FormSee ==
  ASSUME SettingsTypeOK, FormInv, NEW new \in [Fields -> Texts \cup {Blank}], See(new)
  PROVE  FormInv'
  BY DEF FormInv, See, Filled, SettingsTypeOK

LEMMA FormNext == SettingsTypeOK /\ FormInv /\ [Next]_vars => FormInv'
  <1>. SUFFICES ASSUME SettingsTypeOK, FormInv, [Next]_vars PROVE FormInv'
    OBVIOUS
  <1>. USE DEF server, copies, members, texts
  <1>frame. ASSUME UNCHANGED <<cached, draft, input, overlaid>> PROVE FormInv'
    BY <1>frame DEF FormInv
  <1>1. CASE SaveWorkspace \/ SaveProfile \/ UseMenu \/ ChooseInviteRole \/ ChooseRole
    BY <1>1, <1>frame DEF SaveWorkspace, SaveProfile, UseMenu, ChooseInviteRole, ChooseRole
  <1>2. CASE \/ Invite \/ OpenDialog \/ CancelDialog \/ ConfirmDialog
             \/ RolesElsewhere \/ TextsElsewhere \/ DeletedElsewhere
    BY <1>2, <1>frame DEF Invite, OpenDialog, CancelDialog, ConfirmDialog,
                          RolesElsewhere, TextsElsewhere, DeletedElsewhere
  <1>a. CASE Poll \/ AnswerMembers \/ MembersArrive \/ MembersFail
    BY <1>a, <1>frame DEF Poll, AnswerMembers, MembersArrive, MembersFail
  <1>3. CASE Focus
    <2>1. See([text EXCEPT !["profile"] = cached["profile"]]) \/ UNCHANGED texts
      BY <1>3 DEF Focus, SeeWorkspace
    <2>. QED BY <1>frame, <2>1, RefreshTypes, FormSee
  <1>4. CASE Type
    BY <1>4 DEF Type, FormInv, SettingsTypeOK
  <1>5. ASSUME NEW s \in Slots, Serve(s) \/ Lose(s) \/ MembersAnswer(s) \/ ErrorAnswer(s)
        PROVE  FormInv'
    BY <1>5, <1>frame DEF Serve, Lose, MembersAnswer, ErrorAnswer
  <1>6. ASSUME NEW s \in Slots, TextsAnswer(s) PROVE FormInv'
    <2>1. \/ See(text)
          \/ See([text EXCEPT !["profile"] = cached["profile"]])
          \/ See([cached EXCEPT !["profile"] = text["profile"]])
          \/ UNCHANGED <<cached, draft, input, overlaid>>
      BY <1>6 DEF TextsAnswer, SeeWorkspace, RefreshUser
    <2>. QED BY <1>frame, <2>1, RefreshTypes, FormSee
  <1>7. CASE UNCHANGED vars
    BY <1>7, <1>frame DEF vars
  <1>. QED BY <1>1, <1>2, <1>a, <1>3, <1>4, <1>5, <1>6, <1>7 DEF Next

\* What a field means to save is what it says, unless it was filled again over a draft.
LEMMA WantedIsShown ==
  ASSUME SettingsTypeOK, FormInv, NEW f \in Fields \ overlaid
  PROVE  Wanted(f) = Says(f)
  BY DEF FormInv, Wanted, Says

\* A call that appears in an idle slot was sent from a form, a row or a dialog:
\* only a form sends texts.
LEMMA FormsSend ==
  ASSUME SettingsTypeOK, Next, NEW s \in Slots,
         calls[s] = Idle, calls'[s].kind \in {"update", "profile"}
  PROVE  SaveWorkspace \/ SaveProfile
  <1>. USE DEF server, copies, members, texts
  <1>0. Idle.kind = "none" /\ Idle.state = "idle"
    BY DEF Idle
  <1>1. calls'[s] # calls[s]
    BY <1>0
  <1>send. ASSUME NEW kind \in {"role", "invite", "remove", "delete"}, NEW u, NEW to,
                  Send(kind, u, to, <<>>)
           PROVE  FALSE
    BY <1>1, <1>send DEF Send, SettingsTypeOK
  <1>a. ~(Poll \/ AnswerMembers \/ MembersArrive \/ MembersFail)
    BY <1>1 DEF Poll, AnswerMembers, MembersArrive, MembersFail
  <1>2. ~(\/ Focus \/ Type \/ UseMenu \/ ChooseInviteRole \/ OpenDialog \/ CancelDialog
          \/ RolesElsewhere \/ TextsElsewhere \/ DeletedElsewhere)
    BY <1>1 DEF Focus, Type, UseMenu, ChooseInviteRole, OpenDialog, CancelDialog,
                RolesElsewhere, TextsElsewhere, DeletedElsewhere
  <1>3. ~ChooseRole
    BY <1>send DEF ChooseRole
  <1>4. ~Invite
    BY <1>send DEF Invite
  <1>5. ~ConfirmDialog
    BY <1>send DEF ConfirmDialog
  <1>6. ASSUME NEW x \in Slots, Serve(x) \/ Lose(x) PROVE FALSE
    BY <1>0, <1>1, <1>6 DEF Serve, Lose, SettingsTypeOK
  <1>7. ASSUME NEW x \in Slots, MembersAnswer(x) \/ TextsAnswer(x) \/ ErrorAnswer(x)
        PROVE  FALSE
    BY <1>0, <1>7 DEF MembersAnswer, TextsAnswer, ErrorAnswer, SettingsTypeOK
  <1>. QED BY <1>a, <1>2, <1>3, <1>4, <1>5, <1>6, <1>7 DEF Next

LEMMA SavesStep ==
  ASSUME SettingsTypeOK, FormInv, Next, NEW s \in Slots,
         calls[s] = Idle, calls'[s].kind \in {"update", "profile"},
         NEW f \in IF calls'[s].kind = "update" THEN {"name", "slug"} ELSE {"profile"},
         f \notin overlaid
  PROVE  IF f \in DOMAIN calls'[s].data THEN calls'[s].data[f] = Says(f)
         ELSE Says(f) = cached[f]
  <1>1. Wanted(f) = Says(f)
    BY WantedIsShown DEF Fields
  <1>2. Idle.kind = "none"
    BY DEF Idle
  <1>3. CASE SaveWorkspace
    <2>1. calls'[s].kind = "update" /\ calls'[s].data = [g \in Changes |-> Wanted(g)]
      BY <1>2, <1>3 DEF SaveWorkspace, Send, SettingsTypeOK
    <2>2. CASE f \in Changes
      BY <1>1, <2>1, <2>2
    <2>3. CASE f \notin Changes
      BY <1>1, <2>1, <2>3 DEF Changes
    <2>. QED BY <2>2, <2>3
  <1>4. CASE SaveProfile
    <2>1. calls'[s].kind = "profile" /\ calls'[s].data = [g \in {"profile"} |-> Wanted(g)]
      BY <1>2, <1>4 DEF SaveProfile, Send, SettingsTypeOK
    <2>. QED BY <1>1, <2>1
  <1>. QED BY <1>3, <1>4, FormsSend

\* A save of the workspace or of the profile writes what the form displays, and
\* leaves out a field only if it says what was fetched, for all texts and any
\* number of fetches between: except a field that was filled again over a draft
\* (handleWorkspaceSettings and handleProfileSubmit of useWorkspaceMembersPageModel.ts).
THEOREM SavesSafe == Spec => SavesWhatIsShown
  <1>1. Init => SettingsTypeOK /\ FormInv
    BY InitSettingsTypeOK DEF Init, FormInv
  <1>2. SettingsTypeOK /\ FormInv /\ [Next]_vars => (SettingsTypeOK /\ FormInv)'
    BY SettingsNext, FormNext
  <1>3. SettingsTypeOK /\ FormInv /\ [Next]_vars =>
          [\A s \in Slots :
             (calls[s] = Idle /\ calls'[s].kind \in {"update", "profile"}) =>
               \A f \in (IF calls'[s].kind = "update" THEN {"name", "slug"} ELSE {"profile"}) :
                  \/ f \in overlaid
                  \/ IF f \in DOMAIN calls'[s].data THEN calls'[s].data[f] = Says(f)
                     ELSE Says(f) = cached[f]]_vars
    BY SavesStep
  <1>. QED BY <1>1, <1>2, <1>3, PTL DEF Spec, SavesWhatIsShown

=============================================================================
