---------------------------- MODULE Study_proofs ----------------------------
(***************************************************************************)
(* Proofs about StudyEngine for any sets of questions and users, any       *)
(* number of rows, reviews and days, and after them about CliReview for    *)
(* any number of items, reviews, days and reviews cut short.  CliReview    *)
(* has StudyEngine's definitions and a specification of its own.           *)
(***************************************************************************)
EXTENDS CliReview, FiniteSetTheorems, SequenceTheorems, TLAPS

(* What the code's integer types promise: a remainder is below its width.  *)
LEMMA Widths ==
  /\ \A n \in Int : n % U16 \in 0..(U16 - 1)
  /\ \A n \in Int : n % U8 \in 0..(U8 - 1)
  /\ 0 \in 0..(U16 - 1) /\ 0 \in 0..(U8 - 1)
<1>1. \A n \in Int : n % U16 \in 0..(U16 - 1)
  BY SMTT(30) DEF U16
<1>2. \A n \in Int : n % U8 \in 0..(U8 - 1)
  BY SMT DEF U8
<1>3. 0 \in 0..(U16 - 1) /\ 0 \in 0..(U8 - 1)
  BY SMT DEF U8, U16
<1> QED
  BY <1>1, <1>2, <1>3

(* One SM-2 step keeps a schedule a schedule: the interval stays within    *)
(* ten years, the ease factor natural, the byte and short counters in      *)
(* width.                                                                  *)
LEMMA Sm2Type ==
  ASSUME NEW m \in Schedules, NEW q \in Qualities, NEW t \in Nat,
         NEW r \in Sm2Update(m, q, t)
  PROVE  r \in Schedules
<1>0. /\ m.interval \in Nat /\ m.ef \in Nat /\ m.reps \in Nat
      /\ m.total \in Nat /\ m.streak \in Nat /\ m.forget \in Nat
      /\ m.status \in Statuses /\ q \in Int
  <2>1. /\ m.interval \in 0..MaxInterval /\ m.ef \in Nat
        /\ m.reps \in 0..(U16 - 1) /\ m.total \in 0..(U16 - 1)
        /\ m.streak \in 0..(U8 - 1) /\ m.forget \in 0..(U8 - 1)
        /\ m.status \in Statuses
    BY SMT DEF Schedules
  <2>2. \A a, b : a \in 0..b => a \in Nat
    OBVIOUS
  <2>3. q \in Int
    BY DEF Qualities
  <2> QED
    BY <2>1, <2>2, <2>3
<1>1. PICK i \in NextIntervals(m, q) : r = Reviewed(m, q, t, i)
  BY DEF Sm2Update
<1>2. i \in 0..MaxInterval
  <2>1. ASSUME NEW g \in Grown(m.interval, m.ef) PROVE g \in Nat
    <3>1. PICK slack \in Int :
             g = ((m.interval * m.ef + slack) \div 100) % U16
      BY <2>1, SMT DEF Grown
    <3>2. (m.interval * m.ef + slack) \div 100 \in Int
      BY <1>0, <3>1, SMT
    <3> QED
      BY <3>1, <3>2, Widths, SMT
  <2>2. ASSUME NEW g \in Nat PROVE Capped(g) \in 0..MaxInterval
    BY SMT DEF Capped, MaxInterval
  <2>3. 1 \in 0..MaxInterval /\ 6 \in 0..MaxInterval
    BY SMT DEF MaxInterval
  <2> QED
    BY <1>1, <2>1, <2>2, <2>3, SMT DEF NextIntervals
<1>3. NextReps(m, q) \in 0..(U16 - 1)
  <2>1. m.reps + 1 \in Int
    BY <1>0, SMT
  <2> QED
    BY <2>1, Widths DEF NextReps
<1>4. NextEase(m.ef, q) \in Nat
  <2>1. EaseStep(q) \in Int
    BY <1>0, SMT DEF EaseStep
  <2> QED
    BY <1>0, <2>1, SMT DEF NextEase, MinEF
<1>5. NextStatus(m, q, i) \in Statuses
  BY <1>0 DEF NextStatus, Statuses
<1>6. t + i \in Nat
  BY <1>2, SMT DEF MaxInterval
<1>7. (m.total + 1) % U16 \in 0..(U16 - 1)
  BY <1>0, Widths, SMT
<1>8. /\ (IF Remembered(q) THEN (m.streak + 1) % U8 ELSE 0) \in 0..(U8 - 1)
      /\ (IF Remembered(q) THEN 0 ELSE (m.forget + 1) % U8) \in 0..(U8 - 1)
  <2>1. m.streak + 1 \in Int /\ m.forget + 1 \in Int
    BY <1>0, SMT
  <2> QED
    BY <2>1, Widths
<1> QED
  BY <1>1, <1>2, <1>3, <1>4, <1>5, <1>6, <1>7, <1>8
  DEF Reviewed, Schedules

(* A new record starts with a well-formed schedule.                        *)
LEMMA FreshType == FreshSchedule \in Schedules
  BY SMT DEF FreshSchedule, Schedules, Statuses, DefaultEF, MaxInterval, U8, U16

(* What appending a row to a table does, for every table of the database.  *)
LEMMA AppendRow ==
  ASSUME NEW Row, NEW table \in Seq(Row), NEW row \in Row
  PROVE  /\ Append(table, row) \in Seq(Row)
         /\ Len(table) \in Nat
         /\ DOMAIN table = 1..Len(table)
         /\ DOMAIN Append(table, row) = 1..(Len(table) + 1)
         /\ Append(table, row)[Len(table) + 1] = row
         /\ \A k \in 1..Len(table) : Append(table, row)[k] = table[k]
  OBVIOUS

-----------------------------------------------------------------------------
(* The inductive invariant of the tables.  TypeOK alone would do for the   *)
(* types; that a hash finds exactly the rows of its table needs the types, *)
(* so the four are carried together.                                       *)
Tables == TypeOK /\ ItemsIndexed /\ UsersIndexed /\ MasteryIndexed

(* The empty database of wc_db_init satisfies it.                          *)
LEMMA TablesInit == Init => Tables
<1> SUFFICES ASSUME Init PROVE Tables
  OBVIOUS
<1>1. due_dirty \in BOOLEAN /\ stale \in BOOLEAN
  BY Zenon DEF Init
<1>2. /\ items = <<>> /\ users = <<>> /\ mastery = <<>> /\ due_sorted = <<>> /\ now = 0
      /\ question_hash = [q \in Questions |-> 0] /\ user_hash = [d \in Uids |-> 0]
      /\ mastery_hash = [p \in {} |-> 0]
  BY DEF Init
<1>3. TypeOK
  BY <1>1, <1>2, SMTT(30) DEF TypeOK
<1>4. ItemsIndexed /\ UsersIndexed /\ MasteryIndexed
  BY <1>2 DEF ItemsIndexed, UsersIndexed, MasteryIndexed
<1> QED
  BY <1>3, <1>4 DEF Tables

(* The appended item gets the position it is stored at as its id.          *)
LEMMA AddItemTables ==
  ASSUME Tables, NEW q \in Questions, AddItem(q)
  PROVE  Tables'
<1> DEFINE row == [id |-> NextId(items), question |-> q]
<1>1. NextId(items) = Len(items) + 1
  BY DEF Tables, TypeOK, ItemsIndexed, NextId
<1>2. row \in ItemRow
  BY <1>1 DEF ItemRow, Ids, Tables, TypeOK
<1>3. /\ items' = Append(items, row)
      /\ question_hash' = [question_hash EXCEPT ![q] = Len(items) + 1]
      /\ q \notin Long => question_hash[q] = 0
      /\ UNCHANGED <<users, user_hash, mastery, mastery_hash,
                     due_sorted, due_dirty, now, stale>>
  BY DEF AddItem, FoundAt
<1>4. TypeOK'
  BY <1>2, <1>3 DEF Tables, TypeOK
<1> /\ DOMAIN items = 1..Len(items) /\ Len(items) \in Nat
    /\ DOMAIN items' = 1..(Len(items) + 1)
    /\ items'[Len(items) + 1] = row
    /\ \A k \in 1..Len(items) : items'[k] = items[k]
  BY <1>2, <1>3, AppendRow DEF Tables, TypeOK
<1>5. ItemsIndexed'
  <2>1. ASSUME NEW k \in DOMAIN items'
        PROVE  /\ items'[k].id = k
               /\ items'[k].question \notin Long => question_hash'[items'[k].question] = k
    <3>1. CASE k = Len(items) + 1
      BY <1>1, <1>2, <1>3, <3>1 DEF Tables, TypeOK
    <3>2. CASE k \in 1..Len(items)
      <4>1. items'[k] = items[k] /\ items[k] \in ItemRow
        BY <1>2, <1>3, <3>2 DEF Tables, TypeOK
      <4>2. /\ items[k].id = k
            /\ items[k].question \notin Long => question_hash[items[k].question] = k
        BY <3>2 DEF Tables, TypeOK, ItemsIndexed
      <4>3. items[k].question \notin Long => items[k].question # q
        BY <1>3, <3>2, <4>2
      <4> QED
        BY <1>3, <4>1, <4>2, <4>3 DEF Tables, TypeOK, ItemRow
    <3> QED
      BY <3>1, <3>2, <2>1, SMT
  <2>2. ASSUME NEW p \in Questions, question_hash'[p] # 0
        PROVE  /\ question_hash'[p] \in DOMAIN items'
               /\ items'[question_hash'[p]].question = p
    <3>1. CASE p = q
      BY <1>2, <1>3, <3>1 DEF Tables, TypeOK
    <3>2. CASE p # q
      <4>1. question_hash'[p] = question_hash[p]
        BY <1>3, <3>2 DEF Tables, TypeOK
      <4>2. /\ question_hash[p] \in 1..Len(items)
            /\ items[question_hash[p]].question = p
        BY <2>2, <4>1 DEF Tables, TypeOK, ItemsIndexed
      <4> QED
        BY <1>2, <1>3, <4>1, <4>2 DEF Tables, TypeOK
    <3> QED
      BY <3>1, <3>2
  <2> QED
    BY <2>1, <2>2 DEF ItemsIndexed
<1>6. UsersIndexed' /\ MasteryIndexed'
  BY <1>3 DEF Tables, UsersIndexed, MasteryIndexed, MasteryAt
<1> QED
  BY <1>4, <1>5, <1>6 DEF Tables

(* The same argument for users.                                            *)
LEMMA CreateUserTables ==
  ASSUME Tables, NEW d \in Uids, CreateUser(d)
  PROVE  Tables'
<1> DEFINE row == [id |-> NextId(users), uid |-> d]
<1>1. NextId(users) = Len(users) + 1
  BY DEF Tables, TypeOK, UsersIndexed, NextId
<1>2. row \in UserRow
  BY <1>1 DEF UserRow, Ids, Tables, TypeOK
<1>3. /\ users' = Append(users, row)
      /\ user_hash' = [user_hash EXCEPT ![d] = Len(users) + 1]
      /\ d \notin Long => user_hash[d] = 0
      /\ UNCHANGED <<items, question_hash, mastery, mastery_hash,
                     due_sorted, due_dirty, now, stale>>
  BY DEF CreateUser, FoundAt
<1>4. TypeOK'
  BY <1>2, <1>3 DEF Tables, TypeOK
<1> /\ DOMAIN users = 1..Len(users) /\ Len(users) \in Nat
    /\ DOMAIN users' = 1..(Len(users) + 1)
    /\ users'[Len(users) + 1] = row
    /\ \A k \in 1..Len(users) : users'[k] = users[k]
  BY <1>2, <1>3, AppendRow DEF Tables, TypeOK
<1>5. UsersIndexed'
  <2>1. ASSUME NEW k \in DOMAIN users'
        PROVE  /\ users'[k].id = k
               /\ users'[k].uid \notin Long => user_hash'[users'[k].uid] = k
    <3>1. CASE k = Len(users) + 1
      BY <1>1, <1>2, <1>3, <3>1 DEF Tables, TypeOK
    <3>2. CASE k \in 1..Len(users)
      <4>1. users'[k] = users[k] /\ users[k] \in UserRow
        BY <1>2, <1>3, <3>2 DEF Tables, TypeOK
      <4>2. /\ users[k].id = k
            /\ users[k].uid \notin Long => user_hash[users[k].uid] = k
        BY <3>2 DEF Tables, TypeOK, UsersIndexed
      <4>3. users[k].uid \notin Long => users[k].uid # d
        BY <1>3, <3>2, <4>2
      <4> QED
        BY <1>3, <4>1, <4>2, <4>3 DEF Tables, TypeOK, UserRow
    <3> QED
      BY <3>1, <3>2, <2>1, SMT
  <2>2. ASSUME NEW p \in Uids, user_hash'[p] # 0
        PROVE  /\ user_hash'[p] \in DOMAIN users'
               /\ users'[user_hash'[p]].uid = p
    <3>1. CASE p = d
      BY <1>2, <1>3, <3>1 DEF Tables, TypeOK
    <3>2. CASE p # d
      <4>1. user_hash'[p] = user_hash[p]
        BY <1>3, <3>2 DEF Tables, TypeOK
      <4>2. /\ user_hash[p] \in 1..Len(users)
            /\ users[user_hash[p]].uid = p
        BY <2>2, <4>1 DEF Tables, TypeOK, UsersIndexed
      <4> QED
        BY <1>2, <1>3, <4>1, <4>2 DEF Tables, TypeOK
    <3> QED
      BY <3>1, <3>2
  <2> QED
    BY <2>1, <2>2 DEF UsersIndexed
<1>6. ItemsIndexed' /\ MasteryIndexed'
  BY <1>3 DEF Tables, ItemsIndexed, MasteryIndexed, MasteryAt
<1> QED
  BY <1>4, <1>5, <1>6 DEF Tables

(* Ids of known rows are ids.                                              *)
LEMMA KnownIds ==
  ASSUME TypeOK, NEW u \in KnownUsers, NEW i \in KnownItems
  PROVE  <<u, i>> \in Pairs
<1>1. u \in Ids
  <2>1. PICK k \in DOMAIN users : u = users[k].id
    BY DEF KnownUsers
  <2>2. users[k] \in UserRow
    BY <2>1 DEF TypeOK
  <2> QED
    BY <2>1, <2>2 DEF UserRow
<1>2. i \in Ids
  <2>1. PICK k \in DOMAIN items : i = items[k].id
    BY DEF KnownItems
  <2>2. items[k] \in ItemRow
    BY <2>1 DEF TypeOK
  <2> QED
    BY <2>1, <2>2 DEF ItemRow
<1> QED
  BY <1>1, <1>2 DEF Pairs

(* A record is created only for a pair without one, and the hash learns    *)
(* the position it is appended at.                                         *)
LEMMA CreateTables ==
  ASSUME Tables, NEW u \in KnownUsers, NEW i \in KnownItems,
         GetOrCreateMastery(u, i)
  PROVE  Tables'
<1> DEFINE row == [user |-> u, item |-> i, sched |-> FreshSchedule]
<1>1. <<u, i>> \in Pairs /\ u \in Ids /\ i \in Ids
  BY KnownIds DEF Tables, Pairs
<1>2. row \in Record
  BY <1>1, FreshType DEF Record
<1>3. /\ mastery' = Append(mastery, row)
      /\ mastery_hash' = [p \in DOMAIN mastery_hash \cup {<<u, i>>} |->
                            IF p = <<u, i>> THEN Len(mastery) + 1
                            ELSE mastery_hash[p]]
      /\ MasteryAt(u, i) = 0
      /\ due_dirty' = TRUE /\ stale' = FALSE
      /\ UNCHANGED <<items, question_hash, users, user_hash, due_sorted, now>>
  BY DEF GetOrCreateMastery, CreateMastery, tables
<1> /\ mastery' \in Seq(Record)
    /\ DOMAIN mastery = 1..Len(mastery) /\ Len(mastery) \in Nat
    /\ DOMAIN mastery' = 1..(Len(mastery) + 1)
    /\ mastery'[Len(mastery) + 1] = row
    /\ \A k \in 1..Len(mastery) : mastery'[k] = mastery[k]
  BY <1>2, <1>3, AppendRow DEF Tables, TypeOK
<1>4. /\ DOMAIN mastery_hash' = DOMAIN mastery_hash \cup {<<u, i>>}
      /\ mastery_hash'[<<u, i>>] = Len(mastery) + 1
      /\ \A p \in DOMAIN mastery_hash :
            p # <<u, i>> => mastery_hash'[p] = mastery_hash[p]
  BY <1>3
<1>5. TypeOK'
  <2>1. mastery_hash' \in [DOMAIN mastery_hash' -> Nat]
    BY <1>3, <1>4 DEF Tables, TypeOK
  <2>2. DOMAIN mastery_hash' \subseteq Pairs
    BY <1>1, <1>4 DEF Tables, TypeOK
  <2> QED
    BY <1>3, <2>1, <2>2 DEF Tables, TypeOK
<1>6. MasteryIndexed'
  <2>1. ASSUME NEW k \in DOMAIN mastery'
        PROVE  (MasteryAt(mastery[k].user, mastery[k].item))' = k
    <3>1. CASE k = Len(mastery) + 1
      BY <1>4, <3>1 DEF MasteryAt
    <3>2. CASE k \in 1..Len(mastery)
      <4> DEFINE p == <<mastery[k].user, mastery[k].item>>
      <4>1. MasteryAt(mastery[k].user, mastery[k].item) = k /\ k # 0
        BY <3>2 DEF Tables, MasteryIndexed
      <4>2. p # <<u, i>>
        BY <1>3, <4>1
      <4>3. p \in DOMAIN mastery_hash /\ mastery_hash[p] = k
        BY <4>1 DEF MasteryAt
      <4>4. p \in DOMAIN mastery_hash' /\ mastery_hash'[p] = k
        BY <1>4, <4>2, <4>3
      <4> QED
        BY <3>2, <4>4 DEF MasteryAt
    <3> QED
      BY <2>1, <3>1, <3>2, SMT
  <2>2. ASSUME NEW p \in DOMAIN mastery_hash'
        PROVE  mastery_hash'[p] \in DOMAIN mastery'
    <3>1. CASE p = <<u, i>>
      BY <1>4, <3>1
    <3>2. CASE p # <<u, i>>
      <4>1. p \in DOMAIN mastery_hash /\ mastery_hash'[p] = mastery_hash[p]
        BY <1>4, <2>2, <3>2
      <4>2. mastery_hash[p] \in 1..Len(mastery)
        BY <4>1 DEF Tables, MasteryIndexed
      <4> QED
        BY <4>1, <4>2, SMT
    <3> QED
      BY <3>1, <3>2
  <2> QED
    BY <2>1, <2>2 DEF MasteryIndexed
<1>7. ItemsIndexed' /\ UsersIndexed'
  BY <1>3 DEF Tables, ItemsIndexed, UsersIndexed
<1> QED
  BY <1>5, <1>6, <1>7 DEF Tables

(* An answer rewrites the schedule of one record in place: the pair a      *)
(* record belongs to never changes.                                        *)
LEMMA AnswerTables ==
  ASSUME Tables, NEW u \in KnownUsers, NEW i \in KnownItems,
         NEW q \in Given, Answer(u, i, q)
  PROVE  Tables'
<1> DEFINE k == MasteryAt(u, i)
<1>1. k \in DOMAIN mastery
  BY DEF Answer, MasteryAt, Tables, MasteryIndexed
<1>2. mastery[k] \in Record /\ now \in Nat /\ q \in Qualities
  BY <1>1, ConstantsAssumption DEF Tables, TypeOK
<1>3. PICK m \in Sm2Update(mastery[k].sched, q, now) :
         mastery' = [mastery EXCEPT ![k].sched = m]
  BY DEF Answer
<1>4. m \in Schedules
  BY <1>2, <1>3, Sm2Type DEF Record
<1>5. /\ due_dirty' \in BOOLEAN /\ stale' \in BOOLEAN
      /\ UNCHANGED <<items, question_hash, users, user_hash, mastery_hash,
                     due_sorted, now>>
  BY ConstantsAssumption DEF Answer, tables, Tables, TypeOK
<1>6. /\ mastery' \in Seq(Record) /\ DOMAIN mastery' = DOMAIN mastery
      /\ \A n \in DOMAIN mastery : /\ mastery'[n].user = mastery[n].user
                                   /\ mastery'[n].item = mastery[n].item
  <2> DEFINE row == [mastery[k] EXCEPT !.sched = m]
  <2>1. /\ row \in Record
        /\ row.user = mastery[k].user /\ row.item = mastery[k].item
    BY <1>2, <1>4 DEF Record
  <2>2. mastery' = [mastery EXCEPT ![k] = row]
    BY <1>3
  <2> QED
    BY <1>1, <2>1, <2>2 DEF Tables, TypeOK
<1>7. TypeOK'
  BY <1>5, <1>6 DEF Tables, TypeOK
<1>8. MasteryIndexed'
  BY <1>5, <1>6 DEF Tables, MasteryIndexed, MasteryAt
<1>9. ItemsIndexed' /\ UsersIndexed'
  BY <1>5 DEF Tables, ItemsIndexed, UsersIndexed
<1> QED
  BY <1>7, <1>8, <1>9 DEF Tables

(* A sorted index is a sequence of positions.                              *)
LEMMA OrdersType ==
  ASSUME TypeOK, NEW s \in DueOrders
  PROVE  s \in Seq(Nat)
<1>1. DOMAIN mastery = 1..Len(mastery) /\ Len(mastery) \in Nat
  BY DEF TypeOK
<1>2. s \in [1..Len(mastery) -> 1..Len(mastery)]
  BY <1>1 DEF DueOrders
<1>3. s \in [1..Len(mastery) -> Nat]
  BY <1>1, <1>2
<1> QED
  BY <1>1, <1>3

(* So is one that is only made again when it is not current.               *)
LEMMA RebuiltType ==
  ASSUME TypeOK, NEW s \in RebuiltOrders
  PROVE  s \in Seq(Nat)
<1>1. CASE s = due_sorted
  BY <1>1 DEF TypeOK
<1>2. CASE s \in DueOrders
  BY <1>2, OrdersType
<1> QED
  BY <1>1, <1>2 DEF RebuiltOrders

(* Every step keeps the tables and their hashes in agreement.              *)
LEMMA TablesInductive ==
  ASSUME Tables, [Next]_vars
  PROVE  Tables'
<1>1. ASSUME NEW q \in Questions, AddItem(q) PROVE Tables'
  BY <1>1, AddItemTables
<1>2. ASSUME NEW d \in Uids, CreateUser(d) PROVE Tables'
  BY <1>2, CreateUserTables
<1>3. ASSUME NEW u \in KnownUsers, NEW i \in KnownItems,
             GetOrCreateMastery(u, i)
      PROVE  Tables'
  BY <1>3, CreateTables
<1>4. ASSUME NEW u \in KnownUsers, NEW i \in KnownItems, NEW q \in Given,
             Answer(u, i, q)
      PROVE  Tables'
  BY <1>4, AnswerTables
<1>5. CASE AskWhatIsDue
  <2>1. due_sorted' \in Seq(Nat)
    BY <1>5, RebuiltType DEF AskWhatIsDue, RebuildDueIndex, Tables
  <2> QED
    BY <1>5, <2>1 DEF AskWhatIsDue, RebuildDueIndex, Tables, tables, TypeOK,
       ItemsIndexed, UsersIndexed, MasteryIndexed, MasteryAt
<1>6. CASE NextDay
  BY <1>6 DEF NextDay, Tables, tables, TypeOK,
     ItemsIndexed, UsersIndexed, MasteryIndexed, MasteryAt
<1>8. CASE Reload
  <2>1. due_sorted' \in Seq(Nat)
    BY <1>8, OrdersType DEF Reload, Tables
  <2> QED
    BY <1>8, <2>1 DEF Reload, Tables, tables, TypeOK,
       ItemsIndexed, UsersIndexed, MasteryIndexed, MasteryAt
<1>7. CASE UNCHANGED vars
  BY <1>7 DEF vars, Tables, TypeOK,
     ItemsIndexed, UsersIndexed, MasteryIndexed, MasteryAt
<1> QED
  BY <1>1, <1>2, <1>3, <1>4, <1>5, <1>6, <1>7, <1>8 DEF Next

(* Every reachable state satisfies the inductive invariant.                *)
LEMMA TablesAlways == Spec => []Tables
<1> QED
  BY TablesInit, TablesInductive, PTL DEF Spec

(* The tables, hashes and counters keep their types, whatever the sets of  *)
(* questions and users and however many rows and reviews there are.        *)
THEOREM TypeCorrect == Spec => []TypeOK
<1>1. Tables => TypeOK
  BY DEF Tables
<1> QED
  BY <1>1, TablesAlways, PTL

(* In every reachable state item and user ids are unique, no question and  *)
(* no uid short enough for its hash has two rows, and a lookup by either   *)
(* finds the row it names.                                                 *)
THEOREM RecordsAgree == Spec => []RecordsIndexed
<1>1. Tables => RecordsIndexed
  BY DEF Tables, RecordsIndexed
<1> QED
  BY <1>1, TablesAlways, PTL

(* In every reachable state the hash of the mastery table finds each       *)
(* record under its own user and item: no pair has two records.            *)
THEOREM IndexesAgree == Spec => []MasteryIndexed
<1>1. Tables => MasteryIndexed
  BY DEF Tables
<1> QED
  BY <1>1, TablesAlways, PTL

-----------------------------------------------------------------------------
(* The due index.  An index that wc_get_due_items would use as it is, is   *)
(* in order, or stale.                                                     *)
IndexSorted == (IndexIsCurrent /\ ~stale) => due_sorted \in DueOrders

(* From an index in order, stopping at the first future date finds exactly *)
(* the overdue records: none is behind the stop, none is beyond its date.  *)
LEMMA OrderFindsDue ==
  ASSUME TypeOK, NEW s \in DueOrders, NEW u
  PROVE  ListedItems(u, s) = Overdue(u)
<1> DEFINE D == 1..Len(mastery)
<1>0. Len(mastery) \in Nat /\ DOMAIN mastery = D
  BY DEF TypeOK
<1>1. /\ DOMAIN mastery = D
      /\ DOMAIN s = D /\ \A a \in D : s[a] \in D
      /\ \A k \in D : \E a \in D : s[a] = k
      /\ \A a, b \in D : a < b => NextReview(s[a]) <= NextReview(s[b])
  <2>1. s \in [D -> D]
    BY <1>0 DEF DueOrders
  <2> HIDE DEF D
  <2> QED
    BY <1>0, <2>1 DEF DueOrders
<1>2. now \in Nat /\ \A k \in D : NextReview(k) \in Nat
  <2>1. ASSUME NEW k \in D PROVE mastery[k].sched \in Schedules
    <3>1. mastery[k] \in Record
      BY <1>0 DEF TypeOK
    <3> QED
      BY <3>1 DEF Record
  <2>2. \A m \in Schedules : m.next \in Nat
    BY DEF Schedules
  <2> QED
    BY <2>1, <2>2 DEF TypeOK, NextReview
<1>3. ASSUME NEW x \in ListedItems(u, s) PROVE x \in Overdue(u)
  <2>1. PICK a \in Visited(s) : ListedFor(u, s[a]) /\ x = mastery[s[a]].item
    BY <1>3 DEF ListedItems
  <2>2. a \in D /\ s[a] \in D /\ \A j \in 1..a : NextReview(s[j]) <= now
    BY <1>1, <2>1 DEF Visited
  <2>3. a \in 1..a
    BY <1>1, <2>2, SMT
  <2> QED
    BY <1>1, <2>1, <2>2, <2>3 DEF Overdue
<1>4. ASSUME NEW x \in Overdue(u) PROVE x \in ListedItems(u, s)
  <2>1. PICK k \in D : /\ ListedFor(u, k) /\ NextReview(k) <= now
                       /\ x = mastery[k].item
    BY <1>1, <1>4 DEF Overdue
  <2>2. PICK a \in D : s[a] = k
    BY <1>1, <2>1
  <2>3. ASSUME NEW j \in 1..a PROVE NextReview(s[j]) <= now
    <3>1. j \in D /\ (j < a \/ j = a)
      BY <1>0, <2>3, SMT
    <3>2. CASE j = a
      BY <2>1, <2>2, <3>2
    <3>3. CASE j < a
      <4>1. NextReview(s[j]) <= NextReview(k)
        BY <1>1, <2>2, <3>1, <3>3
      <4>2. NextReview(s[j]) \in Nat /\ NextReview(k) \in Nat
        BY <1>1, <1>2, <3>1
      <4> QED
        BY <1>2, <2>1, <4>1, <4>2, SMT
    <3> QED
      BY <3>1, <3>2, <3>3
  <2>4. a \in Visited(s)
    BY <1>1, <2>2, <2>3 DEF Visited
  <2> QED
    BY <2>1, <2>2, <2>4 DEF ListedItems
<1> QED
  BY <1>3, <1>4

(* Every step keeps an index in order, or marks it dirty, or leaves it     *)
(* stale.                                                                  *)
LEMMA IndexSortedInductive ==
  ASSUME Tables, IndexSorted, [Next]_vars
  PROVE  IndexSorted'
<1> USE DEF IndexSorted, IndexIsCurrent
<1>1. ASSUME UNCHANGED <<mastery, due_sorted, due_dirty, stale>>
      PROVE  IndexSorted'
  BY <1>1 DEF DueOrders, NextReview
<1>2. ASSUME NEW q \in Questions, AddItem(q) PROVE IndexSorted'
  BY <1>1, <1>2 DEF AddItem
<1>3. ASSUME NEW d \in Uids, CreateUser(d) PROVE IndexSorted'
  BY <1>1, <1>3 DEF CreateUser
<1>4. ASSUME NEW u \in KnownUsers, NEW i \in KnownItems,
             GetOrCreateMastery(u, i)
      PROVE  IndexSorted'
  BY <1>4 DEF GetOrCreateMastery, CreateMastery
<1>5. ASSUME NEW u \in KnownUsers, NEW i \in KnownItems, NEW q \in Given,
             Answer(u, i, q)
      PROVE  IndexSorted'
  BY <1>5 DEF Answer
<1>6. CASE AskWhatIsDue
  <2>1. /\ due_sorted' \in RebuiltOrders
        /\ mastery' = mastery /\ stale' = stale
    BY <1>6 DEF AskWhatIsDue, RebuildDueIndex
  <2>2. ASSUME ~stale PROVE due_sorted' \in DueOrders
    BY <2>1, <2>2 DEF RebuiltOrders
  <2> QED
    BY <2>1, <2>2 DEF DueOrders, NextReview
<1>9. CASE Reload
  BY <1>9 DEF Reload, DueOrders, NextReview
<1>7. CASE NextDay
  BY <1>1, <1>7 DEF NextDay
<1>8. CASE UNCHANGED vars
  BY <1>1, <1>8 DEF vars
<1> QED
  BY <1>2, <1>3, <1>4, <1>5, <1>6, <1>7, <1>8, <1>9 DEF Next

(* Whichever clients call wc_notify_mastery_changed after wc_sm2_update:   *)
(* while no answer has gone unreported since the index was sorted,         *)
(* wc_get_due_items never misses a due record and never returns a future   *)
(* one, for any number of users, records and days.  A command of cli.py    *)
(* and a request of api.py query within a fresh load, and so does the      *)
(* first query of every process; one that reports its answers is served    *)
(* right for ever.                                                         *)
THEOREM DueItemsExact == Spec => []DueIndexExact
<1>1. Init => IndexSorted
  BY DEF Init, IndexSorted, IndexIsCurrent
<1>2. IndexSorted /\ Tables => DueIndexExact
  <2> SUFFICES ASSUME IndexSorted, Tables, ~stale, NEW s \in RebuiltOrders,
                      NEW u \in KnownUsers
               PROVE  ListedItems(u, s) = Overdue(u)
    BY DEF DueIndexExact
  <2>1. s \in DueOrders
    BY DEF RebuiltOrders, IndexSorted
  <2> QED
    BY <2>1, OrderFindsDue DEF Tables
<1> QED
  BY <1>1, <1>2, TablesAlways, IndexSortedInductive, PTL DEF Spec

-----------------------------------------------------------------------------
(* What a scan collects.  The members of a set below one of them count its *)
(* rank.                                                                   *)
Below(S, k) == {j \in S : j < k}

(* A larger member has a larger rank.                                      *)
LEMMA RanksGrow ==
  ASSUME NEW S, S \subseteq Nat, IsFiniteSet(S), NEW k \in S, NEW l \in S, k < l
  PROVE  Cardinality(Below(S, k)) < Cardinality(Below(S, l))
<1> DEFINE B == Below(S, l)
<1>1. /\ B \subseteq S /\ k \in B /\ k \notin Below(S, k)
      /\ Below(S, k) \subseteq B
  <2>1. k \in Nat /\ l \in Nat /\ ~(k < k) /\ \A j \in S : j \in Nat
    OBVIOUS
  <2>2. \A j \in S : j < k => j < l
    BY <2>1
  <2> QED
    BY <2>1, <2>2, Zenon DEF Below
<1>2. IsFiniteSet(B) /\ Cardinality(B) \in Nat
  BY <1>1, FS_Subset, FS_CardinalityType
<1>3. /\ IsFiniteSet(Below(S, k)) /\ Cardinality(Below(S, k)) \in Nat
      /\ Cardinality(Below(S, k)) <= Cardinality(B)
      /\ Cardinality(Below(S, k)) # Cardinality(B)
  <2> HIDE DEF B
  <2> QED
    BY <1>1, <1>2, FS_Subset, FS_CardinalityType
<1> QED
  BY <1>2, <1>3

(* The ranks of n numbers are 0 to n - 1.                                  *)
LEMMA RankOfMember ==
  ASSUME NEW S, S \subseteq Nat, IsFiniteSet(S), NEW k \in S
  PROVE  /\ Cardinality(Below(S, k)) \in Nat /\ Cardinality(S) \in Nat
         /\ Cardinality(Below(S, k)) < Cardinality(S)
<1>1. Below(S, k) \subseteq S /\ Below(S, k) # S
  <2>1. ~(k < k)
    OBVIOUS
  <2> QED
    BY <2>1 DEF Below
<1>2. /\ Cardinality(S) \in Nat /\ IsFiniteSet(Below(S, k))
      /\ Cardinality(Below(S, k)) <= Cardinality(S)
      /\ Cardinality(Below(S, k)) # Cardinality(S)
  BY <1>1, FS_Subset, FS_CardinalityType
<1>3. Cardinality(Below(S, k)) \in Nat
  BY <1>2, FS_CardinalityType
<1> QED
  BY <1>2, <1>3

(* So there is an n-th smallest number.                                    *)
LEMMA NthFound ==
  ASSUME NEW S, S \subseteq Nat, IsFiniteSet(S), NEW n \in 1..Cardinality(S)
  PROVE  Nth(S, n) \in S /\ Cardinality(Below(S, Nth(S, n))) = n - 1
<1> DEFINE c == Cardinality(S)
           rank == [k \in S |-> Cardinality(Below(S, k))]
<1>1. c \in Nat /\ n - 1 \in 0..(c - 1)
  BY FS_CardinalityType
<1>2. rank \in Injection(S, 0..(c - 1))
  <2>1. rank \in [S -> 0..(c - 1)]
    <3>1. ASSUME NEW k \in S PROVE Cardinality(Below(S, k)) \in 0..(c - 1)
      <4>1. /\ Cardinality(Below(S, k)) \in Nat /\ c \in Nat
            /\ Cardinality(Below(S, k)) < c
        BY RankOfMember
      <4> QED
        BY <4>1
    <3> QED
      BY <3>1
  <2>2. ASSUME NEW k \in S, NEW l \in S, k # l PROVE rank[k] # rank[l]
    <3>1. k < l \/ l < k
      BY <2>2
    <3>2. /\ Cardinality(Below(S, k)) \in Int /\ Cardinality(Below(S, l)) \in Int
          /\ Cardinality(Below(S, k)) # Cardinality(Below(S, l))
      <4>1. Cardinality(Below(S, k)) \in Nat /\ Cardinality(Below(S, l)) \in Nat
        BY RankOfMember
      <4>2. \/ Cardinality(Below(S, k)) < Cardinality(Below(S, l))
            \/ Cardinality(Below(S, l)) < Cardinality(Below(S, k))
        BY <3>1, RanksGrow
      <4> QED
        BY <4>1, <4>2
    <3> QED
      BY <3>2
  <2> HIDE DEF rank
  <2> QED
    BY <2>1, <2>2 DEF Injection, IsInjective
<1>3. IsFiniteSet(0..(c - 1)) /\ Cardinality(0..(c - 1)) = c
  BY <1>1, FS_Interval
<1>4. rank \in Surjection(S, 0..(c - 1))
  <2> HIDE DEF rank
  <2> QED
    BY <1>2, <1>3, FS_Injection
<1>5. \E k \in S : rank[k] = n - 1
  <2> HIDE DEF rank
  <2> QED
    BY <1>1, <1>4 DEF Surjection
<1>6. \E k \in S : Cardinality({j \in S : j < k}) = n - 1
  BY <1>5 DEF Below
<1> QED
  BY <1>6 DEF Nth, Below

(* The output buffer holds positions of the set in ascending order, and    *)
(* one that is not in it is behind all those that fill it.                 *)
HoldsFirst(q, S, max) ==
  /\ \E m \in 0..max : DOMAIN q = 1..m
  /\ \A n \in DOMAIN q : q[n] \in S
  /\ \A a, b \in DOMAIN q : a < b => q[a] < q[b]
  /\ \A k \in S : (\A n \in DOMAIN q : q[n] # k) =>
       DOMAIN q = 1..max /\ \A n \in DOMAIN q : q[n] < k

LEMMA CollectedInOrder ==
  ASSUME NEW S, S \subseteq Nat, IsFiniteSet(S), NEW max \in Nat
  PROVE  HoldsFirst(Collected(S, max), S, max)
<1> SUFFICES ASSUME NEW q, q = Collected(S, max)
             PROVE  HoldsFirst(q, S, max)
  OBVIOUS
<1> DEFINE c == Cardinality(S)
           m == IF c <= max THEN c ELSE max
<1>1. c \in Nat /\ m \in 0..max /\ m <= c
  BY FS_CardinalityType
<1>2. DOMAIN q = 1..m /\ \A n \in 1..m : q[n] = Nth(S, n)
  BY DEF Collected
<1>3. \A n \in 1..m : n \in 1..c
  BY <1>1
<1>4. \A n \in 1..m : q[n] \in S /\ Cardinality(Below(S, q[n])) = n - 1
  BY <1>2, <1>3, NthFound
<1> HIDE DEF m
<1>5. ASSUME NEW a \in 1..m, NEW b \in 1..m, a < b PROVE q[a] < q[b]
  <2>1. q[a] \in S /\ q[b] \in S /\ q[a] \in Nat /\ q[b] \in Nat
    BY <1>4
  <2>2. q[b] < q[a] => Cardinality(Below(S, q[b])) < Cardinality(Below(S, q[a]))
    BY <2>1, RanksGrow
  <2>3. q[a] # q[b] /\ ~(q[b] < q[a])
    BY <1>1, <1>4, <1>5, <2>2
  <2> QED
    BY <2>1, <2>3
<1>6. ASSUME NEW k \in S, \A n \in 1..m : q[n] # k
      PROVE  m = max /\ \A n \in 1..m : q[n] < k
  <2> DEFINE r == Cardinality(Below(S, k)) + 1
  <2>1. r \in 1..c
    <3>1. Cardinality(Below(S, k)) \in Nat /\ Cardinality(Below(S, k)) < c
      BY RankOfMember
    <3> QED
      BY <1>1, <3>1
  <2>2. /\ Nth(S, r) \in S
        /\ Cardinality(Below(S, Nth(S, r))) = Cardinality(Below(S, k))
    <3>1. r - 1 = Cardinality(Below(S, k))
      <4>1. Cardinality(Below(S, k)) \in Nat
        BY RankOfMember
      <4> QED
        BY <4>1
    <3> HIDE DEF r
    <3> QED
      BY <2>1, <3>1, NthFound
  <2>3. Nth(S, r) = k
    <3> DEFINE x == Nth(S, r)
    <3>1. x \in S /\ Cardinality(Below(S, x)) = Cardinality(Below(S, k))
      BY <2>2
    <3> HIDE DEF x
    <3>2. /\ x < k => Cardinality(Below(S, x)) < Cardinality(Below(S, k))
          /\ k < x => Cardinality(Below(S, k)) < Cardinality(Below(S, x))
      BY <3>1, RanksGrow
    <3>3. Cardinality(Below(S, k)) \in Nat /\ x \in Nat /\ k \in Nat
      BY <3>1, RankOfMember
    <3>4. x = k
      BY <3>1, <3>2, <3>3
    <3> QED
      BY <3>4 DEF x
  <2> HIDE DEF r
  <2>4. r > m
    BY <1>1, <1>2, <1>6, <2>1, <2>3
  <2>5. m = max
    BY <1>1, <2>1, <2>4 DEF m
  <2>6. ASSUME NEW n \in 1..m PROVE q[n] < k
    <3>1. /\ q[n] \in S /\ Cardinality(Below(S, q[n])) = n - 1
          /\ q[n] \in Nat /\ k \in Nat
      BY <1>4
    <3>2. k < q[n] => Cardinality(Below(S, k)) < Cardinality(Below(S, q[n]))
      BY <3>1, RanksGrow
    <3>3. r = Cardinality(Below(S, k)) + 1 /\ Cardinality(Below(S, k)) \in Nat
      <4>1. Cardinality(Below(S, k)) \in Nat
        BY RankOfMember
      <4> QED
        BY <4>1 DEF r
    <3>4. ~(k < q[n]) /\ q[n] # k
      BY <1>1, <1>6, <2>1, <2>4, <3>1, <3>2, <3>3
    <3> QED
      BY <3>1, <3>4, SMT
  <2> QED
    BY <2>5, <2>6
<1> QED
  BY <1>1, <1>2, <1>4, <1>5, <1>6 DEF HoldsFirst

(* In an index in order every record has one place, by its date.           *)
LEMMA OrderPlaces ==
  ASSUME Len(mastery) \in Nat, DOMAIN mastery = 1..Len(mastery),
         NEW s \in DueOrders
  PROVE  /\ DOMAIN s = DOMAIN mastery
         /\ \A a \in DOMAIN s : s[a] \in DOMAIN mastery
         /\ \A k \in DOMAIN mastery : \E a \in DOMAIN s : s[a] = k
         /\ \A a, b \in DOMAIN s : s[a] = s[b] => a = b
         /\ \A a, b \in DOMAIN s : a < b => NextReview(s[a]) <= NextReview(s[b])
<1> DEFINE D == DOMAIN mastery
<1>1. /\ s \in [D -> D] /\ DOMAIN s = D
      /\ \A k \in D : \E a \in D : s[a] = k
      /\ \A a, b \in D : a < b => NextReview(s[a]) <= NextReview(s[b])
  BY DEF DueOrders
<1>2. IsFiniteSet(D)
  BY FS_Interval
<1> HIDE DEF D
<1>3. s \in Surjection(D, D)
  BY <1>1 DEF Surjection
<1>4. s \in Injection(D, D)
  BY <1>2, <1>3, FS_SurjSameCardinalityImpliesInj
<1>5. \A a, b \in D : s[a] = s[b] => a = b
  BY <1>4 DEF Injection, IsInjective
<1>6. \A a \in D : s[a] \in D
  BY <1>1
<1>7. \A a, b \in DOMAIN s : s[a] = s[b] => a = b
  BY <1>1, <1>5
<1>8. \A k \in DOMAIN mastery : \E a \in DOMAIN s : s[a] = k
  BY <1>1 DEF D
<1> QED
  BY <1>1, <1>6, <1>7, <1>8 DEF D

(* The records wc_get_due_items collects with an index in order: overdue   *)
(* ones, each once, and none that is left out is more overdue.             *)
Hits(u, s, max) ==
  LET places == Collected({a \in Visited(s) : ListedFor(u, s[a])}, max)
  IN  [n \in DOMAIN places |-> s[places[n]]]

LEMMA HitsInOrder ==
  ASSUME Len(mastery) \in Nat, DOMAIN mastery = 1..Len(mastery), now \in Nat,
         \A k \in DOMAIN mastery : NextReview(k) \in Nat,
         NEW s \in DueOrders, NEW u, NEW max \in Nat, NEW h, h = Hits(u, s, max)
  PROVE  /\ DueItems(u, s, max) = [n \in DOMAIN h |-> mastery[h[n]].item]
         /\ \E m \in 0..max : DOMAIN h = 1..m
         /\ \A n \in DOMAIN h : /\ h[n] \in DOMAIN mastery /\ ListedFor(u, h[n])
                                /\ NextReview(h[n]) <= now
         /\ \A a, b \in DOMAIN h : h[a] = h[b] => a = b
         /\ \A k \in DOMAIN mastery :
              (ListedFor(u, k) /\ NextReview(k) <= now /\ \A n \in DOMAIN h : h[n] # k) =>
                DOMAIN h = 1..max /\ \A n \in DOMAIN h : NextReview(h[n]) <= NextReview(k)
<1> DEFINE S == {a \in Visited(s) : ListedFor(u, s[a])}
           q == Collected(S, max)
<1>1. /\ DOMAIN s = DOMAIN mastery
      /\ \A a \in DOMAIN s : s[a] \in DOMAIN mastery
      /\ \A k \in DOMAIN mastery : \E a \in DOMAIN s : s[a] = k
      /\ \A a, b \in DOMAIN s : s[a] = s[b] => a = b
      /\ \A a, b \in DOMAIN s : a < b => NextReview(s[a]) <= NextReview(s[b])
  BY OrderPlaces
<1>2. /\ DOMAIN s \subseteq Nat /\ \A a \in DOMAIN s : a \in 1..a /\ 1..a \subseteq DOMAIN s
  BY <1>1, SMTT(30)
<1>3. S \subseteq DOMAIN s /\ S \subseteq Nat /\ IsFiniteSet(S)
  <2>1. S \subseteq DOMAIN s
    BY DEF Visited
  <2>2. IsFiniteSet(DOMAIN s)
    BY <1>1, FS_Interval
  <2> QED
    BY <1>2, <2>1, <2>2, FS_Subset
<1>4. \A a \in S : ListedFor(u, s[a]) /\ NextReview(s[a]) <= now
  BY <1>2 DEF Visited
<1>5. ASSUME NEW a \in DOMAIN s, ListedFor(u, s[a]), NextReview(s[a]) <= now
      PROVE  a \in S
  <2>1. ASSUME NEW j \in 1..a PROVE NextReview(s[j]) <= now
    <3>1. j \in DOMAIN s /\ (j = a \/ j < a)
      <4>1. a \in Nat
        BY <1>2
      <4> QED
        BY <1>2, <4>1
    <3>2. CASE j < a
      <4>1. NextReview(s[j]) <= NextReview(s[a])
        BY <1>1, <3>1, <3>2
      <4>2. NextReview(s[j]) \in Nat /\ NextReview(s[a]) \in Nat
        BY <1>1, <3>1
      <4> QED
        BY <1>5, <4>1, <4>2
    <3> QED
      BY <1>5, <3>1, <3>2
  <2> QED
    BY <1>5, <2>1 DEF Visited
<1>6. /\ DueItems(u, s, max) = [n \in DOMAIN q |-> mastery[s[q[n]]].item]
      /\ h = [n \in DOMAIN q |-> s[q[n]]] /\ DOMAIN h = DOMAIN q
      /\ \A n \in DOMAIN q : h[n] = s[q[n]]
  BY DEF DueItems, Hits
<1>7. DueItems(u, s, max) = [n \in DOMAIN h |-> mastery[h[n]].item]
  <2> HIDE DEF q
  <2> QED
    BY <1>6
<1> HIDE DEF S
<1>8. /\ \E m \in 0..max : DOMAIN q = 1..m
      /\ \A n \in DOMAIN q : q[n] \in S
      /\ \A a, b \in DOMAIN q : a < b => q[a] < q[b]
      /\ \A k \in S : (\A n \in DOMAIN q : q[n] # k) =>
           DOMAIN q = 1..max /\ \A n \in DOMAIN q : q[n] < k
  <2>1. HoldsFirst(q, S, max)
    BY <1>3, CollectedInOrder
  <2> HIDE DEF q
  <2> QED
    BY <2>1 DEF HoldsFirst
<1> HIDE DEF q
<1>9. \A n \in DOMAIN h : /\ h[n] \in DOMAIN mastery /\ ListedFor(u, h[n])
                          /\ NextReview(h[n]) <= now
  BY <1>1, <1>3, <1>4, <1>6, <1>8
<1>10. ASSUME NEW a \in DOMAIN h, NEW b \in DOMAIN h, h[a] = h[b] PROVE a = b
  <2>1. q[a] = q[b] /\ q[a] \in Nat
    BY <1>1, <1>3, <1>6, <1>8, <1>10
  <2>2. a \in Nat /\ b \in Nat
    BY <1>6, <1>8
  <2>3. ~(a < b) /\ ~(b < a)
    BY <1>6, <1>8, <2>1
  <2> QED
    BY <2>2, <2>3
<1>11. ASSUME NEW k \in DOMAIN mastery, ListedFor(u, k), NextReview(k) <= now,
              \A n \in DOMAIN h : h[n] # k
       PROVE  DOMAIN h = 1..max /\ \A n \in DOMAIN h : NextReview(h[n]) <= NextReview(k)
  <2>1. PICK a \in DOMAIN s : s[a] = k
    BY <1>1
  <2>2. a \in S
    BY <1>5, <1>11, <2>1
  <2>3. \A n \in DOMAIN q : q[n] # a
    BY <1>6, <1>11, <2>1
  <2>4. DOMAIN q = 1..max /\ \A n \in DOMAIN q : q[n] < a
    BY <1>8, <2>2, <2>3
  <2>5. ASSUME NEW n \in DOMAIN h PROVE NextReview(h[n]) <= NextReview(k)
    <3>1. q[n] \in DOMAIN s /\ q[n] < a
      BY <1>3, <1>6, <1>8, <2>4
    <3> QED
      BY <1>1, <1>6, <2>1, <3>1
  <2> QED
    BY <1>6, <2>4, <2>5
<1> QED
  BY <1>6, <1>7, <1>8, <1>9, <1>10, <1>11

(* The items wc_get_new_items collects: each once, without a record.       *)
LEMMA NewInOrder ==
  ASSUME Len(items) \in Nat, DOMAIN items = 1..Len(items),
         \A k \in DOMAIN items : items[k].id = k,
         NEW u, NEW max \in Nat, NEW f, f = NewItems(u, max)
  PROVE  /\ \E m \in 0..max : DOMAIN f = 1..m /\ f = [n \in 1..m |-> f[n]]
         /\ \A n \in DOMAIN f : MasteryAt(u, f[n]) = 0
         /\ \A a, b \in DOMAIN f : f[a] = f[b] => a = b
<1> DEFINE S == {a \in DOMAIN items : MasteryAt(u, items[a].id) = 0}
           q == Collected(S, max)
<1>1. S \subseteq DOMAIN items /\ S \subseteq Nat /\ IsFiniteSet(S)
  <2>1. S \subseteq DOMAIN items /\ IsFiniteSet(DOMAIN items)
    BY FS_Interval
  <2> QED
    BY <2>1, FS_Subset
<1>2. f = [n \in DOMAIN q |-> items[q[n]].id]
  BY DEF NewItems
<1>3. \A a \in S : items[a].id = a /\ MasteryAt(u, a) = 0
  OBVIOUS
<1> HIDE DEF S
<1>4. HoldsFirst(q, S, max)
  BY <1>1, CollectedInOrder
<1> HIDE DEF q
<1>5. PICK m \in 0..max : DOMAIN q = 1..m
  BY <1>4 DEF HoldsFirst
<1>6. \A n \in DOMAIN q : q[n] \in S /\ f[n] = q[n]
  BY <1>2, <1>3, <1>4 DEF HoldsFirst
<1>7. DOMAIN f = 1..m /\ f = [n \in 1..m |-> f[n]]
  BY <1>2, <1>5
<1>8. ASSUME NEW a \in DOMAIN f, NEW b \in DOMAIN f, f[a] = f[b] PROVE a = b
  <2>1. q[a] = q[b] /\ q[a] \in Nat
    BY <1>1, <1>5, <1>6, <1>7, <1>8
  <2>2. a \in Nat /\ b \in Nat
    BY <1>7
  <2>3. ~(a < b) /\ ~(b < a)
    BY <1>4, <1>5, <1>7, <2>1 DEF HoldsFirst
  <2> QED
    BY <2>2, <2>3
<1> QED
  BY <1>3, <1>5, <1>6, <1>7, <1>8

(* The first n elements, or all.                                           *)
LEMMA AtMostTakes ==
  ASSUME NEW R, NEW f \in Seq(R), NEW n \in Nat
  PROVE  LET e == AtMost(f, n)
         IN  /\ e \in Seq(R) /\ Len(e) \in 0..n /\ Len(e) <= Len(f)
             /\ \A k \in 1..Len(e) : e[k] = f[k]
<1> DEFINE e == AtMost(f, n)
<1>1. Len(f) \in Nat
  BY LenProperties
<1>2. CASE Len(f) <= n
  BY <1>1, <1>2 DEF AtMost
<1>3. CASE ~(Len(f) <= n)
  <2>1. e = SubSeq(f, 1, n)
    BY <1>3 DEF AtMost
  <2>2. \A k \in 1..n : k \in 1..Len(f) /\ f[k] \in R
    <3>1. \A k \in 1..n : k \in 1..Len(f)
      BY <1>1, <1>3
    <3> QED
      BY <3>1, ElementOfSeq
  <2>3. /\ e \in Seq(R) /\ Len(e) = IF 1 <= n THEN n - 1 + 1 ELSE 0
        /\ \A k \in 1..(n - 1 + 1) : e[k] = f[1 + k - 1]
    BY <2>1, <2>2, SubSeqProperties
  <2>4. Len(e) = n /\ \A k \in 1..n : e[k] = f[k]
    BY <2>3
  <2>5. /\ e \in Seq(R) /\ Len(e) \in 0..n /\ Len(e) <= Len(f)
        /\ \A k \in 1..Len(e) : e[k] = f[k]
    <3> HIDE DEF e
    <3> QED
      BY <1>1, <1>3, <2>3, <2>4
  <2> QED
    BY <2>5, Zenon
<1> QED
  BY <1>2, <1>3

(* New items fill what the due ones leave of the buffer.                   *)
HasLength(s, m) == DOMAIN s = 1..m /\ s = [n \in 1..m |-> s[n]]

HasParts(q, d, m, f, l) ==
  /\ DOMAIN q = 1..(m + l) /\ Len(q) = m + l
  /\ \A n \in 1..m : q[n] = d[n]
  /\ \A n \in 1..l : q[m + n] = f[n]

IsJoined(q, d, f, max) == q = d \o AtMost(f, max - Len(d))

LEMMA QueueParts ==
  ASSUME NEW d, NEW f, NEW max \in Nat, NEW m \in 0..max, NEW j \in Nat,
         HasLength(d, m), HasLength(f, j), NEW q, IsJoined(q, d, f, max)
  PROVE  \E l \in 0..(max - m) : l <= j /\ HasParts(q, d, m, f, l)
<1> DEFINE R == {d[n] : n \in 1..m} \cup {f[n] : n \in 1..j}
           e == AtMost(f, max - m)
           l == Len(e)
<1>1. d \in Seq(R) /\ Len(d) = m /\ f \in Seq(R) /\ Len(f) = j
  <2>1. d \in [1..m -> R] /\ f \in [1..j -> R]
    BY DEF HasLength
  <2>2. m \in Nat
    OBVIOUS
  <2> HIDE DEF R
  <2> QED
    BY <2>1, <2>2
<1>2. q = d \o e
  BY <1>1 DEF IsJoined
<1> HIDE DEF R
<1>3. /\ e \in Seq(R) /\ l \in 0..(max - m) /\ l <= j
      /\ \A n \in 1..l : e[n] = f[n]
  <2>1. max - m \in Nat
    OBVIOUS
  <2>2. /\ e \in Seq(R) /\ Len(e) \in 0..(max - m) /\ Len(e) <= Len(f)
        /\ \A k \in 1..Len(e) : e[k] = f[k]
    BY <1>1, <2>1, AtMostTakes
  <2> HIDE DEF e
  <2> QED
    BY <1>1, <2>2
<1> HIDE DEF e
<1>4. /\ q \in Seq(R) /\ Len(q) = m + l
      /\ \A n \in 1..(m + l) : q[n] = IF n <= m THEN d[n] ELSE e[n - m]
  <2>1. /\ d \o e \in Seq(R) /\ Len(d \o e) = Len(d) + Len(e)
        /\ \A n \in 1..(Len(d) + Len(e)) :
             (d \o e)[n] = IF n <= Len(d) THEN d[n] ELSE e[n - Len(d)]
    BY <1>1, <1>3, ConcatProperties
  <2> QED
    BY <1>1, <1>2, <2>1
<1>5. DOMAIN q = 1..(m + l)
  BY <1>4, LenProperties
<1> HIDE DEF l
<1>6. ASSUME NEW n \in 1..m PROVE q[n] = d[n]
  BY <1>3, <1>4
<1>7. ASSUME NEW n \in 1..l PROVE q[m + n] = f[n]
  <2>1. m + n \in 1..(m + l) /\ ~(m + n <= m) /\ (m + n) - m = n
    BY <1>3
  <2>2. q[m + n] = e[(m + n) - m]
    BY <1>4, <2>1, Zenon
  <2> QED
    BY <1>3, <2>1, <2>2
<1> QED
  BY <1>3, <1>4, <1>5, <1>6, <1>7 DEF HasParts

(* The invariants the queue is built on.                                   *)
LEMMA RecordTypes ==
  ASSUME Tables
  PROVE  /\ Len(mastery) \in Nat /\ DOMAIN mastery = 1..Len(mastery) /\ now \in Nat
         /\ \A k \in DOMAIN mastery : NextReview(k) \in Nat
         /\ \A k \in DOMAIN mastery : MasteryAt(mastery[k].user, mastery[k].item) = k
         /\ Len(items) \in Nat /\ DOMAIN items = 1..Len(items)
         /\ \A k \in DOMAIN items : items[k].id = k
<1>1. ASSUME NEW k \in DOMAIN mastery PROVE NextReview(k) \in Nat
  <2>1. mastery[k] \in Record
    BY DEF Tables, TypeOK
  <2> QED
    BY <2>1 DEF Record, Schedules, NextReview
<1> QED
  BY <1>1 DEF Tables, TypeOK, MasteryIndexed, ItemsIndexed

(* A queue built with an index in order is well formed, whatever the size  *)
(* of its buffer.                                                          *)
LEMMA OrderMakesQueue ==
  ASSUME Tables, NEW s \in DueOrders, NEW u \in KnownUsers, NEW max \in Nat,
         NEW q, q = DailyQueue(u, s, max)
  PROVE  /\ \A a, b \in DOMAIN q : q[a] = q[b] => a = b
         /\ \A i \in Overdue(u) : i \notin {q[k] : k \in DOMAIN q}
              => \A k \in DOMAIN q :
                   /\ q[k] \in Overdue(u)
                   /\ NextReview(MasteryAt(u, q[k])) <= NextReview(MasteryAt(u, i))
<1> DEFINE h == Hits(u, s, max)
           d == DueItems(u, s, max)
           f == NewItems(u, DailyNewLimit)
<1>0. IsJoined(q, d, f, max)
  BY DEF DailyQueue, IsJoined
<1>1. /\ d = [n \in DOMAIN h |-> mastery[h[n]].item]
      /\ \E m \in 0..max : DOMAIN h = 1..m
      /\ \A n \in DOMAIN h : /\ h[n] \in DOMAIN mastery /\ ListedFor(u, h[n])
                             /\ NextReview(h[n]) <= now
      /\ \A a, b \in DOMAIN h : h[a] = h[b] => a = b
      /\ \A k \in DOMAIN mastery :
           (ListedFor(u, k) /\ NextReview(k) <= now /\ \A n \in DOMAIN h : h[n] # k) =>
             DOMAIN h = 1..max /\ \A n \in DOMAIN h : NextReview(h[n]) <= NextReview(k)
  BY HitsInOrder, RecordTypes
<1>2. /\ \E j \in 0..DailyNewLimit : DOMAIN f = 1..j /\ f = [n \in 1..j |-> f[n]]
      /\ \A n \in DOMAIN f : MasteryAt(u, f[n]) = 0
      /\ \A a, b \in DOMAIN f : f[a] = f[b] => a = b
  BY NewInOrder, RecordTypes, ConstantsAssumption
<1> HIDE DEF h, d, f
<1>3. PICK m \in 0..max : DOMAIN h = 1..m /\ DOMAIN d = 1..m /\ d = [n \in 1..m |-> d[n]]
  BY <1>1
<1>4. PICK j \in Nat : DOMAIN f = 1..j /\ f = [n \in 1..j |-> f[n]]
  BY <1>2, ConstantsAssumption
<1>5. PICK l \in 0..(max - m) :
        /\ DOMAIN q = 1..(m + l) /\ l <= j
        /\ \A n \in 1..m : q[n] = d[n]
        /\ \A n \in 1..l : q[m + n] = f[n]
  <2>1. HasLength(d, m) /\ HasLength(f, j)
    BY <1>3, <1>4 DEF HasLength
  <2>2. \E l \in 0..(max - m) : l <= j /\ HasParts(q, d, m, f, l)
    BY <1>0, <2>1, QueueParts
  <2> QED
    BY <2>2 DEF HasParts
<1>6. ASSUME NEW n \in 1..m
      PROVE  /\ q[n] = mastery[h[n]].item /\ MasteryAt(u, q[n]) = h[n]
             /\ h[n] \in DOMAIN mastery /\ ListedFor(u, h[n]) /\ NextReview(h[n]) <= now
             /\ q[n] \in Overdue(u) /\ h[n] # 0
  <2>1. /\ q[n] = mastery[h[n]].item
        /\ h[n] \in DOMAIN mastery /\ ListedFor(u, h[n]) /\ NextReview(h[n]) <= now
    BY <1>1, <1>3, <1>5
  <2>2. MasteryAt(u, q[n]) = h[n] /\ h[n] # 0
    BY <2>1, RecordTypes DEF ListedFor
  <2>3. q[n] \in Overdue(u)
    BY <2>1 DEF Overdue
  <2> QED
    BY <2>1, <2>2, <2>3
<1>7. ASSUME NEW n \in DOMAIN q, n \notin 1..m
      PROVE  n - m \in DOMAIN f /\ n = m + (n - m) /\ q[n] = f[n - m] /\ MasteryAt(u, q[n]) = 0
  <2>1. n - m \in 1..l /\ n = m + (n - m) /\ n - m \in DOMAIN f
    BY <1>4, <1>5, <1>7
  <2>2. q[m + (n - m)] = f[n - m]
    BY <1>5, <2>1
  <2>3. q[n] = f[n - m]
    BY <2>1, <2>2
  <2> QED
    BY <1>2, <2>1, <2>3
<1>8. ASSUME NEW a \in DOMAIN q, NEW b \in DOMAIN q, q[a] = q[b] PROVE a = b
  <2>1. CASE a \in 1..m /\ b \in 1..m
    BY <1>1, <1>3, <1>6, <1>8, <2>1
  <2>2. CASE a \notin 1..m /\ b \notin 1..m
    <3>1. /\ a - m \in DOMAIN f /\ b - m \in DOMAIN f
          /\ f[a - m] = f[b - m]
      BY <1>7, <1>8, <2>2
    <3>2. a - m = b - m
      BY <1>2, <3>1
    <3>3. a \in Int /\ b \in Int /\ m \in Int
      BY <1>5
    <3> QED
      BY <3>2, <3>3
  <2>3. (a \in 1..m) <=> (b \in 1..m)
    BY <1>6, <1>7, <1>8
  <2> QED
    BY <2>1, <2>2, <2>3
<1>9. ASSUME NEW i \in Overdue(u), i \notin {q[k] : k \in DOMAIN q}, NEW k \in DOMAIN q
      PROVE  /\ q[k] \in Overdue(u)
             /\ NextReview(MasteryAt(u, q[k])) <= NextReview(MasteryAt(u, i))
  <2>1. PICK r \in DOMAIN mastery :
          /\ ListedFor(u, r) /\ NextReview(r) <= now /\ i = mastery[r].item
    BY <1>9 DEF Overdue
  <2>2. MasteryAt(u, i) = r
    BY <2>1, RecordTypes DEF ListedFor
  <2>3. \A n \in 1..m : h[n] # r /\ n \in DOMAIN q
    BY <1>5, <1>6, <1>9, <2>1
  <2>4. DOMAIN h = 1..max /\ \A n \in 1..m : NextReview(h[n]) <= NextReview(r)
    BY <1>1, <1>3, <2>1, <2>3
  <2>5. k \in 1..m
    BY <1>3, <1>5, <2>4
  <2> QED
    BY <1>6, <2>2, <2>4, <2>5
<1> QED
  BY <1>8, <1>9

(* Under the same condition the daily queue never holds an item twice, and *)
(* when its buffer is too short for all that is due it holds the most      *)
(* overdue items and nothing else, for any number of users, records and    *)
(* days.                                                                   *)
THEOREM QueueAlwaysWellFormed == Spec => []QueueWellFormed
<1>1. Init => IndexSorted
  BY DEF Init, IndexSorted, IndexIsCurrent
<1>2. IndexSorted /\ Tables => QueueWellFormed
  <2> SUFFICES ASSUME IndexSorted, Tables, ~stale, NEW s \in RebuiltOrders,
                      NEW u \in KnownUsers, NEW max \in 1..3,
                      NEW q, q = DailyQueue(u, s, max)
               PROVE  /\ \A a, b \in DOMAIN q : q[a] = q[b] => a = b
                      /\ \A i \in Overdue(u) : i \notin {q[k] : k \in DOMAIN q}
                           => \A k \in DOMAIN q :
                                /\ q[k] \in Overdue(u)
                                /\ NextReview(MasteryAt(u, q[k])) <= NextReview(MasteryAt(u, i))
    BY DEF QueueWellFormed
  <2>1. s \in DueOrders /\ max \in Nat
    BY DEF RebuiltOrders, IndexSorted
  <2> QED
    BY <2>1, OrderMakesQueue
<1> QED
  BY <1>1, <1>2, TablesAlways, IndexSortedInductive, PTL DEF Spec

-----------------------------------------------------------------------------
(* The command line review. *)

(* Reviews of one record that its 16-bit counter can hold.                 *)
TotalFits == MaxTotal < U16

(* A mastery table, whatever users and items its records are about.        *)
IsRecord(r) ==
  /\ r = [user |-> r.user, item |-> r.item, sched |-> r.sched]
  /\ r.sched \in Schedules

IsTable(s) ==
  /\ Len(s) \in Nat
  /\ s = [k \in 1..Len(s) |-> s[k]]
  /\ \A k \in 1..Len(s) : IsRecord(s[k])

(* Appending a record keeps a table a table.                               *)
LEMMA AppendedTable ==
  ASSUME NEW s, IsTable(s), NEW r, IsRecord(r)
  PROVE  /\ IsTable(Append(s, r))
         /\ Len(Append(s, r)) = Len(s) + 1
         /\ Append(s, r)[Len(s) + 1] = r
         /\ \A k \in 1..Len(s) : Append(s, r)[k] = s[k]
<1> DEFINE R == {s[k] : k \in 1..Len(s)} \cup {r}
<1>1. s \in Seq(R)
  <2>1. \E n \in Nat : s \in [1..n -> R]
    BY DEF IsTable
  <2> QED
    BY <2>1
<1>2. /\ Append(s, r) \in Seq(R) /\ Len(Append(s, r)) = Len(s) + 1
      /\ Append(s, r)[Len(s) + 1] = r
      /\ \A k \in 1..Len(s) : Append(s, r)[k] = s[k]
  BY <1>1
<1>3. Append(s, r) = [k \in 1..Len(Append(s, r)) |-> Append(s, r)[k]]
  <2>1. \A a \in Seq(R) : a = [k \in 1..Len(a) |-> a[k]]
    OBVIOUS
  <2> QED
    BY <1>2, <2>1
<1>4. \A k \in 1..Len(Append(s, r)) : IsRecord(Append(s, r)[k])
  BY <1>2 DEF IsTable
<1> QED
  BY <1>2, <1>3, <1>4 DEF IsTable

(* Replacing the schedule of one record changes that record only.          *)
Rescheduled(s, k, m) == [s EXCEPT ![k].sched = m]

(* It keeps a table a table, of the same length.                           *)
LEMMA RescheduledTable ==
  ASSUME NEW s, IsTable(s), NEW k \in 1..Len(s), NEW m \in Schedules,
         NEW t, t = Rescheduled(s, k, m)
  PROVE  /\ IsTable(t) /\ Len(t) = Len(s)
         /\ t[k].sched = m
         /\ \A j \in 1..Len(s) : j # k => t[j] = s[j]
<1> DEFINE R == {s[j] : j \in 1..Len(s)} \cup {[s[k] EXCEPT !.sched = m]}
<1>1. /\ DOMAIN s = 1..Len(s) /\ Len(s) \in Nat
      /\ IsRecord(s[k])
  BY DEF IsTable
<1>2. t = [j \in 1..Len(s) |-> IF j = k THEN [s[k] EXCEPT !.sched = m] ELSE s[j]]
  BY <1>1 DEF Rescheduled
<1>3. IsRecord([s[k] EXCEPT !.sched = m]) /\ [s[k] EXCEPT !.sched = m].sched = m
  BY <1>1 DEF IsRecord
<1>4. Len(t) = Len(s) /\ DOMAIN t = 1..Len(s)
  <2>1. t \in [1..Len(s) -> R]
    BY <1>2
  <2>2. t \in Seq(R)
    BY <1>1, <2>1
  <2> QED
    BY <1>1, <2>1, <2>2
<1> QED
  BY <1>1, <1>2, <1>3, <1>4 DEF IsTable

-----------------------------------------------------------------------------
(* The queue a review starts with.  What it needs of the tables:           *)
CanBuildQueue ==
  /\ IsTable(mastery) /\ now \in Nat /\ Uid \in KnownUsers
  /\ Len(items) \in Nat /\ DOMAIN items = 1..Len(items)
  /\ \A k \in DOMAIN items : items[k].id = k

(* and what it promises: a queue shorter than its buffer holds every       *)
(* overdue record.                                                         *)
QueueCovers(q) ==
  /\ Len(q) \in Nat /\ DOMAIN q = 1..Len(q)
  /\ Len(q) < BufferSize =>
       \A k \in DOMAIN mastery :
         (ListedFor(Uid, k) /\ NextReview(k) <= now) =>
           \E n \in DOMAIN q : q[n] = mastery[k].item

QueuesCover == \A s \in DueOrders : QueueCovers(DailyQueue(Uid, s, BufferSize))

LEMMA QueueBuilt == CanBuildQueue => QueuesCover
<1> SUFFICES ASSUME CanBuildQueue, NEW s \in DueOrders,
                    NEW q, q = DailyQueue(Uid, s, BufferSize)
             PROVE  QueueCovers(q)
  BY DEF QueuesCover
<1> DEFINE max == BufferSize
           h == Hits(Uid, s, max)
           d == DueItems(Uid, s, max)
           f == NewItems(Uid, DailyNewLimit)
<1>0. /\ IsJoined(q, d, f, max) /\ max \in Nat
      /\ Len(mastery) \in Nat /\ DOMAIN mastery = 1..Len(mastery)
  BY ReviewAssumption DEF DailyQueue, IsJoined, CanBuildQueue, IsTable
<1>1. \A k \in DOMAIN mastery : NextReview(k) \in Nat
  BY <1>0 DEF CanBuildQueue, IsTable, IsRecord, Schedules, NextReview
<1>2. /\ d = [n \in DOMAIN h |-> mastery[h[n]].item]
      /\ \E m \in 0..max : DOMAIN h = 1..m
      /\ \A k \in DOMAIN mastery :
           (ListedFor(Uid, k) /\ NextReview(k) <= now /\ \A n \in DOMAIN h : h[n] # k) =>
             DOMAIN h = 1..max
  BY <1>0, <1>1, HitsInOrder DEF CanBuildQueue
<1>3. \E j \in 0..DailyNewLimit : DOMAIN f = 1..j /\ f = [n \in 1..j |-> f[n]]
  BY NewInOrder, ConstantsAssumption DEF CanBuildQueue
<1> HIDE DEF h, d, f, max
<1>4. PICK m \in 0..max : DOMAIN h = 1..m /\ HasLength(d, m)
  BY <1>2 DEF HasLength
<1>5. PICK j \in Nat : HasLength(f, j)
  BY <1>3, ConstantsAssumption DEF HasLength
<1>6. PICK l \in 0..(max - m) : HasParts(q, d, m, f, l)
  BY <1>0, <1>4, <1>5, QueueParts
<1>7. Len(q) \in Nat /\ DOMAIN q = 1..Len(q)
  BY <1>0, <1>6 DEF HasParts
<1>8. ASSUME Len(q) < max, NEW k \in DOMAIN mastery, ListedFor(Uid, k), NextReview(k) <= now
      PROVE  \E n \in DOMAIN q : q[n] = mastery[k].item
  <2>1. m # max
    BY <1>0, <1>6, <1>8 DEF HasParts
  <2>2. DOMAIN h # 1..max
    <3>1. max \in 1..max /\ max \notin 1..m
      BY <1>0, <2>1
    <3> QED
      BY <1>4, <3>1
  <2>3. PICK n \in DOMAIN h : h[n] = k
    BY <1>2, <1>8, <2>2
  <2>4. n \in 1..m /\ n \in DOMAIN q
    BY <1>4, <1>6, <2>3 DEF HasParts
  <2>5. q[n] = mastery[h[n]].item
    BY <1>2, <1>4, <1>6, <2>4 DEF HasParts
  <2> QED
    BY <2>3, <2>4, <2>5
<1> QED
  BY <1>7, <1>8 DEF QueueCovers, max

(* The invariant: all records are the user's, the hash leads to the record *)
(* of the pair it is asked for, an item that is shown is one of the queue, *)
(* and the queue covers what was overdue.                                  *)
Mine(table) == \A k \in DOMAIN table : table[k].user = Uid

Filed ==
  \A p \in DOMAIN mastery_hash :
    /\ mastery_hash[p] \in DOMAIN mastery
    /\ p = <<mastery[mastery_hash[p]].user, mastery[mastery_hash[p]].item>>

InQueue ==
  /\ phase \in {"idle", "asking", "shown", "graded"} /\ pos \in Nat \ {0}
  /\ Len(queue) \in Nat /\ DOMAIN queue = 1..Len(queue)
  /\ phase \in {"shown", "graded"} => pos \in DOMAIN queue

OverdueCovered ==
  /\ CanBuildQueue /\ IsTable(disk)
  /\ Mine(mastery) /\ Mine(disk) /\ Filed /\ InQueue
  /\ ReviewCoversOverdue

(* What the promise of the queue depends on.                               *)
LEMMA SameCovered ==
  ASSUME OverdueCovered, UNCHANGED <<tables, mastery, mastery_hash, disk, queue, opened>>,
         now' \in Nat, InQueue', phase' # "idle" => phase # "idle"
  PROVE  OverdueCovered'
<1>1. CanBuildQueue' /\ IsTable(disk)' /\ Mine(mastery)' /\ Mine(disk)' /\ Filed'
  BY DEF OverdueCovered, CanBuildQueue, IsTable, KnownUsers, Mine, Filed, tables
<1>2. ReviewCoversOverdue'
  BY DEF OverdueCovered, ReviewCoversOverdue, NextReview
<1> QED
  BY <1>1, <1>2 DEF OverdueCovered

(* Before the first review.                                                *)
LEMMA CoveredInit == ReviewInit => OverdueCovered
<1> SUFFICES ASSUME ReviewInit PROVE OverdueCovered
  OBVIOUS
<1>1. /\ now = 0 /\ mastery = <<>> /\ disk = <<>> /\ phase = "idle" /\ pos = 1
      /\ queue = <<>> /\ DOMAIN mastery_hash = {}
  BY DEF ReviewInit
<1>2. IsTable(<<>>)
  BY DEF IsTable
<1>3. Uid \in KnownUsers
  BY DEF ReviewInit, KnownUsers
<1>4. /\ Len(items) \in Nat /\ DOMAIN items = 1..Len(items)
      /\ \A k \in DOMAIN items : items[k].id = k
  <2>1. Cardinality(Questions) \in Nat
    BY ReviewAssumption, FS_CardinalityType
  <2>2. PICK order \in [1..Cardinality(Questions) -> Questions] :
          items = [k \in DOMAIN order |-> [id |-> k, question |-> order[k]]]
    BY DEF ReviewInit
  <2>3. /\ items = [k \in 1..Cardinality(Questions) |-> [id |-> k, question |-> order[k]]]
        /\ \A k \in 1..Cardinality(Questions) : order[k] \in Questions
    BY <2>2
  <2>4. items \in [1..Cardinality(Questions) -> [id : Nat, question : Questions]]
    BY <2>1, <2>3
  <2>5. Len(items) = Cardinality(Questions) /\ DOMAIN items = 1..Cardinality(Questions)
    <3>1. items \in Seq([id : Nat, question : Questions])
      BY <2>1, <2>4, SeqDef, ZenonT(40)
    <3> QED
      BY <2>1, <2>4, <3>1, LenProperties
  <2> QED
    BY <2>1, <2>3, <2>5
<1>5. Len(queue) \in Nat /\ DOMAIN queue = 1..Len(queue)
  BY <1>1
<1> QED
  BY <1>1, <1>2, <1>3, <1>4, <1>5
     DEF OverdueCovered, CanBuildQueue, Mine, Filed, InQueue, ReviewCoversOverdue

(* A new process loads the file and asks for the queue.                    *)
LEMMA StartCovered ==
  ASSUME OverdueCovered, StartReview
  PROVE  OverdueCovered'
<1>1. /\ mastery' = disk /\ disk' = disk /\ mastery_hash' = RebuiltHash(disk)
      /\ UNCHANGED <<tables, now>> /\ due_sorted' \in DueOrders'
      /\ queue' = DailyQueue(Uid, due_sorted, BufferSize)'
      /\ phase' = "asking" /\ pos' = 1 /\ opened' = now
  BY DEF StartReview, saves
<1>2. /\ IsTable(disk) /\ now \in Nat /\ Mine(disk) /\ CanBuildQueue
  BY DEF OverdueCovered, CanBuildQueue
<1>3. CanBuildQueue' /\ IsTable(disk)'
  BY <1>1, <1>2 DEF CanBuildQueue, IsTable, KnownUsers, tables
<1>4. QueueCovers(queue)'
  <2>1. CanBuildQueue' => QueuesCover'
    BY QueueBuilt, PTL
  <2>2. QueuesCover'
    BY <1>3, <2>1
  <2> QED
    BY <1>1, <2>2 DEF QueuesCover
<1>5. Filed'
  <2> SUFFICES ASSUME NEW p \in DOMAIN RebuiltHash(disk)
               PROVE  /\ RebuiltHash(disk)[p] \in DOMAIN disk
                      /\ p = <<disk[RebuiltHash(disk)[p]].user, disk[RebuiltHash(disk)[p]].item>>
    BY <1>1 DEF Filed
  <2>1. \E k \in DOMAIN disk : <<disk[k].user, disk[k].item>> = p
    BY DEF RebuiltHash
  <2> QED
    BY <2>1 DEF RebuiltHash
<1>6. Mine(mastery)' /\ Mine(disk)'
  BY <1>1, <1>2 DEF Mine
<1>7. InQueue'
  BY <1>1, <1>4 DEF InQueue, QueueCovers
<1>8. ReviewCoversOverdue'
  <2>1. Mine(mastery)' /\ now' = now /\ opened' = now
    BY <1>1, <1>6
  <2> QED
    BY <1>4, <2>1 DEF QueueCovers, ReviewCoversOverdue, ListedFor, Mine, NextReview
<1> QED
  BY <1>3, <1>5, <1>6, <1>7, <1>8 DEF OverdueCovered

(* A question is shown: a new record waits for its first review, so it     *)
(* cannot be overdue.                                                      *)
LEMMA ShowCovered ==
  ASSUME OverdueCovered, Show
  PROVE  OverdueCovered'
<1>1. /\ phase = "asking" /\ pos <= Len(queue) /\ phase' = "shown"
      /\ UNCHANGED <<queue, pos, opened, disk>>
  BY DEF Show, saves
<1>2. InQueue'
  BY <1>1 DEF OverdueCovered, InQueue
<1>3. CASE UNCHANGED vars
  <2>1. now' \in Nat /\ UNCHANGED <<tables, mastery, mastery_hash>>
    BY <1>3 DEF vars, tables, OverdueCovered, CanBuildQueue
  <2> QED
    BY <1>1, <1>2, <2>1, SameCovered
<1>4. CASE GetOrCreateMastery(Uid, Item)
  <2> DEFINE r == [user |-> Uid, item |-> Item, sched |-> FreshSchedule]
             n == Len(mastery)
  <2>1. /\ mastery' = Append(mastery, r) /\ now' = now /\ UNCHANGED tables
        /\ mastery_hash' = [p \in DOMAIN mastery_hash \cup {<<Uid, Item>>} |->
                              IF p = <<Uid, Item>> THEN n + 1 ELSE mastery_hash[p]]
    BY <1>4 DEF GetOrCreateMastery, CreateMastery
  <2>2. /\ IsRecord(r) /\ r.user = Uid /\ r.item = Item /\ r.sched.status = "new"
    BY FreshType DEF IsRecord, FreshSchedule
  <2> HIDE DEF r
  <2>3. /\ IsTable(mastery') /\ Len(mastery') = n + 1 /\ mastery'[n + 1] = r
        /\ \A k \in 1..n : mastery'[k] = mastery[k]
        /\ DOMAIN mastery' = 1..(n + 1) /\ DOMAIN mastery = 1..n /\ n \in Nat
    <3>1. IsTable(mastery)
      BY DEF OverdueCovered, CanBuildQueue
    <3>2. /\ IsTable(mastery') /\ Len(mastery') = n + 1 /\ mastery'[n + 1] = r
          /\ \A k \in 1..n : mastery'[k] = mastery[k]
      BY <2>1, <2>2, <3>1, AppendedTable
    <3> QED
      BY <3>1, <3>2 DEF IsTable
  <2>4. \A k \in DOMAIN mastery' : k = n + 1 \/ (k \in DOMAIN mastery /\ mastery'[k] = mastery[k])
    BY <2>3
  <2>5. CanBuildQueue' /\ IsTable(disk)'
    BY <1>1, <2>1, <2>3 DEF OverdueCovered, CanBuildQueue, IsTable, KnownUsers, tables
  <2>6. Mine(mastery)' /\ Mine(disk)'
    BY <1>1, <2>2, <2>3, <2>4 DEF OverdueCovered, Mine
  <2>7. Filed'
    <3> SUFFICES ASSUME NEW p \in DOMAIN mastery_hash'
                 PROVE  /\ mastery_hash'[p] \in DOMAIN mastery'
                        /\ p = <<mastery'[mastery_hash'[p]].user, mastery'[mastery_hash'[p]].item>>
      BY DEF Filed
    <3>1. CASE p = <<Uid, Item>>
      <4>1. mastery_hash'[p] = n + 1 /\ n + 1 \in DOMAIN mastery'
        BY <2>1, <2>3, <3>1
      <4> QED
        BY <2>2, <2>3, <3>1, <4>1
    <3>2. CASE p # <<Uid, Item>>
      <4>1. p \in DOMAIN mastery_hash /\ mastery_hash'[p] = mastery_hash[p]
        BY <2>1, <3>2
      <4>2. /\ mastery_hash[p] \in 1..n
            /\ p = <<mastery[mastery_hash[p]].user, mastery[mastery_hash[p]].item>>
        BY <2>3, <4>1 DEF OverdueCovered, Filed
      <4>3. mastery'[mastery_hash[p]] = mastery[mastery_hash[p]] /\ mastery_hash[p] \in DOMAIN mastery'
        BY <2>3, <4>2
      <4> QED
        BY <4>1, <4>2, <4>3
    <3> QED
      BY <3>1, <3>2
  <2>8. ReviewCoversOverdue'
    <3> SUFFICES ASSUME Len(queue) < BufferSize, NEW k \in DOMAIN mastery',
                        mastery'[k].sched.status # "new", NextReview(k)' <= opened
                 PROVE  \E a \in DOMAIN queue : queue[a] = mastery'[k].item
      BY <1>1 DEF ReviewCoversOverdue
    <3>1. k \in DOMAIN mastery /\ mastery'[k] = mastery[k]
      BY <2>2, <2>3, <2>4
    <3> QED
      BY <1>1, <3>1 DEF OverdueCovered, ReviewCoversOverdue, NextReview
  <2> QED
    BY <1>2, <2>5, <2>6, <2>7, <2>8 DEF OverdueCovered
<1> QED
  BY <1>3, <1>4 DEF Show

(* An answer changes the record of the item at hand, which is in the queue,*)
(* and of that record only its schedule.                                   *)
LEMMA GradeCovered ==
  ASSUME OverdueCovered, NEW q \in Given, Grade(q)
  PROVE  OverdueCovered'
<1> DEFINE k == MasteryAt(Uid, Item)
           old == mastery[k].sched
<1>1. /\ phase = "shown" /\ phase' = "graded" /\ k # 0
      /\ UNCHANGED <<tables, mastery_hash, now, queue, pos, opened, disk>>
  BY DEF Grade, Answer, saves
<1>2. PICK m \in Sm2Update(old, q, now) : mastery' = [mastery EXCEPT ![k].sched = m]
  BY DEF Grade, Answer
<1>3. /\ k \in DOMAIN mastery /\ <<Uid, Item>> = <<mastery[k].user, mastery[k].item>>
      /\ DOMAIN mastery = 1..Len(mastery) /\ IsTable(mastery) /\ now \in Nat
  BY <1>1 DEF MasteryAt, OverdueCovered, CanBuildQueue, Filed, IsTable
<1>4. m \in Schedules
  <2>1. q \in Qualities /\ old \in Schedules
    BY <1>3, ConstantsAssumption DEF IsTable, IsRecord
  <2> QED
    BY <1>2, <1>3, <2>1, Sm2Type
<1>5. /\ IsTable(mastery') /\ Len(mastery') = Len(mastery)
      /\ \A j \in 1..Len(mastery) : j # k => mastery'[j] = mastery[j]
  <2>1. IsTable(mastery) /\ k \in 1..Len(mastery)
    BY <1>3
  <2>2. mastery' = Rescheduled(mastery, k, m)
    BY <1>2 DEF Rescheduled
  <2> HIDE DEF k
  <2> QED
    BY <1>4, <2>1, <2>2, RescheduledTable
<1>6. mastery'[k].user = mastery[k].user /\ mastery'[k].item = mastery[k].item
  <2>1. mastery'[k] = [mastery[k] EXCEPT !.sched = m]
    BY <1>2, <1>3
  <2>2. IsRecord(mastery[k])
    BY <1>3 DEF IsTable
  <2> HIDE DEF k
  <2> QED
    BY <2>1, <2>2 DEF IsRecord
<1>7. /\ DOMAIN mastery' = DOMAIN mastery
      /\ \A j \in DOMAIN mastery : mastery'[j].user = mastery[j].user /\ mastery'[j].item = mastery[j].item
  <2>1. DOMAIN mastery' = DOMAIN mastery
    BY <1>3, <1>5 DEF IsTable
  <2>2. \A j \in DOMAIN mastery : j = k \/ mastery'[j] = mastery[j]
    BY <1>3, <1>5
  <2> HIDE DEF k
  <2> QED
    BY <1>6, <2>1, <2>2
<1>8. CanBuildQueue' /\ IsTable(disk)'
  BY <1>1, <1>5 DEF OverdueCovered, CanBuildQueue, IsTable, KnownUsers, tables
<1>9. Mine(mastery)' /\ Mine(disk)' /\ Filed'
  BY <1>1, <1>7 DEF OverdueCovered, Mine, Filed
<1>10. InQueue'
  BY <1>1 DEF OverdueCovered, InQueue
<1>11. ReviewCoversOverdue'
  <2> SUFFICES ASSUME Len(queue) < BufferSize, NEW j \in DOMAIN mastery',
                      mastery'[j].sched.status # "new", NextReview(j)' <= opened
               PROVE  \E a \in DOMAIN queue : queue[a] = mastery'[j].item
    BY <1>1 DEF ReviewCoversOverdue
  <2>1. CASE j = k
    <3>1. mastery[k].item = queue[pos]
      BY <1>3 DEF Item
    <3>2. pos \in DOMAIN queue
      BY <1>1 DEF OverdueCovered, InQueue
    <3> QED
      BY <1>6, <2>1, <3>1, <3>2
  <2>2. CASE j # k
    <3>1. j \in DOMAIN mastery /\ mastery'[j] = mastery[j]
      BY <1>3, <1>5, <1>7, <2>2
    <3> QED
      BY <1>1, <3>1 DEF OverdueCovered, ReviewCoversOverdue, NextReview
  <2> QED
    BY <2>1, <2>2
<1> QED
  BY <1>8, <1>9, <1>10, <1>11 DEF OverdueCovered

(* Every step keeps what ReviewCoversOverdue needs.                        *)
LEMMA CoveredInductive ==
  ASSUME OverdueCovered, [ReviewNext]_reviewVars
  PROVE  OverdueCovered'
<1>1. CASE StartReview
  BY <1>1, StartCovered
<1>2. CASE Show
  BY <1>2, ShowCovered
<1>3. ASSUME NEW q \in Given, Grade(q) PROVE OverdueCovered'
  BY <1>3, GradeCovered
<1>4. CASE Save
  <2>1. /\ phase = "graded" /\ phase' = "asking" /\ disk' = mastery /\ pos' = pos + 1
        /\ UNCHANGED <<vars, queue, opened>>
    BY <1>4 DEF Save
  <2>2. CanBuildQueue' /\ IsTable(disk)' /\ Mine(mastery)' /\ Mine(disk)' /\ Filed'
    BY <2>1 DEF OverdueCovered, CanBuildQueue, IsTable, KnownUsers, Mine, Filed, vars
  <2>3. InQueue'
    BY <2>1 DEF OverdueCovered, InQueue
  <2>4. ReviewCoversOverdue'
    BY <2>1 DEF OverdueCovered, ReviewCoversOverdue, NextReview, vars
  <2> QED
    BY <2>2, <2>3, <2>4 DEF OverdueCovered
<1>9. CASE SaveFails
  <2>1. /\ phase = "graded" /\ phase' = "asking" /\ pos' = pos + 1
        /\ UNCHANGED <<tables, mastery, mastery_hash, now, disk, queue, opened>>
    BY <1>9 DEF SaveFails, vars, tables
  <2>2. InQueue' /\ now' \in Nat
    BY <2>1 DEF OverdueCovered, CanBuildQueue, InQueue
  <2> QED
    BY <2>1, <2>2, SameCovered
<1>5. CASE EndReview \/ CutShort
  <2>1. /\ phase' = "idle" /\ queue' = <<>> /\ pos' = 1 /\ mastery' = <<>>
        /\ DOMAIN mastery_hash' = {} /\ UNCHANGED <<tables, now, disk>>
    BY <1>5 DEF EndReview, CutShort, Gone
  <2>2. IsTable(<<>>)
    BY DEF IsTable
  <2>3. CanBuildQueue' /\ IsTable(disk)'
    BY <2>1, <2>2 DEF OverdueCovered, CanBuildQueue, KnownUsers, tables, IsTable
  <2>4. Mine(mastery)' /\ Mine(disk)' /\ Filed'
    BY <2>1 DEF OverdueCovered, Mine, Filed
  <2>5. InQueue' /\ ReviewCoversOverdue'
    <3>1. Len(queue') \in Nat /\ DOMAIN queue' = 1..Len(queue')
      BY <2>1
    <3> QED
      BY <2>1, <3>1 DEF InQueue, ReviewCoversOverdue
  <2> QED
    BY <2>3, <2>4, <2>5 DEF OverdueCovered
<1>6. CASE Skip
  <2>1. /\ phase = "shown" /\ phase' = "asking" /\ pos' = pos + 1
        /\ UNCHANGED <<tables, mastery, mastery_hash, now, disk, queue, opened>>
    BY <1>6 DEF Skip, vars, saves, tables
  <2>2. InQueue' /\ now' \in Nat
    BY <2>1 DEF OverdueCovered, CanBuildQueue, InQueue
  <2> QED
    BY <2>1, <2>2, SameCovered
<1>7. CASE Midnight
  <2>1. /\ now' = now + 1
        /\ UNCHANGED <<tables, mastery, mastery_hash, disk, phase, queue, pos, opened>>
    BY <1>7 DEF Midnight, NextDay, session, saves
  <2>2. InQueue' /\ now' \in Nat
    BY <2>1 DEF OverdueCovered, CanBuildQueue, InQueue
  <2> QED
    BY <2>1, <2>2, SameCovered
<1>8. CASE UNCHANGED reviewVars
  <2>1. UNCHANGED <<tables, mastery, mastery_hash, now, disk, phase, queue, pos, opened>>
    BY <1>8 DEF reviewVars, vars, session, saves, tables
  <2>2. InQueue' /\ now' \in Nat
    BY <2>1 DEF OverdueCovered, CanBuildQueue, InQueue
  <2> QED
    BY <2>1, <2>2, SameCovered
<1> QED
  BY <1>1, <1>2, <1>3, <1>4, <1>5, <1>6, <1>7, <1>8, <1>9 DEF ReviewNext, Step

(* Although engine.py never marks the due index dirty: a review whose      *)
(* queue is shorter than its buffer has every item that was overdue on the *)
(* day its process started, for any number of items, reviews and days and  *)
(* wherever reviews are left or killed.                                    *)
THEOREM NoOverdueItemLeftOut == ReviewSpec => []ReviewCoversOverdue
<1>1. OverdueCovered => ReviewCoversOverdue
  BY DEF OverdueCovered
<1> QED
  BY <1>1, CoveredInit, CoveredInductive, PTL DEF ReviewSpec

-----------------------------------------------------------------------------
(* The answers that are not in the file.  Besides what OverdueCovered says *)
(* of the tables this needs that no item has two records, in memory or in  *)
(* the file, and that answers whose save failed are answers of records     *)
(* there are: a new record starts without any.                             *)
Hashed == \A k \in DOMAIN mastery : MasteryAt(Uid, mastery[k].item) = k

OneEach(table) ==
  \A j, k \in DOMAIN table : table[j].item = table[k].item => j = k

HasRecord(i) == \E k \in DOMAIN mastery : mastery[k].item = i

AnswersSaved ==
  /\ Hashed /\ OneEach(disk)
  /\ \A i : Missed(i) \in Nat
  /\ \A i : Missed(i) # 0 => HasRecord(i)
  /\ phase = "graded" => HasRecord(Item)
  /\ phase = "idle" => \A i : Missed(i) = 0
  /\ OnlyUnsavedAnswersAtRisk

(* The reviews of a record are a number.                                   *)
LEMMA ReviewsAreCounted ==
  ASSUME NEW s, IsTable(s)
  PROVE  \A k : ReviewsAt(s, k) \in Nat
<1>1. \A m \in Schedules : m.total \in 0..(U16 - 1)
  BY DEF Schedules
<1>2. \A a, b : a \in 0..b => a \in Nat
  OBVIOUS
<1>3. DOMAIN s = 1..Len(s)
  BY DEF IsTable
<1> QED
  BY <1>1, <1>2, <1>3 DEF IsTable, IsRecord, ReviewsAt

(* Nothing is missed any more.                                             *)
LEMMA NothingMissed ==
  ASSUME missed' = NoneMissed
  PROVE  \A i : Missed(i)' = 0
BY DEF NoneMissed, Missed

(* Before the first review there are no records.                           *)
LEMMA AnswersInit == ReviewInit => AnswersSaved
<1> SUFFICES ASSUME ReviewInit PROVE AnswersSaved
  OBVIOUS
<1>1. /\ mastery = <<>> /\ disk = <<>> /\ phase = "idle"
      /\ missed = NoneMissed
  BY DEF ReviewInit
<1>2. \A i : Missed(i) = 0
  BY <1>1 DEF NoneMissed, Missed
<1> QED
  BY <1>1, <1>2 DEF AnswersSaved, OnlyUnsavedAnswersAtRisk, Hashed, OneEach

(* A step that leaves the records, the file and what is missed alone, and  *)
(* has no answer in hand or the same one as before.                        *)
LEMMA SameSaved ==
  ASSUME AnswersSaved, UNCHANGED <<mastery, mastery_hash, disk, missed>>,
         (phase' = "idle") = (phase = "idle"),
         (phase' = "graded") = (phase = "graded"),
         phase = "graded" => Item' = Item
  PROVE  AnswersSaved'
<1>1. /\ Hashed' /\ OneEach(disk)'
      /\ \A i : Missed(i)' = Missed(i)
      /\ \A i : HasRecord(i)' <=> HasRecord(i)
  BY DEF AnswersSaved, Hashed, MasteryAt, Uid, OneEach, Missed, HasRecord
<1>2. \A i : Unsaved(i)' = Unsaved(i)
  BY <1>1 DEF Unsaved
<1>3. OnlyUnsavedAnswersAtRisk'
  BY <1>2 DEF AnswersSaved, OnlyUnsavedAnswersAtRisk, ReviewsAt
<1> QED
  BY <1>1, <1>3 DEF AnswersSaved, HasRecord

(* A new process starts from the file.                                     *)
LEMMA StartSaved ==
  ASSUME OverdueCovered, AnswersSaved, StartReview
  PROVE  AnswersSaved'
<1>1. /\ mastery' = disk /\ disk' = disk /\ missed' = missed
      /\ mastery_hash' = RebuiltHash(disk) /\ phase = "idle" /\ phase' = "asking"
  BY DEF StartReview, saves
<1>2. OneEach(disk) /\ Mine(disk) /\ IsTable(disk)
  BY DEF AnswersSaved, OverdueCovered
<1>3. \A i : Missed(i) = 0 /\ Missed(i)' = 0
  BY <1>1 DEF AnswersSaved, Missed
<1>4. Hashed'
  <2> SUFFICES ASSUME NEW k \in DOMAIN disk
               PROVE  MasteryAt(Uid, disk[k].item)' = k
    BY <1>1 DEF Hashed, Uid
  <2> DEFINE p == <<Uid, disk[k].item>>
             H == RebuiltHash(disk)
  <2>1. p \in {<<disk[j].user, disk[j].item>> : j \in DOMAIN disk}
    BY <1>2 DEF Mine
  <2>2. /\ p \in DOMAIN H
        /\ H[p] = CHOOSE j \in DOMAIN disk : <<disk[j].user, disk[j].item>> = p
    BY <2>1 DEF RebuiltHash
  <2>3. H[p] \in DOMAIN disk /\ <<disk[H[p]].user, disk[H[p]].item>> = p
    <3>1. \E j \in DOMAIN disk : <<disk[j].user, disk[j].item>> = p
      BY <2>1
    <3> QED
      BY <2>2, <3>1
  <2>4. H[p] = k
    BY <1>2, <2>3 DEF OneEach
  <2> HIDE DEF H
  <2> QED
    BY <1>1, <2>2, <2>4 DEF MasteryAt, Uid, H
<1>5. OnlyUnsavedAnswersAtRisk'
  <2>1. \A k : ReviewsAt(disk, k) = ReviewsAt(disk, k) + 0
    BY <1>2, ReviewsAreCounted
  <2>2. \A i : Unsaved(i)' = 0
    BY <1>1, <1>3 DEF Unsaved
  <2> QED
    BY <1>1, <2>1, <2>2 DEF OnlyUnsavedAnswersAtRisk, ReviewsAt
<1> QED
  BY <1>1, <1>2, <1>3, <1>4, <1>5 DEF AnswersSaved, OneEach

(* A new record counts no review, and no answer of its item was missed.    *)
LEMMA ShowSaved ==
  ASSUME OverdueCovered, AnswersSaved, Show
  PROVE  AnswersSaved'
<1>1. /\ phase = "asking" /\ phase' = "shown" /\ disk' = disk /\ missed' = missed
      /\ queue' = queue /\ pos' = pos
  BY DEF Show, saves
<1>2. CASE UNCHANGED vars
  <2>1. UNCHANGED <<mastery, mastery_hash, disk, missed>>
    BY <1>1, <1>2 DEF vars
  <2> QED
    BY <1>1, <2>1, SameSaved
<1>3. CASE GetOrCreateMastery(Uid, Item)
  <2> DEFINE r == [user |-> Uid, item |-> Item, sched |-> FreshSchedule]
             n == Len(mastery)
  <2>1. /\ mastery' = Append(mastery, r) /\ MasteryAt(Uid, Item) = 0
        /\ mastery_hash' = [p \in DOMAIN mastery_hash \cup {<<Uid, Item>>} |->
                              IF p = <<Uid, Item>> THEN n + 1 ELSE mastery_hash[p]]
    BY <1>3 DEF GetOrCreateMastery, CreateMastery
  <2>2. IsRecord(r) /\ r.sched.total = 0 /\ r.item = Item
    BY FreshType DEF IsRecord, FreshSchedule
  <2> HIDE DEF r
  <2>3. /\ Len(mastery') = n + 1 /\ mastery'[n + 1] = r
        /\ \A k \in 1..n : mastery'[k] = mastery[k]
        /\ DOMAIN mastery' = 1..(n + 1) /\ DOMAIN mastery = 1..n /\ n \in Nat
    <3>1. IsTable(mastery)
      BY DEF OverdueCovered, CanBuildQueue
    <3>2. /\ IsTable(mastery') /\ Len(mastery') = n + 1 /\ mastery'[n + 1] = r
          /\ \A k \in 1..n : mastery'[k] = mastery[k]
      BY <2>1, <2>2, <3>1, AppendedTable
    <3> QED
      BY <3>1, <3>2 DEF IsTable
  <2>4. \A k \in DOMAIN mastery : k # 0
    BY <2>3
  <2>5. ~HasRecord(Item)
    BY <2>1, <2>4 DEF AnswersSaved, Hashed, HasRecord
  <2>6. Missed(Item) = 0 /\ \A i : Missed(i)' = Missed(i)
    BY <1>1, <2>5 DEF AnswersSaved, Missed
  <2>7. Hashed'
    <3> SUFFICES ASSUME NEW k \in DOMAIN mastery'
                 PROVE  MasteryAt(Uid, mastery[k].item)' = k
      BY DEF Hashed, Uid
    <3>1. CASE k = n + 1
      <4>1. mastery'[k].item = Item
        BY <2>2, <2>3, <3>1
      <4> QED
        BY <2>1, <3>1, <4>1 DEF MasteryAt, Uid
    <3>2. CASE k \in DOMAIN mastery
      <4>1. mastery'[k] = mastery[k] /\ mastery[k].item # Item
        BY <2>3, <2>5, <3>2 DEF HasRecord
      <4>2. MasteryAt(Uid, mastery[k].item) = k /\ k # 0
        BY <2>4, <3>2 DEF AnswersSaved, Hashed
      <4>3. <<Uid, mastery[k].item>> # <<Uid, Item>>
        BY <4>1
      <4> QED
        BY <2>1, <4>1, <4>2, <4>3 DEF MasteryAt, Uid
    <3> QED
      BY <2>3, <3>1, <3>2
  <2>8. \A i : HasRecord(i) => HasRecord(i)'
    BY <2>3 DEF HasRecord
  <2>9. \A i : Unsaved(i) = Missed(i) + 0 /\ Unsaved(i)' = Missed(i) + 0
    BY <1>1, <2>6 DEF Unsaved
  <2>10. OnlyUnsavedAnswersAtRisk'
    <3>1. DOMAIN disk' \subseteq DOMAIN mastery'
      BY <1>1, <2>3 DEF AnswersSaved, OnlyUnsavedAnswersAtRisk
    <3>2. ASSUME NEW k \in DOMAIN mastery'
          PROVE  ReviewsAt(mastery', k) = ReviewsAt(disk', k) + Unsaved(mastery[k].item)'
      <4>1. CASE k = n + 1
        <5>1. k \notin DOMAIN disk
          BY <1>1, <2>3, <4>1 DEF AnswersSaved, OnlyUnsavedAnswersAtRisk
        <5>2. ReviewsAt(mastery', k) = 0 /\ ReviewsAt(disk', k) = 0
          BY <1>1, <2>2, <2>3, <4>1, <5>1 DEF ReviewsAt
        <5>3. Unsaved(mastery[k].item)' = 0
          <6>1. mastery'[k].item = Item
            BY <2>2, <2>3, <4>1
          <6> QED
            BY <1>1, <2>6, <6>1 DEF Unsaved, Missed
        <5> QED
          BY <5>2, <5>3
      <4>2. CASE k \in DOMAIN mastery
        <5>1. ReviewsAt(mastery', k) = ReviewsAt(mastery, k)
              /\ mastery'[k] = mastery[k]
          BY <2>3, <4>2 DEF ReviewsAt
        <5>2. Unsaved(mastery[k].item)' = Unsaved(mastery[k].item)
          BY <1>1, <5>1 DEF Unsaved, Missed
        <5> QED
          BY <1>1, <4>2, <5>1, <5>2 DEF AnswersSaved, OnlyUnsavedAnswersAtRisk
      <4> QED
        BY <2>3, <4>1, <4>2
    <3> QED
      BY <3>1, <3>2 DEF OnlyUnsavedAnswersAtRisk
  <2> QED
    BY <1>1, <2>6, <2>7, <2>8, <2>10 DEF AnswersSaved, OneEach
<1> QED
  BY <1>2, <1>3 DEF Show

(* An answer counts one review more, of the record the hash finds, and is  *)
(* in hand from then on.                                                   *)
LEMMA GradeSaved ==
  ASSUME TotalFits, OverdueCovered, AnswersSaved, NEW q \in Given, Grade(q)
  PROVE  AnswersSaved'
<1> DEFINE k == MasteryAt(Uid, Item)
           old == mastery[k].sched
<1>1. /\ phase = "shown" /\ phase' = "graded" /\ disk' = disk
      /\ queue' = queue /\ pos' = pos /\ missed' = missed
      /\ mastery_hash' = mastery_hash /\ now' = now
      /\ k # 0 /\ old.total < MaxTotal
  BY DEF Grade, Answer, saves
<1>2. PICK m \in Sm2Update(old, q, now) : mastery' = [mastery EXCEPT ![k].sched = m]
  BY DEF Grade, Answer
<1>3. /\ IsTable(mastery) /\ IsTable(disk) /\ now \in Nat
      /\ DOMAIN mastery = 1..Len(mastery) /\ Len(mastery) \in Nat
      /\ DOMAIN disk \subseteq DOMAIN mastery
      /\ \A j \in DOMAIN mastery :
           ReviewsAt(mastery, j) = ReviewsAt(disk, j) + Unsaved(mastery[j].item)
  <2>1. IsTable(mastery) /\ IsTable(disk) /\ now \in Nat
    BY DEF OverdueCovered, CanBuildQueue
  <2>2. DOMAIN mastery = 1..Len(mastery) /\ Len(mastery) \in Nat
    BY <2>1 DEF IsTable
  <2> QED
    BY <1>1, <2>1, <2>2 DEF AnswersSaved, OnlyUnsavedAnswersAtRisk
<1>4. /\ k \in DOMAIN mastery /\ mastery[k].item = Item
      /\ old \in Schedules
  <2>1. /\ <<Uid, Item>> \in DOMAIN mastery_hash
        /\ k = mastery_hash[<<Uid, Item>>]
    BY <1>1 DEF MasteryAt
  <2>2. k \in DOMAIN mastery /\ <<Uid, Item>> = <<mastery[k].user, mastery[k].item>>
    BY <2>1 DEF OverdueCovered, Filed
  <2>3. IsRecord(mastery[k])
    BY <1>3, <2>2 DEF IsTable
  <2> HIDE DEF k
  <2> QED
    BY <2>2, <2>3 DEF IsRecord
<1>5. m \in Schedules /\ m.total = old.total + 1
  <2>1. q \in Qualities
    BY ConstantsAssumption
  <2>2. PICK i \in NextIntervals(old, q) : m = Reviewed(old, q, now, i)
    BY <1>2 DEF Sm2Update
  <2>3. old.total \in 0..(U16 - 1)
    BY <1>4 DEF Schedules
  <2>4. (old.total + 1) % U16 = old.total + 1
    <3> DEFINE n == old.total
    <3>1. n \in 0..(U16 - 1) /\ n < MaxTotal /\ MaxTotal < U16 /\ MaxTotal \in Nat
      BY <1>1, <2>3, ConstantsAssumption DEF TotalFits
    <3> HIDE DEF n
    <3>2. \A a \in Nat : a < U16 => a % U16 = a
      BY SMT DEF U16
    <3>3. U16 \in Nat /\ n \in Nat
      BY <3>1, SMTT(30) DEF U16
    <3>4. n + 1 \in Nat /\ n + 1 < U16
      BY <3>1, <3>3, SMT
    <3>5. (n + 1) % U16 = n + 1
      BY <3>2, <3>4
    <3> QED
      BY <3>5 DEF n
  <2> QED
    BY <1>2, <1>3, <1>4, <2>1, <2>2, <2>4, Sm2Type DEF Reviewed
<1>6. /\ IsTable(mastery') /\ Len(mastery') = Len(mastery)
      /\ mastery'[k].sched = m
      /\ \A j \in 1..Len(mastery) : j # k => mastery'[j] = mastery[j]
  <2>1. m \in Schedules
    BY <1>5
  <2>2. IsTable(mastery) /\ k \in 1..Len(mastery)
    BY <1>3, <1>4
  <2>3. mastery' = Rescheduled(mastery, k, m)
    BY <1>2 DEF Rescheduled
  <2> HIDE DEF k
  <2> QED
    BY <2>1, <2>2, <2>3, RescheduledTable
<1>7. mastery'[k].item = mastery[k].item
  <2>1. mastery'[k] = [mastery[k] EXCEPT !.sched = m]
    BY <1>2, <1>4
  <2>2. IsRecord(mastery[k])
    BY <1>3, <1>4 DEF IsTable
  <2> HIDE DEF k
  <2> QED
    BY <2>1, <2>2 DEF IsRecord
<1>8. /\ DOMAIN mastery' = DOMAIN mastery
      /\ \A j \in DOMAIN mastery : mastery'[j].item = mastery[j].item
  <2>1. DOMAIN mastery' = DOMAIN mastery
    BY <1>3, <1>6 DEF IsTable
  <2>2. \A j \in DOMAIN mastery : j = k \/ mastery'[j] = mastery[j]
    BY <1>3, <1>6
  <2> HIDE DEF k
  <2> QED
    BY <1>7, <2>1, <2>2
<1>9. /\ Item' = Item
      /\ \A i : Missed(i)' = Missed(i) /\ Missed(i) \in Nat
      /\ \A i : HasRecord(i)' <=> HasRecord(i)
      /\ HasRecord(Item)
  BY <1>1, <1>4, <1>8 DEF Item, Missed, HasRecord, AnswersSaved
<1>10. Hashed'
  BY <1>1, <1>8 DEF Hashed, AnswersSaved, MasteryAt, Uid
<1>11. /\ \A i : Unsaved(i) = Missed(i) + 0
       /\ \A j \in DOMAIN mastery :
            Unsaved(mastery[j].item)' =
              Missed(mastery[j].item) + (IF mastery[j].item = Item THEN 1 ELSE 0)
  BY <1>1, <1>8, <1>9 DEF Unsaved, Missed
<1>12. ASSUME NEW j \in DOMAIN mastery
       PROVE  ReviewsAt(mastery', j) = ReviewsAt(disk, j) + Unsaved(mastery[j].item)'
  <2>1. /\ ReviewsAt(mastery, j) = ReviewsAt(disk, j) + (Missed(mastery[j].item) + 0)
        /\ ReviewsAt(disk, j) \in Nat /\ Missed(mastery[j].item) \in Nat
    BY <1>3, <1>9, <1>11, ReviewsAreCounted
  <2>2. CASE j = k
    <3>1. /\ ReviewsAt(mastery', j) = old.total + 1 /\ ReviewsAt(mastery, j) = old.total
          /\ mastery[j].item = Item
      BY <1>4, <1>5, <1>6, <1>8, <2>2 DEF ReviewsAt
    <3>2. Unsaved(mastery[j].item)' = Missed(mastery[j].item) + 1
      BY <1>11, <3>1
    <3> HIDE DEF k, old
    <3> QED
      BY <2>1, <3>1, <3>2
  <2>3. CASE j # k
    <3>1. mastery[j].item # Item
      <4>1. MasteryAt(Uid, mastery[j].item) = j
        BY DEF AnswersSaved, Hashed
      <4> QED
        BY <2>3, <4>1
    <3>2. ReviewsAt(mastery', j) = ReviewsAt(mastery, j)
      BY <1>3, <1>6, <1>8, <2>3 DEF ReviewsAt
    <3>3. Unsaved(mastery[j].item)' = Missed(mastery[j].item) + 0
      BY <1>11, <3>1
    <3> QED
      BY <2>1, <3>2, <3>3
  <2> QED
    BY <2>2, <2>3
<1>13. OnlyUnsavedAnswersAtRisk'
  BY <1>1, <1>3, <1>8, <1>12 DEF OnlyUnsavedAnswersAtRisk, ReviewsAt
<1> QED
  BY <1>1, <1>9, <1>10, <1>13 DEF AnswersSaved, OneEach

(* A save makes the file what the memory is.                               *)
LEMMA SaveSaved ==
  ASSUME OverdueCovered, AnswersSaved, Save
  PROVE  AnswersSaved'
<1>1. /\ phase = "graded" /\ phase' = "asking" /\ disk' = mastery
      /\ missed' = NoneMissed
      /\ mastery' = mastery /\ mastery_hash' = mastery_hash
  BY DEF Save, vars
<1>2. /\ \A i : Missed(i)' = 0
      /\ \A i : Unsaved(i)' = 0
  <2>1. \A i : Missed(i)' = 0
    BY <1>1, NothingMissed
  <2> QED
    BY <1>1, <2>1 DEF Unsaved
<1>3. Hashed' /\ OneEach(disk)'
  <2>1. \A k \in DOMAIN mastery : MasteryAt(Uid, mastery[k].item) = k
    BY DEF AnswersSaved, Hashed
  <2>2. OneEach(mastery)
    BY <2>1 DEF OneEach
  <2> QED
    BY <1>1, <2>1, <2>2 DEF Hashed, OneEach, MasteryAt, Uid
<1>4. \A k : ReviewsAt(mastery, k) = ReviewsAt(mastery, k) + 0
  BY ReviewsAreCounted DEF OverdueCovered, CanBuildQueue
<1>5. OnlyUnsavedAnswersAtRisk'
  BY <1>1, <1>2, <1>4 DEF OnlyUnsavedAnswersAtRisk, ReviewsAt
<1> QED
  BY <1>1, <1>2, <1>3, <1>5 DEF AnswersSaved

(* A save that fails leaves the answer in hand among those that are missed.*)
LEMMA SaveFailsSaved ==
  ASSUME AnswersSaved, SaveFails
  PROVE  AnswersSaved'
<1>1. /\ phase = "graded" /\ phase' = "asking"
      /\ mastery' = mastery /\ mastery_hash' = mastery_hash /\ disk' = disk
      /\ missed' = [i \in DOMAIN missed \cup {Item} |->
                      Missed(i) + (IF i = Item THEN 1 ELSE 0)]
  BY DEF SaveFails, vars
<1>2. \A i : Missed(i) \in Nat
  BY DEF AnswersSaved
<1>3. \A i : Missed(i)' = Missed(i) + (IF i = Item THEN 1 ELSE 0)
  <2> SUFFICES ASSUME NEW i
               PROVE  Missed(i)' = Missed(i) + (IF i = Item THEN 1 ELSE 0)
    OBVIOUS
  <2>1. CASE i \in DOMAIN missed \cup {Item}
    BY <1>1, <2>1 DEF Missed
  <2>2. CASE i \notin DOMAIN missed \cup {Item}
    <3>1. Missed(i)' = 0 /\ Missed(i) = 0 /\ i # Item
      BY <1>1, <2>2 DEF Missed
    <3> QED
      BY <3>1
  <2> QED
    BY <2>1, <2>2
<1>4. \A i : /\ Unsaved(i) = Missed(i) + (IF i = Item THEN 1 ELSE 0)
             /\ Unsaved(i)' = Missed(i)' + 0
  BY <1>1 DEF Unsaved
<1>5. \A i : Missed(i)' \in Nat /\ Unsaved(i)' = Unsaved(i)
  <2>1. ASSUME NEW i PROVE Missed(i)' \in Nat /\ Unsaved(i)' = Unsaved(i)
    <3>1. Missed(i)' \in Nat
      BY <1>2, <1>3
    <3>2. Unsaved(i)' = Missed(i)'
      BY <1>4, <3>1
    <3> QED
      BY <1>3, <1>4, <3>1, <3>2
  <2> QED
    BY <2>1
<1>6. \A i : Missed(i)' # 0 => HasRecord(i)'
  <2> SUFFICES ASSUME NEW i, Missed(i)' # 0 PROVE HasRecord(i)'
    OBVIOUS
  <2>1. HasRecord(i)
    <3>1. CASE i = Item
      BY <1>1, <3>1 DEF AnswersSaved
    <3>2. CASE i # Item
      <4>1. Missed(i)' = Missed(i) + 0
        BY <1>3, <3>2
      <4>2. Missed(i) # 0
        BY <4>1
      <4> QED
        BY <4>2 DEF AnswersSaved
    <3> QED
      BY <3>1, <3>2
  <2> QED
    BY <1>1, <2>1 DEF HasRecord
<1>7. OnlyUnsavedAnswersAtRisk'
  BY <1>1, <1>5 DEF AnswersSaved, OnlyUnsavedAnswersAtRisk, ReviewsAt
<1>8. Hashed' /\ OneEach(disk)'
  BY <1>1 DEF AnswersSaved, Hashed, OneEach, MasteryAt, Uid
<1> QED
  BY <1>1, <1>5, <1>6, <1>7, <1>8 DEF AnswersSaved

(* The end of the process, planned or not, leaves the file as it is.       *)
LEMMA GoneSaved ==
  ASSUME AnswersSaved, Gone
  PROVE  AnswersSaved'
<1>1. /\ phase' = "idle" /\ mastery' = <<>> /\ disk' = disk
      /\ missed' = NoneMissed
  BY DEF Gone
<1>2. \A i : Missed(i)' = 0
  BY <1>1, NothingMissed
<1> QED
  BY <1>1, <1>2 DEF AnswersSaved, OnlyUnsavedAnswersAtRisk, Hashed, OneEach

(* Every step keeps what OnlyUnsavedAnswersAtRisk needs.                   *)
LEMMA AnswersInductive ==
  ASSUME TotalFits, OverdueCovered, AnswersSaved, [ReviewNext]_reviewVars
  PROVE  AnswersSaved'
<1>1. CASE StartReview
  BY <1>1, StartSaved
<1>2. CASE Show
  BY <1>2, ShowSaved
<1>3. ASSUME NEW q \in Given, Grade(q) PROVE AnswersSaved'
  BY <1>3, GradeSaved
<1>4. CASE Save
  BY <1>4, SaveSaved
<1>5. CASE SaveFails
  BY <1>5, SaveFailsSaved
<1>6. CASE EndReview \/ CutShort
  BY <1>6, GoneSaved DEF EndReview, CutShort
<1>7. CASE Skip
  <2>1. /\ phase = "shown" /\ phase' = "asking"
        /\ UNCHANGED <<mastery, mastery_hash, disk, missed>>
    BY <1>7 DEF Skip, vars, saves
  <2> QED
    BY <2>1, SameSaved
<1>8. CASE Midnight
  <2>1. UNCHANGED <<mastery, mastery_hash, disk, missed, phase, queue, pos>>
    BY <1>8 DEF Midnight, NextDay, session, saves
  <2> QED
    BY <2>1, SameSaved DEF Item
<1>9. CASE UNCHANGED reviewVars
  <2>1. UNCHANGED <<mastery, mastery_hash, disk, missed, phase, queue, pos>>
    BY <1>9 DEF reviewVars, vars, session, saves
  <2> QED
    BY <2>1, SameSaved DEF Item
<1> QED
  BY <1>1, <1>2, <1>3, <1>4, <1>5, <1>6, <1>7, <1>8, <1>9 DEF ReviewNext, Step

(* However many items, reviews and days there are, wherever reviews are    *)
(* left or killed and whichever saves fail: while a review runs, the file  *)
(* counts every review of every record that the memory counts, but for     *)
(* the answers whose saves failed and the one in hand.                     *)
THEOREM OnlyTheUnsavedAtRisk ==
  ASSUME TotalFits
  PROVE  ReviewSpec => []OnlyUnsavedAnswersAtRisk
<1>1. AnswersSaved => OnlyUnsavedAnswersAtRisk
  BY DEF AnswersSaved
<1> QED
  BY <1>1, CoveredInit, CoveredInductive, AnswersInit, AnswersInductive, PTL DEF ReviewSpec
=============================================================================
