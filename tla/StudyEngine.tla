---------------------------- MODULE StudyEngine ----------------------------
(***************************************************************************)
(* The in-memory database of wordcard.c behind one wordcard_db_t handle,   *)
(* used by one thread at a time (every call holds g_db_mutex): the item,   *)
(* user and mastery tables, their hash indexes, the lazily rebuilt due     *)
(* index, and the queue wc_generate_daily_queue builds from them.          *)
(*                                                                         *)
(* A table is a sequence and a row index is a position in it (the code     *)
(* counts from 0, so its index is the position minus one).  A hash index   *)
(* maps a key to a position; 0 stands for "not in the hash".               *)
(* The six skill dimensions are left to MasteryCard.                       *)
(***************************************************************************)
EXTENDS Mastery, Sequences, FiniteSets

CONSTANTS
  Questions,        \* the distinct questions that are ever added
  Uids,             \* the distinct dingtalk_uid values
  Long,             \* those of them that are cut when they are stored:
                    \* questions of 128 bytes and more, uids of 64 and more
  DailyNewLimit,    \* daily_new_limit of every user
  Notifies,         \* do clients call wc_notify_mastery_changed after
                    \* wc_sm2_update? test_sm2.c does, engine.py cannot:
                    \* {TRUE}, {FALSE}, or both
  Given,            \* the qualities clients report
  MaxRows,          \* bound: rows of the item table, and of the user table
  MaxTotal,         \* bound: reviews of one record
  MaxDay            \* bound on the clock

ASSUME ConstantsAssumption ==
  /\ DailyNewLimit \in Nat
  /\ Notifies \subseteq BOOLEAN
  /\ Given \subseteq Qualities
  /\ MaxRows \in Nat
  /\ MaxTotal \in Nat
  /\ MaxDay \in Nat

VARIABLES
  items,            \* <<[id, question], ...>>
  question_hash,    \* question -> position in items
  users,            \* <<[id, uid], ...>>
  user_hash,        \* uid -> position in users
  mastery,          \* <<[user, item, sched], ...>>
  mastery_hash,     \* <<user id, item id>> -> position in mastery
  due_sorted,       \* mastery positions in next_review order, as last built
  due_dirty,        \* mastery_due_dirty
  now,              \* the clock, in days
  stale             \* history: has a record changed since the due index was
                    \* sorted, with nothing that marks the index dirty?

tables == <<items, question_hash, users, user_hash>>
vars   == <<items, question_hash, users, user_hash,
            mastery, mastery_hash, due_sorted, due_dirty, now, stale>>

Ids     == Nat \ {0}
Pairs   == Ids \X Ids
ItemRow == [id : Ids, question : Questions]
UserRow == [id : Ids, uid : Uids]
Record  == [user : Ids, item : Ids, sched : Schedules]

(* Mutant of NextId: the first id is 0.                                    *)
NextIdFromZero(table) ==
  IF table = <<>> THEN 0 ELSE table[Len(table)].id + 1

(* The id a new row gets: one more than the id of the last row.            *)
NextId(table) == IF table = <<>> THEN 1 ELSE table[Len(table)].id + 1

(* str_hash_get compares the key it is asked for with the stored copy,     *)
(* which str_hash_set cuts to 127 bytes and user_t to 63: a long name is   *)
(* never found again.  (That it may be found under its own prefix is left  *)
(* out: the prefixes are not among the names.)                             *)
FoundAt(hash, name) == IF name \in Long THEN 0 ELSE hash[name]

(* mastery_hash: the position of the record of a pair, 0 without one.  A   *)
(* function with a finite domain: the pairs that were ever inserted.       *)
MasteryAt(u, i) ==
  IF <<u, i>> \in DOMAIN mastery_hash THEN mastery_hash[<<u, i>>] ELSE 0

KnownUsers == {users[k].id : k \in DOMAIN users}
KnownItems == {items[k].id : k \in DOMAIN items}

-----------------------------------------------------------------------------
(* The due index *)

NextReview(k) == mastery[k].sched.next

(* The orders qsort may produce (it is not stable): every position occurs, *)
(* by next_review.                                                         *)
DueOrders ==
  {s \in [DOMAIN mastery -> DOMAIN mastery] :
     /\ \A k \in DOMAIN mastery : \E a \in DOMAIN mastery : s[a] = k
     /\ \A a, b \in DOMAIN mastery : a < b => NextReview(s[a]) <= NextReview(s[b])}

(* Mutant of IndexIsCurrent: only the size is compared.                    *)
IndexIsCurrentBySize == Len(due_sorted) = Len(mastery)

IndexIsCurrent == ~due_dirty /\ Len(due_sorted) = Len(mastery)

(* What mastery_due_sorted can hold after rebuild_due_index.               *)
RebuiltOrders == IF IndexIsCurrent THEN {due_sorted} ELSE DueOrders

RebuildDueIndex ==
  /\ due_sorted' \in RebuiltOrders
  /\ due_dirty' = FALSE

(* The positions of the index that wc_get_due_items visits: it stops at    *)
(* the first record that is not due yet.                                   *)
Visited(s) == {k \in DOMAIN s : \A j \in 1..k : NextReview(s[j]) <= now}

ListedFor(u, k) == mastery[k].user = u /\ mastery[k].sched.status # "new"

(* The n-th smallest number of a finite set.                               *)
Nth(S, n) == CHOOSE k \in S : Cardinality({j \in S : j < k}) = n - 1

(* What a scan of an array has collected in its output buffer of max       *)
(* places: those of the positions in S it comes to first.                  *)
Collected(S, max) ==
  [n \in 1..(IF Cardinality(S) <= max THEN Cardinality(S) ELSE max) |-> Nth(S, n)]

(* wc_get_due_items with the index s: at most max item ids.                *)
DueItems(u, s, max) ==
  LET hits == Collected({a \in Visited(s) : ListedFor(u, s[a])}, max)
  IN  [n \in DOMAIN hits |-> mastery[s[hits[n]]].item]

(* Mutant of NewItems: studied items are not left out.                     *)
NewItemsUnfiltered(u, max) ==
  LET rows == Collected(DOMAIN items, max)
  IN  [n \in DOMAIN rows |-> items[rows[n]].id]

(* wc_get_new_items: items without a mastery record, in table order.       *)
(* Every caller passes source_id 0, so the filter by source is left out.   *)
NewItems(u, max) ==
  LET fresh == Collected({a \in DOMAIN items : MasteryAt(u, items[a].id) = 0}, max)
  IN  [n \in DOMAIN fresh |-> items[fresh[n]].id]

AtMost(s, n) == IF Len(s) <= n THEN s ELSE SubSeq(s, 1, n)

(* wc_generate_daily_queue: the due items first, then up to daily_new_limit*)
(* new ones while there is room.                                           *)
DailyQueue(u, s, max) ==
  IF u \notin KnownUsers THEN <<>>
  ELSE LET due == DueItems(u, s, max)
       IN  due \o AtMost(NewItems(u, DailyNewLimit), max - Len(due))

-----------------------------------------------------------------------------
(* wc_db_init *)
Init ==
  /\ items = <<>> /\ question_hash = [q \in Questions |-> 0]
  /\ users = <<>> /\ user_hash = [d \in Uids |-> 0]
  /\ mastery = <<>> /\ mastery_hash = [p \in {} |-> 0]
  /\ due_sorted = <<>>
  /\ due_dirty = TRUE
  /\ now = 0
  /\ stale = FALSE

(* Mutant of AddItem: the hash is not asked first.                         *)
AddItemUnchecked(q) ==
  /\ Len(items) < MaxRows
  /\ items' = Append(items, [id |-> NextId(items), question |-> q])
  /\ question_hash' = [question_hash EXCEPT ![q] = Len(items) + 1]
  /\ UNCHANGED <<users, user_hash, mastery, mastery_hash,
                 due_sorted, due_dirty, now, stale>>

(* wc_add_item: refuses a question that is in the hash.                    *)
AddItem(q) ==
  /\ FoundAt(question_hash, q) = 0 /\ Len(items) < MaxRows
  /\ items' = Append(items, [id |-> NextId(items), question |-> q])
  /\ question_hash' = [question_hash EXCEPT ![q] = Len(items) + 1]
  /\ UNCHANGED <<users, user_hash, mastery, mastery_hash,
                 due_sorted, due_dirty, now, stale>>

(* wc_create_user: refuses a dingtalk_uid that is in the hash.             *)
CreateUser(d) ==
  /\ FoundAt(user_hash, d) = 0 /\ Len(users) < MaxRows
  /\ users' = Append(users, [id |-> NextId(users), uid |-> d])
  /\ user_hash' = [user_hash EXCEPT ![d] = Len(users) + 1]
  /\ UNCHANGED <<items, question_hash, mastery, mastery_hash,
                 due_sorted, due_dirty, now, stale>>

(* Mutant of CreateMastery: the hash gets the count before the append.     *)
CreateMasteryOffByOne(u, i) ==
  /\ mastery' = Append(mastery, [user |-> u, item |-> i, sched |-> FreshSchedule])
  /\ mastery_hash' = [p \in DOMAIN mastery_hash \cup {<<u, i>>} |->
                        IF p = <<u, i>> THEN Len(mastery) ELSE mastery_hash[p]]
  /\ due_dirty' = TRUE /\ stale' = FALSE

CreateMastery(u, i) ==
  /\ mastery' = Append(mastery, [user |-> u, item |-> i, sched |-> FreshSchedule])
  /\ mastery_hash' = [p \in DOMAIN mastery_hash \cup {<<u, i>>} |->
                        IF p = <<u, i>> THEN Len(mastery) + 1
                        ELSE mastery_hash[p]]
  /\ due_dirty' = TRUE /\ stale' = FALSE

(* wc_get_or_create_mastery when there is no record yet (when there is one *)
(* it only returns it).                                                    *)
GetOrCreateMastery(u, i) ==
  /\ MasteryAt(u, i) = 0
  /\ CreateMastery(u, i)
  /\ UNCHANGED <<tables, due_sorted, now>>

(* A client answers: wc_sm2_update on a record it got from                 *)
(* wc_find_mastery or wc_get_or_create_mastery, followed at once by        *)
(* wc_notify_mastery_changed if it is a client that does so.  An answer    *)
(* that finds the index clean and is not reported leaves it stale.         *)
Answer(u, i, q) ==
  LET k == MasteryAt(u, i) IN
  /\ k # 0
  /\ mastery[k].sched.total < MaxTotal
  /\ \E m \in Sm2Update(mastery[k].sched, q, now) :
        mastery' = [mastery EXCEPT ![k].sched = m]
  /\ \E notified \in Notifies : due_dirty' = (due_dirty \/ notified)
  /\ stale' = ~due_dirty'
  /\ UNCHANGED <<tables, mastery_hash, due_sorted, now>>

(* wc_get_due_items, and wc_generate_daily_queue for a user that exists:   *)
(* both answer from the index they first bring up to date.                 *)
AskWhatIsDue ==
  /\ RebuildDueIndex
  /\ UNCHANGED <<tables, mastery, mastery_hash, now, stale>>

(* One process saves and goes, the next one loads what it saved, as every  *)
(* command of cli.py and every request of api.py does: rebuild_indexes     *)
(* makes the hashes again, which comes to what they were, and always sorts *)
(* the due index.  (What a load finds after a save that failed is          *)
(* DbFile's and CliReview's.)                                              *)
Reload ==
  /\ due_sorted' \in DueOrders
  /\ due_dirty' = FALSE /\ stale' = FALSE
  /\ UNCHANGED <<tables, mastery, mastery_hash, now>>

NextDay ==
  /\ now < MaxDay
  /\ now' = now + 1
  /\ UNCHANGED <<tables, mastery, mastery_hash, due_sorted, due_dirty, stale>>

Next ==
  \/ \E q \in Questions : AddItem(q)
  \/ \E d \in Uids : CreateUser(d)
  \/ \E u \in KnownUsers, i \in KnownItems : GetOrCreateMastery(u, i)
  \/ \E u \in KnownUsers, i \in KnownItems, q \in Given : Answer(u, i, q)
  \/ AskWhatIsDue
  \/ Reload
  \/ NextDay

Spec == Init /\ [][Next]_vars

-----------------------------------------------------------------------------
TypeOK ==
  /\ items \in Seq(ItemRow)
  /\ question_hash \in [Questions -> Nat]
  /\ users \in Seq(UserRow)
  /\ user_hash \in [Uids -> Nat]
  /\ mastery \in Seq(Record)
  /\ DOMAIN mastery_hash \subseteq Pairs
  /\ mastery_hash \in [DOMAIN mastery_hash -> Nat]
  /\ due_sorted \in Seq(Nat)
  /\ due_dirty \in BOOLEAN
  /\ now \in Nat
  /\ stale \in BOOLEAN

(* An item id names one question for ever: ids are positions, the hash     *)
(* finds exactly the rows of the table, and no short question has two rows.*)
ItemsIndexed ==
  /\ \A k \in DOMAIN items :
        /\ items[k].id = k
        /\ items[k].question \notin Long => question_hash[items[k].question] = k
  /\ \A q \in Questions : question_hash[q] # 0
       => question_hash[q] \in DOMAIN items /\ items[question_hash[q]].question = q

(* The same for users and their dingtalk_uid.                              *)
UsersIndexed ==
  /\ \A k \in DOMAIN users :
        /\ users[k].id = k
        /\ users[k].uid \notin Long => user_hash[users[k].uid] = k
  /\ \A d \in Uids : user_hash[d] # 0
       => user_hash[d] \in DOMAIN users /\ users[user_hash[d]].uid = d

(* Both: whatever is added in whatever order, an id or a short key names   *)
(* one row, and a lookup comes to that row.                                *)
RecordsIndexed == ItemsIndexed /\ UsersIndexed

(* One mastery record per user and item: every record is the one the hash  *)
(* finds under its own pair, so no review is split between two records.    *)
MasteryIndexed ==
  /\ \A k \in DOMAIN mastery :
        MasteryAt(mastery[k].user, mastery[k].item) = k
  /\ \A p \in DOMAIN mastery_hash : mastery_hash[p] \in DOMAIN mastery

(* What is due for u by the records themselves.                            *)
Overdue(u) ==
  {mastery[k].item : k \in {n \in DOMAIN mastery :
                              ListedFor(u, n) /\ NextReview(n) <= now}}

ListedItems(u, s) ==
  {mastery[s[k]].item : k \in {n \in Visited(s) : ListedFor(u, s[n])}}

(* wc_get_due_items answers exactly what the records say: the cached order *)
(* is never so old that stopping at the first future date hides a due item *)
(* or lets a future one through.  This holds until the first answer that   *)
(* is not reported after the index was sorted, and again as soon as the    *)
(* index is marked dirty: for a client that reports its answers always,    *)
(* for one that does not in the first query after a load.                  *)
DueIndexExact ==
  ~stale =>
    \A s \in RebuiltOrders, u \in KnownUsers : ListedItems(u, s) = Overdue(u)

(* The daily queue never holds an item twice, and within a short buffer    *)
(* the most overdue items come first; under the same condition.            *)
QueueWellFormed ==
  ~stale => \A s \in RebuiltOrders, u \in KnownUsers, max \in 1..3 :
    LET queue == DailyQueue(u, s, max)
        date(i) == NextReview(MasteryAt(u, i))
    IN  /\ \A a, b \in DOMAIN queue : queue[a] = queue[b] => a = b
        /\ \A i \in Overdue(u) : i \notin {queue[k] : k \in DOMAIN queue}
             => \A k \in DOMAIN queue : /\ queue[k] \in Overdue(u)
                                        /\ date(queue[k]) <= date(i)
=============================================================================
