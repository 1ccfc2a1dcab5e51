----------------------------- MODULE CliReview -----------------------------
(***************************************************************************)
(* "wordcard review" (cmd_review of cli.py) over the database engine: a    *)
(* process that loads the file, asks for the daily queue once, walks it,   *)
(* and saves after every answer.  Several reviews happen one after the     *)
(* other, on the same or on later days; any of them may be killed, or left *)
(* with Ctrl-C or end of file, at any point.                               *)
(*                                                                         *)
(* The items were imported and the user (uid 1) created before, and only   *)
(* their mastery records change: disk is the mastery table in the file.    *)
(* wc_save_db is taken as one step here, which replaces the file or fails  *)
(* and leaves it; DbFile opens it up.                                      *)
(***************************************************************************)
EXTENDS StudyEngine

CONSTANTS
  BufferSize,       \* the 20 of cmd_review
  MaxLazyDay,       \* bound on the clock of a learner who is not diligent
  MaxCrashes,       \* bound: reviews that are cut short
  MaxFailures       \* bound: saves that fail

ASSUME ReviewAssumption ==
  /\ BufferSize \in Nat \ {0} /\ MaxLazyDay \in Nat
  /\ MaxCrashes \in Nat /\ MaxFailures \in Nat
  /\ Notifies = {FALSE} /\ IsFiniteSet(Questions) /\ Cardinality(Uids) = 1

VARIABLES
  phase,            \* where cmd_review is; "idle": no process
  queue,            \* the item ids it got from daily_queue
  pos,              \* the one it is at
  disk,             \* the mastery table in data/wordcard.db
  opened,           \* history: the day the process started
  done,             \* was there nothing to review today?
  diligent,         \* history: was every answer so far right, no item
                    \* skipped, and no day left before it was done?
  crashes,          \* history: reviews cut short so far
  failures,         \* history: saves that failed so far
  missed            \* history: by item, its answers whose save failed and
                    \* after which no save of this process got through

session == <<phase, queue, pos, opened>>
saves   == <<disk, failures, missed>>
reviewVars == <<vars, session, saves, done, diligent, crashes>>

Uid  == 1
Item == queue[pos]

NoneMissed == [i \in {} |-> 0]
Missed(i)  == IF i \in DOMAIN missed THEN missed[i] ELSE 0

-----------------------------------------------------------------------------
(* One user and all the items, none of them studied; no process yet.       *)
ReviewInit ==
  /\ \E order \in [1..Cardinality(Questions) -> Questions] :
       /\ \A q \in Questions : \E k \in DOMAIN order : order[k] = q
       /\ items = [k \in DOMAIN order |-> [id |-> k, question |-> order[k]]]
       /\ question_hash = [q \in Questions |->
                             CHOOSE k \in DOMAIN order : order[k] = q]
  /\ users = << [id |-> Uid, uid |-> CHOOSE d \in Uids : TRUE] >>
  /\ user_hash = [d \in Uids |-> 1]
  /\ mastery = <<>> /\ mastery_hash = [p \in {} |-> 0]
  /\ due_sorted = <<>> /\ due_dirty = TRUE /\ stale = FALSE /\ now = 0
  /\ phase = "idle" /\ queue = <<>> /\ pos = 1 /\ opened = 0
  /\ disk = <<>> /\ done = FALSE /\ diligent = TRUE /\ crashes = 0
  /\ failures = 0 /\ missed = NoneMissed

(* rebuild_indexes: the position of every loaded record, by its pair.      *)
RebuiltHash(table) ==
  [p \in {<<table[k].user, table[k].item>> : k \in DOMAIN table} |->
     CHOOSE k \in DOMAIN table : <<table[k].user, table[k].item>> = p]

(* Mutant of StartReview: the due index is not sorted on load.             *)
StartReviewUnsorted ==
  /\ phase = "idle" /\ ~done
  /\ UNCHANGED <<tables, saves, diligent, crashes, now, stale>>
  /\ mastery' = disk /\ mastery_hash' = RebuiltHash(disk)
  /\ due_sorted' = [k \in DOMAIN disk |-> k] /\ due_dirty' = FALSE
  /\ queue' = DailyQueue(Uid, due_sorted, BufferSize)'
  /\ done' = (queue' = <<>>)
  /\ phase' = "asking" /\ pos' = 1 /\ opened' = now

(* wc_load_db (whose rebuild_indexes sorts the due index) and the one call *)
(* of daily_queue.  With an empty queue it says that there is nothing to   *)
(* review, and will say so until the next day.                             *)
StartReview ==
  /\ phase = "idle" /\ ~done
  /\ UNCHANGED <<tables, saves, diligent, crashes, now>>
  /\ mastery' = disk /\ mastery_hash' = RebuiltHash(disk)
  /\ due_sorted' \in DueOrders' /\ due_dirty' = FALSE /\ stale' = FALSE
  /\ queue' = DailyQueue(Uid, due_sorted, BufferSize)'
  /\ done' = (queue' = <<>>)
  /\ phase' = "asking" /\ pos' = 1 /\ opened' = now

(* The question is printed; its record exists from here on, in memory.     *)
Show ==
  /\ phase = "asking" /\ pos <= Len(queue)
  /\ \/ GetOrCreateMastery(Uid, Item)
     \/ MasteryAt(Uid, Item) # 0 /\ UNCHANGED vars
  /\ phase' = "shown"
  /\ UNCHANGED <<queue, pos, opened, saves, done, diligent, crashes>>

(* An empty line: on to the next item, nothing is saved.                   *)
Skip ==
  /\ phase = "shown"
  /\ phase' = "asking" /\ pos' = pos + 1
  /\ diligent' = FALSE
  /\ UNCHANGED <<vars, queue, opened, saves, done, crashes>>

(* wc_sm2_update with quality 4 or 1, and the activity count.              *)
Grade(q) ==
  /\ phase = "shown"
  /\ Answer(Uid, Item, q)
  /\ phase' = "graded"
  /\ diligent' = (diligent /\ Remembered(q))
  /\ UNCHANGED <<queue, pos, opened, saves, done, crashes>>

(* Mutant of Save: the answer is not written.                              *)
SaveForgotten ==
  /\ phase = "graded"
  /\ missed' = NoneMissed
  /\ phase' = "asking" /\ pos' = pos + 1
  /\ UNCHANGED <<vars, queue, opened, disk, failures, done, diligent, crashes>>

(* db.save(): the whole table, records of skipped items and of answers     *)
(* whose own save failed included.                                         *)
Save ==
  /\ phase = "graded"
  /\ disk' = mastery /\ missed' = NoneMissed
  /\ phase' = "asking" /\ pos' = pos + 1
  /\ UNCHANGED <<vars, queue, opened, failures, done, diligent, crashes>>

(* wc_save_db returns WC_ERR_FILE, on every such path before the rename or *)
(* because it failed: the file is what it was.  cmd_review does not look   *)
(* at the result and goes on to the next item.                             *)
SaveFails ==
  /\ phase = "graded" /\ failures < MaxFailures
  /\ failures' = failures + 1
  /\ missed' = [i \in DOMAIN missed \cup {Item} |->
                  Missed(i) + (IF i = Item THEN 1 ELSE 0)]
  /\ phase' = "asking" /\ pos' = pos + 1
  /\ UNCHANGED <<vars, queue, opened, disk, done, diligent, crashes>>

(* The process is gone and its memory with it (db.close does not save).    *)
Gone ==
  /\ phase' = "idle" /\ queue' = <<>> /\ pos' = 1
  /\ mastery' = <<>> /\ mastery_hash' = [p \in {} |-> 0]
  /\ due_sorted' = <<>> /\ due_dirty' = TRUE /\ stale' = FALSE
  /\ missed' = NoneMissed
  /\ UNCHANGED <<tables, now, opened, disk, failures, done, diligent>>

EndReview ==
  /\ phase = "asking" /\ pos > Len(queue)
  /\ Gone
  /\ UNCHANGED crashes

CutShort ==
  /\ phase # "idle" /\ crashes < MaxCrashes
  /\ Gone
  /\ crashes' = crashes + 1

DayDone == phase = "idle" /\ done

Midnight ==
  /\ NextDay
  /\ done' = FALSE
  /\ diligent' = (diligent /\ DayDone)
  /\ ~diligent' => now < MaxLazyDay
  /\ UNCHANGED <<session, saves, crashes>>

Step == StartReview \/ Show \/ (\E q \in Given : Grade(q)) \/ Save \/ EndReview

ReviewNext == Step \/ Skip \/ SaveFails \/ CutShort \/ Midnight

(* Fairness: a learner reviews until told that there is nothing to review, *)
(* and then lives to see the next day.  An assumption on the person; the   *)
(* program only runs when asked to.                                        *)
ReviewSpec ==
  /\ ReviewInit /\ [][ReviewNext]_reviewVars
  /\ WF_reviewVars(Step)
  /\ WF_reviewVars(DayDone /\ Midnight)

-----------------------------------------------------------------------------
(* The reviews the record at k counts; none where there is no record.      *)
ReviewsAt(table, k) == IF k \in DOMAIN table THEN table[k].sched.total ELSE 0

(* The answers of item i that a review cut short now would lose: those     *)
(* whose save failed, unless a later save of the process got through, and  *)
(* the one just graded.                                                    *)
Unsaved(i) == Missed(i) + (IF phase = "graded" /\ i = Item THEN 1 ELSE 0)

(* A review cut short at any point costs no other answer: record by record *)
(* the file has every review the memory has, but for these.  In particular *)
(* a save that gets through brings in what the failed ones before it left  *)
(* out, and while saves get through it is at most the answer in hand.      *)
OnlyUnsavedAnswersAtRisk ==
  phase # "idle" =>
    /\ DOMAIN disk \subseteq DOMAIN mastery
    /\ \A k \in DOMAIN mastery :
         ReviewsAt(mastery, k) = ReviewsAt(disk, k) + Unsaved(mastery[k].item)

(* A review never leaves out an overdue item: although engine.py never     *)
(* marks the due index dirty after a review, the fresh load of every       *)
(* process sorts it, and during one process no record becomes overdue by   *)
(* the day the process started.  Only a full buffer cuts the list short.   *)
ReviewCoversOverdue ==
  (phase # "idle" /\ Len(queue) < BufferSize) =>
    \A k \in DOMAIN mastery :
      (mastery[k].sched.status # "new" /\ NextReview(k) <= opened)
        => \E n \in DOMAIN queue : queue[n] = mastery[k].item

(* A learner who answers right and works off the queue every day has every *)
(* item mastered in the end, although reviews are killed now and then.     *)
AllMastered ==
  \A i \in KnownItems :
    \E k \in DOMAIN disk : disk[k].item = i /\ disk[k].sched.status = "mastered"

EverythingMastered == <>(AllMastered \/ ~diligent)

(* README: "SM-2 makes sure that due reviews happen".  With room for all   *)
(* the items in the queue, a review asks every item but those whose last   *)
(* review put them off to a later day.                                     *)
NoItemIsLost ==
  (phase = "asking" /\ pos = 1 /\ DailyNewLimit >= Len(items)) =>
    \A i \in KnownItems :
      \/ \E n \in DOMAIN queue : queue[n] = i
      \/ \E k \in DOMAIN mastery : /\ mastery[k].item = i
                                   /\ mastery[k].sched.total > 0
                                   /\ NextReview(k) > opened
=============================================================================
