---------------------------- MODULE MasteryCard ----------------------------
(***************************************************************************)
(* One mastery record over its whole life: any sequence of reviews and     *)
(* practice results that a caller of wc_sm2_update and                     *)
(* wc_update_mastery_dimension can produce.  Neither function looks at the *)
(* due date, and POST /api/v1/review does not either, so a card may be     *)
(* reviewed on any day.                                                    *)
(*                                                                         *)
(* total_reviews is only ever compared with 0; here it stays at 1 after    *)
(* the first review (its wrap after 65536 reviews is left out).            *)
(***************************************************************************)
EXTENDS Mastery

CONSTANTS
  Given,          \* the qualities the learner gives
  Practice,       \* the dimensions that are practised
  Scores,         \* pronunciation scores; 0 means "no score"
  MaxEF,          \* bound: no review that would lift the ease factor above it
  MaxReps,        \* bound: no success after this many in a row
  MaxFails,       \* bound: no failure after this many in a row
  MaxDay          \* bound on the clock

ASSUME GivenAssumption    == Given \subseteq Qualities
ASSUME PracticeAssumption == Practice \subseteq Dimensions
ASSUME ScoresAssumption   == Scores \subseteq 0..(U8 - 1)
ASSUME BoundAssumption    ==
  /\ MaxEF \in Nat /\ MaxReps \in 0..(U16 - 1)
  /\ MaxFails \in Nat /\ MaxDay \in Nat

VARIABLES
  card,      \* the scheduling fields of the record
  skill,     \* its six dimensions
  overall,   \* its overall field
  now,       \* the clock, in days
  fails      \* history: failures since the last success

vars == <<card, skill, overall, now, fails>>

TypeOK ==
  /\ card \in Schedules
  /\ skill \in [Dimensions -> 0..(U8 - 1)]
  /\ overall \in 0..(U8 - 1)
  /\ now \in 0..MaxDay
  /\ fails \in 0..MaxFails

Init ==
  /\ card = FreshSchedule
  /\ skill = FreshSkill
  /\ overall = 0
  /\ now = 0
  /\ fails = 0

Review(q) ==
  /\ NextEase(card.ef, q) <= MaxEF
  /\ IF Remembered(q) THEN card.reps < MaxReps ELSE fails < MaxFails
  /\ \E m \in Sm2Update(card, q, now) : card' = [m EXCEPT !.total = 1]
  /\ fails' = IF Remembered(q) THEN 0 ELSE fails + 1
  /\ UNCHANGED <<skill, overall, now>>

Practise(d, correct, score) ==
  /\ skill' = Practised(skill, d, correct, score)
  /\ overall' \in Overalls(skill')
  /\ UNCHANGED <<card, now, fails>>

NextDay ==
  /\ now < MaxDay
  /\ now' = now + 1
  /\ UNCHANGED <<card, skill, overall, fails>>

Next ==
  \/ \E q \in Given : Review(q)
  \/ \E d \in Practice, correct \in BOOLEAN, score \in Scores :
        Practise(d, correct, score)
  \/ NextDay

Spec == Init /\ [][Next]_vars

(* The learner keeps reviewing until a review succeeds (an assumption on   *)
(* the learner; the program never reviews a card by itself).               *)
Success == \E q \in Given : Remembered(q) /\ Review(q)

FairSpec == Spec /\ WF_vars(Success)

-----------------------------------------------------------------------------
Mode == RecommendMode(card, skill, overall, now)

(* A success never brings the next interval below the previous one: the    *)
(* growth by ease_factor, its truncation, the uint16 conversion and the    *)
(* ten-year cap of wc_sm2_update together are monotone.                    *)
SuccessNeverShortensInterval ==
  [][card'.reps > card.reps /\ card.reps > 0
       => card'.interval >= card.interval]_vars

(* Rule 5 of wc_recommend_mode: three failures in a row, however many      *)
(* reviews came before, send the card back to flashcards.  (Up to 255 of   *)
(* them: the 256th brings the one-byte forget_count back to 0.)            *)
FlashcardAfterThreeForgets == fails \in 3..(U8 - 1) => Mode = "flashcard"

(* Rule 7: a due card that no earlier rule takes is drilled on a dimension *)
(* that none of the other five is below.                                   *)
DueDrillsWeakest ==
  ( /\ card.total # 0 /\ fails < 3 /\ now >= card.next
    /\ skill["recognition"] <= 70
    /\ ~(overall > 85 /\ card.streak >= 5) )
  => \E i \in 1..6 : /\ Mode = DrillMode[i]
                     /\ \A d \in Dimensions : skill[DrillOrder[i]] <= skill[d]

(* What wc_recommend_mode says of the card fits its history and its        *)
(* dimensions, whatever order reviews, practice and days came in.          *)
ModeFitsCard == FlashcardAfterThreeForgets /\ DueDrillsWeakest

(* A learner who at some point stops failing gets the card mastered.       *)
MasteredInTheEnd ==
  (<>[][fails' = 0]_vars) => <>(card.status = "mastered")
=============================================================================
