------------------------------ MODULE Mastery ------------------------------
(***************************************************************************)
(* The arithmetic of one mastery record (user_item_mastery_t): the SM-2    *)
(* step wc_sm2_update, the six skill dimensions, and the mode rules of     *)
(* wc_recommend_mode.  Operators only; the machines that use them are      *)
(* MasteryCard (one card, full range) and StudyEngine (the tables).        *)
(*                                                                         *)
(* Units.  Time is in days: the code stores seconds, but every interval is *)
(* a whole number of days.  The ease factor is in hundredths.  The code    *)
(* computes in single precision, so a product or a weighted sum that is    *)
(* within a hundredth of a whole number may be truncated on either side of *)
(* it: where that can happen the operator is the SET of possible results.  *)
(***************************************************************************)
EXTENDS Integers

U8  == 256
U16 == 65536

DefaultEF   == 250
MinEF       == 130
MaxInterval == 3650

Statuses   == {"new", "learning", "mastered"}
Dimensions == {"recognition", "recall", "spelling", "listening",
               "pronunciation", "usage"}
Modes      == {"flashcard", "choice", "fillblank", "spelling", "dictation",
               "pronunciation", "matching", "speed_review"}
Qualities  == 0..5

(* The record wc_get_or_create_mastery appends: all zero but the ease      *)
(* factor.                                                                 *)
FreshSchedule ==
  [status |-> "new", interval |-> 0, reps |-> 0, ef |-> DefaultEF,
   next |-> 0, total |-> 0, streak |-> 0, forget |-> 0]

Schedules ==
  [status : Statuses, interval : 0..MaxInterval, reps : 0..(U16 - 1),
   ef : Nat, next : Nat, total : 0..(U16 - 1),
   streak : 0..(U8 - 1), forget : 0..(U8 - 1)]

-----------------------------------------------------------------------------
(* SM-2 *)

Remembered(q) == q >= 3

EaseStep(q) == 10 - (5 - q) * (8 + (5 - q) * 2)

NextEase(ef, q) ==
  IF ef + EaseStep(q) < MinEF THEN MinEF ELSE ef + EaseStep(q)

(* Mutants of Grown: the factor truncated before the product; a uint8      *)
(* interval.                                                               *)
GrownByWholeFactor(interval, ef) == {(interval * (ef \div 100)) % U16}
GrownInOneByte(interval, ef) == {((interval * ef) \div 100) % U8}

(* interval * ease_factor in single precision, converted to uint16.        *)
Grown(interval, ef) ==
  {((interval * ef + slack) \div 100) % U16 :
      slack \in IF interval = 0 THEN {0} ELSE {-1, 0, 1}}

Capped(interval) == IF interval > MaxInterval THEN MaxInterval ELSE interval

NextIntervals(m, q) ==
  IF ~Remembered(q) \/ m.reps = 0 THEN {1}
  ELSE IF m.reps = 1 THEN {6}
  ELSE {Capped(i) : i \in Grown(m.interval, m.ef)}

NextReps(m, q) == IF Remembered(q) THEN (m.reps + 1) % U16 ELSE 0

NextStatus(m, q, interval) ==
  IF NextReps(m, q) >= 5 /\ interval >= 21 THEN "mastered"
  ELSE IF Remembered(q) /\ m.status = "new" THEN "learning"
  ELSE m.status

Reviewed(m, q, now, interval) ==
  [status   |-> NextStatus(m, q, interval),
   interval |-> interval,
   reps     |-> NextReps(m, q),
   ef       |-> NextEase(m.ef, q),
   next     |-> now + interval,
   total    |-> (m.total + 1) % U16,
   streak   |-> IF Remembered(q) THEN (m.streak + 1) % U8 ELSE 0,
   forget   |-> IF Remembered(q) THEN 0 ELSE (m.forget + 1) % U8]

(* Every record wc_sm2_update(m, q) can leave at time now.                 *)
Sm2Update(m, q, now) ==
  {Reviewed(m, q, now, i) : i \in NextIntervals(m, q)}

-----------------------------------------------------------------------------
(* Skill dimensions *)

FreshSkill == [d \in Dimensions |-> 0]

Clamped(n) == IF n < 0 THEN 0 ELSE IF n > 100 THEN 100 ELSE n

(* wc_update_mastery_dimension: a pronunciation score is stored as given.  *)
Practised(skill, d, correct, score) ==
  [skill EXCEPT ![d] = IF d = "pronunciation" /\ score > 0 THEN score
                       ELSE Clamped(@ + (IF correct THEN 10 ELSE -15))]

WeightedSum(skill) ==
  25 * skill["recognition"] + 20 * skill["recall"] + 20 * skill["spelling"]
  + 15 * skill["listening"] + 10 * skill["pronunciation"]
  + 10 * skill["usage"]

(* wc_recalc_overall *)
Overalls(skill) ==
  LET sum == WeightedSum(skill)
  IN  {((sum + slack) \div 100) % U8 :
          slack \in IF sum = 0 THEN {0} ELSE {-1, 0, 1}}

-----------------------------------------------------------------------------
(* Mode recommendation *)

(* The order rule 7 looks at the dimensions in: the first of the weakest.  *)
DrillOrder == <<"recognition", "recall", "spelling", "listening",
                "pronunciation", "usage">>
DrillMode  == <<"choice", "fillblank", "spelling", "dictation",
                "pronunciation", "matching">>

WeakestMode(skill) ==
  LET level(i) == skill[DrillOrder[i]]
      first    == CHOOSE i \in 1..6 :
                    /\ \A j \in 1..6 : level(i) <= level(j)
                    /\ \A j \in 1..(i - 1) : level(j) > level(i)
  IN  DrillMode[first]

(* Mutant of Relapsed: off by one.                                         *)
RelapsedLate(m) == m.forget > 3

Relapsed(m) == m.forget >= 3

(* The rules in the order the code tries them; the last one always fires.  *)
ModeRules(m, skill, overall, now) ==
  << <<m.total = 0, "flashcard">>,
     <<Relapsed(m), "flashcard">>,
     <<skill["recognition"] > 80 /\ skill["spelling"] < 50, "spelling">>,
     <<skill["recognition"] > 70 /\ skill["pronunciation"] < 60,
       "pronunciation">>,
     <<skill["recognition"] > 70 /\ skill["listening"] < 50, "dictation">>,
     <<overall > 85 /\ m.streak >= 5, "speed_review">>,
     <<now >= m.next, WeakestMode(skill)>>,
     <<TRUE, "choice">> >>

RecommendMode(m, skill, overall, now) ==
  LET rules == ModeRules(m, skill, overall, now)
      first == CHOOSE i \in 1..8 : /\ rules[i][1]
                                  /\ \A j \in 1..(i - 1) : ~rules[j][1]
  IN  rules[first][2]
=============================================================================
