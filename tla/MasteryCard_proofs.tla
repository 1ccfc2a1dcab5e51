------------------------- MODULE MasteryCard_proofs -------------------------
(***************************************************************************)
(* Facts about one SM-2 step and one mode recommendation, for every        *)
(* record, and proofs about MasteryCard for any qualities, practice,       *)
(* scores and bounds.                                                      *)
(***************************************************************************)
EXTENDS MasteryCard, TLAPS

(* What the code's integer types promise: a remainder is below its width.  *)
LEMMA Widths ==
  /\ \A n \in Int : n % U16 \in 0..(U16 - 1)
  /\ \A n \in Int : n % U8 \in 0..(U8 - 1)
  /\ 0 \in 0..(U16 - 1) /\ 0 \in 0..(U8 - 1)
<1>1. \A n \in Int : n % U16 \in 0..(U16 - 1)
  BY SMTT(30) DEF U16
<1>2. \A n \in Int : n % U8 \in 0..(U8 - 1)
  BY SMT DEF U8
<1>3. 0 \in 0..(U16 - 1) /\ 0 \in 0..(U8 - 1)
  BY SMT DEF U8, U16
<1> QED
  BY <1>1, <1>2, <1>3

(* One SM-2 step keeps a schedule a schedule: the interval stays within    *)
(* ten years, the ease factor natural, the byte and short counters in      *)
(* width.                                                                  *)
LEMMA Sm2Type ==
  ASSUME NEW m \in Schedules, NEW q \in Qualities, NEW t \in Nat,
         NEW r \in Sm2Update(m, q, t)
  PROVE  r \in Schedules
<1>0. /\ m.interval \in Nat /\ m.ef \in Nat /\ m.reps \in Nat
      /\ m.total \in Nat /\ m.streak \in Nat /\ m.forget \in Nat
      /\ m.status \in Statuses /\ q \in Int
  <2>1. /\ m.interval \in 0..MaxInterval /\ m.ef \in Nat
        /\ m.reps \in 0..(U16 - 1) /\ m.total \in 0..(U16 - 1)
        /\ m.streak \in 0..(U8 - 1) /\ m.forget \in 0..(U8 - 1)
        /\ m.status \in Statuses
    BY SMT DEF Schedules
  <2>2. \A a, b : a \in 0..b => a \in Nat
    OBVIOUS
  <2>3. q \in Int
    BY DEF Qualities
  <2> QED
    BY <2>1, <2>2, <2>3
<1>1. PICK i \in NextIntervals(m, q) : r = Reviewed(m, q, t, i)
  BY DEF Sm2Update
<1>2. i \in 0..MaxInterval
  <2>1. ASSUME NEW g \in Grown(m.interval, m.ef) PROVE g \in Nat
    <3>1. PICK slack \in Int :
             g = ((m.interval * m.ef + slack) \div 100) % U16
      BY <2>1, SMT DEF Grown
    <3>2. (m.interval * m.ef + slack) \div 100 \in Int
      BY <1>0, <3>1, SMT
    <3> QED
      BY <3>1, <3>2, Widths, SMT
  <2>2. ASSUME NEW g \in Nat PROVE Capped(g) \in 0..MaxInterval
    BY SMT DEF Capped, MaxInterval
  <2>3. 1 \in 0..MaxInterval /\ 6 \in 0..MaxInterval
    BY SMT DEF MaxInterval
  <2> QED
    BY <1>1, <2>1, <2>2, <2>3, SMT DEF NextIntervals
<1>3. NextReps(m, q) \in 0..(U16 - 1)
  <2>1. m.reps + 1 \in Int
    BY <1>0, SMT
  <2> QED
    BY <2>1, Widths DEF NextReps
<1>4. NextEase(m.ef, q) \in Nat
  <2>1. EaseStep(q) \in Int
    BY <1>0, SMT DEF EaseStep
  <2> QED
    BY <1>0, <2>1, SMT DEF NextEase, MinEF
<1>5. NextStatus(m, q, i) \in Statuses
  BY <1>0 DEF NextStatus, Statuses
<1>6. t + i \in Nat
  BY <1>2, SMT DEF MaxInterval
<1>7. (m.total + 1) % U16 \in 0..(U16 - 1)
  BY <1>0, Widths, SMT
<1>8. /\ (IF Remembered(q) THEN (m.streak + 1) % U8 ELSE 0) \in 0..(U8 - 1)
      /\ (IF Remembered(q) THEN 0 ELSE (m.forget + 1) % U8) \in 0..(U8 - 1)
  <2>1. m.streak + 1 \in Int /\ m.forget + 1 \in Int
    BY <1>0, SMT
  <2> QED
    BY <2>1, Widths
<1> QED
  BY <1>1, <1>2, <1>3, <1>4, <1>5, <1>6, <1>7, <1>8
  DEF Reviewed, Schedules

(* A new record starts with a well-formed schedule.                        *)
LEMMA FreshType == FreshSchedule \in Schedules
  BY SMT DEF FreshSchedule, Schedules, Statuses, DefaultEF, MaxInterval, U8, U16

(* Growth outweighs truncation for ease factors of at least 1.3, and one   *)
(* of at most 17.95 keeps the product of every capped interval within      *)
(* sixteen bits.                                                           *)
LEMMA GrownIsNoLess ==
  ASSUME NEW n \in Int, 1 <= n, n <= MaxInterval,
         NEW ef \in Int, MinEF <= ef, ef <= 1795,
         NEW g \in Grown(n, ef)
  PROVE  Capped(g) >= n
<1> DEFINE p == n * ef
<1>1. PICK slack \in {-1, 0, 1} : g = ((p + slack) \div 100) % U16
  BY SMT DEF Grown
<1>2. p \in Int /\ p >= 130 * n /\ p <= 1795 * n
  <2>1. (ef - 130) * n >= 0 /\ (1795 - ef) * n >= 0
    BY SMT DEF MinEF
  <2> QED
    BY <2>1, SMT
<1> HIDE DEF p
<1>3. /\ (p + slack) \div 100 \in Int
      /\ (p + slack) \div 100 >= n
      /\ (p + slack) \div 100 <= 65535
  BY <1>1, <1>2, SMT DEF MaxInterval
<1>4. g = (p + slack) \div 100
  <2>1. \A x \in Int : x >= 0 /\ x <= 65535 => x % 65536 = x
    BY SMT
  <2>2. (p + slack) \div 100 >= 0
    BY <1>3, SMT
  <2> QED
    BY <1>1, <1>3, <2>1, <2>2 DEF U16
<1> QED
  BY <1>3, <1>4, SMT DEF Capped, MaxInterval

(* A success never shortens the interval: the second sets six days, and    *)
(* from the third on it grows.                                             *)
LEMMA SuccessGrows ==
  ASSUME NEW m \in Schedules, NEW q \in Qualities, NEW t \in Nat,
         NEW r \in Sm2Update(m, q, t),
         Remembered(q), m.reps # 0, m.interval # 0,
         m.reps = 1 => m.interval = 1,
         MinEF <= m.ef, m.ef <= 1795
  PROVE  r.interval >= m.interval
<1>1. PICK i \in NextIntervals(m, q) : r = Reviewed(m, q, t, i)
  BY DEF Sm2Update
<1>2. r.interval = i
  BY <1>1 DEF Reviewed
<1>3. CASE m.reps = 1
  <2>1. i = 6
    BY <1>1, <1>3 DEF NextIntervals
  <2> QED
    BY <1>2, <1>3, <2>1
<1>4. CASE m.reps # 1
  <2>1. PICK g \in Grown(m.interval, m.ef) : i = Capped(g)
    BY <1>1, <1>4 DEF NextIntervals
  <2>2. m.interval \in 0..MaxInterval /\ m.ef \in Nat
    BY DEF Schedules
  <2>3. \A x : x \in 0..MaxInterval /\ x # 0 => x \in Int /\ 1 <= x /\ x <= MaxInterval
    BY SMT
  <2>4. \A x \in Nat : x \in Int
    OBVIOUS
  <2>5. /\ m.interval \in Int /\ 1 <= m.interval /\ m.interval <= MaxInterval
        /\ m.ef \in Int
    BY <2>2, <2>3, <2>4
  <2>6. Capped(g) >= m.interval
    BY <2>1, <2>5, GrownIsNoLess
  <2> QED
    BY <1>2, <2>1, <2>6
<1> QED
  BY <1>3, <1>4

-----------------------------------------------------------------------------
(* The rule that decides is the first one that fires.                      *)
LEMMA FirstRule ==
  ASSUME NEW m, NEW s, NEW o, NEW t, NEW n \in 1..8,
         ModeRules(m, s, o, t)[n][1],
         \A j \in 1..(n - 1) : ~ModeRules(m, s, o, t)[j][1]
  PROVE  RecommendMode(m, s, o, t) = ModeRules(m, s, o, t)[n][2]
<1> DEFINE rules    == ModeRules(m, s, o, t)
           Fires(i) == rules[i][1] /\ \A j \in 1..(i - 1) : ~rules[j][1]
           first    == CHOOSE i \in 1..8 : Fires(i)
<1> HIDE DEF rules
<1>1. Fires(n) /\ n \in 1..8
  BY DEF rules
<1>2. first \in 1..8 /\ Fires(first)
  BY <1>1
<1>3. first = n
  <2>1. \A i, k \in 1..8 : Fires(i) /\ Fires(k) => ~(i < k)
    <3> SUFFICES ASSUME NEW i \in 1..8, NEW k \in 1..8, Fires(i), Fires(k), i < k
                 PROVE  FALSE
      OBVIOUS
    <3>1. i \in 1..(k - 1)
      BY SMT
    <3> QED
      BY <3>1
  <2>2. ~(first < n) /\ ~(n < first)
    BY <1>1, <1>2, <2>1
  <2> HIDE DEF first
  <2> QED
    BY <1>1, <1>2, <2>2, SMT
<1> QED
  BY <1>3 DEF RecommendMode, rules

(* Of six numbers one is the least and the first of the least.             *)
LEMMA LeastOfSix ==
  ASSUME NEW f \in [1..6 -> Nat]
  PROVE  \E i \in 1..6 : /\ \A j \in 1..6 : f[i] <= f[j]
                         /\ \A j \in 1..(i - 1) : f[j] > f[i]
<1> DEFINE Best(n, i) == /\ \A j \in 1..n : f[i] <= f[j]
                         /\ \A j \in 1..(i - 1) : f[j] > f[i]
<1>1. Best(1, 1)
  BY SMT
<1>2. ASSUME NEW n \in 1..5, \E i \in 1..n : Best(n, i)
      PROVE  \E i \in 1..(n + 1) : Best(n + 1, i)
  <2>1. PICK i \in 1..n : Best(n, i)
    BY <1>2
  <2>2. CASE f[i] <= f[n + 1]
    <3>1. Best(n + 1, i) /\ i \in 1..(n + 1)
      BY <2>1, <2>2, SMT
    <3> QED
      BY <3>1
  <2>3. CASE f[i] > f[n + 1]
    <3>1. Best(n + 1, n + 1) /\ n + 1 \in 1..(n + 1)
      BY <2>1, <2>3, SMT
    <3> QED
      BY <3>1
  <2> QED
    BY <2>1, <2>2, <2>3, SMT
<1>3. \E i \in 1..1 : Best(1, i)
  BY <1>1
<1> HIDE DEF Best
<1>4. \E i \in 1..2 : Best(2, i)
  BY <1>2, <1>3
<1>5. \E i \in 1..3 : Best(3, i)
  BY <1>2, <1>4
<1>6. \E i \in 1..4 : Best(4, i)
  BY <1>2, <1>5
<1>7. \E i \in 1..5 : Best(5, i)
  BY <1>2, <1>6
<1>8. \E i \in 1..6 : Best(6, i)
  BY <1>2, <1>7
<1> QED
  BY <1>8 DEF Best

(* Rule 7 finds a dimension that none of the others is below.              *)
LEMMA WeakestIsMinimal ==
  ASSUME NEW s \in [Dimensions -> Nat]
  PROVE  \E i \in 1..6 : /\ WeakestMode(s) = DrillMode[i]
                         /\ \A d \in Dimensions : s[DrillOrder[i]] <= s[d]
<1> DEFINE level(i) == s[DrillOrder[i]]
           Least(i) == /\ \A j \in 1..6 : level(i) <= level(j)
                       /\ \A j \in 1..(i - 1) : level(j) > level(i)
           first    == CHOOSE i \in 1..6 : Least(i)
<1>1. \A i \in 1..6 : level(i) \in Nat
  BY DEF DrillOrder, Dimensions
<1>2. \A d \in Dimensions : \E j \in 1..6 : s[d] = level(j)
  <2>1. /\ DrillOrder[1] = "recognition" /\ DrillOrder[2] = "recall"
        /\ DrillOrder[3] = "spelling" /\ DrillOrder[4] = "listening"
        /\ DrillOrder[5] = "pronunciation" /\ DrillOrder[6] = "usage"
    BY DEF DrillOrder
  <2>2. 1 \in 1..6 /\ 2 \in 1..6 /\ 3 \in 1..6 /\ 4 \in 1..6 /\ 5 \in 1..6 /\ 6 \in 1..6
    BY SMT
  <2> QED
    BY <2>1, <2>2 DEF Dimensions
<1>3. \E i \in 1..6 : Least(i)
  <2> DEFINE l == [i \in 1..6 |-> level(i)]
  <2>1. l \in [1..6 -> Nat]
    BY <1>1
  <2>2. \A f \in [1..6 -> Nat] :
           \E i \in 1..6 : /\ \A j \in 1..6 : f[i] <= f[j]
                           /\ \A j \in 1..(i - 1) : f[j] > f[i]
    BY LeastOfSix
  <2>3. PICK i \in 1..6 : /\ \A j \in 1..6 : l[i] <= l[j]
                          /\ \A j \in 1..(i - 1) : l[j] > l[i]
    BY <2>1, <2>2
  <2>4. \A j \in 1..(i - 1) : j \in 1..6
    BY SMT
  <2> QED
    BY <2>3, <2>4
<1>4. first \in 1..6 /\ Least(first)
  BY <1>3
<1>5. WeakestMode(s) = DrillMode[first]
  BY DEF WeakestMode
<1> QED
  BY <1>2, <1>4, <1>5

-----------------------------------------------------------------------------
(* Practice keeps every dimension within its byte.                         *)
LEMMA PractisedType ==
  ASSUME NEW s \in [Dimensions -> 0..(U8 - 1)], NEW d \in Dimensions,
         NEW correct \in BOOLEAN, NEW score \in 0..(U8 - 1)
  PROVE  Practised(s, d, correct, score) \in [Dimensions -> 0..(U8 - 1)]
<1>1. ASSUME NEW n \in Int PROVE Clamped(n) \in 0..(U8 - 1)
  BY SMT DEF Clamped, U8
<1>2. s[d] \in 0..(U8 - 1)
  OBVIOUS
<1>3. s[d] + (IF correct THEN 10 ELSE -15) \in Int
  BY <1>2, SMT DEF U8
<1> QED
  BY <1>1, <1>3 DEF Practised

(* The weighted mean of six bytes is a byte.                               *)
LEMMA OverallsType ==
  ASSUME NEW s \in [Dimensions -> 0..(U8 - 1)], NEW o \in Overalls(s)
  PROVE  o \in 0..(U8 - 1)
<1>1. \A x : x \in 0..(U8 - 1) => x \in Int
  BY SMT DEF U8
<1>2. \A d \in Dimensions : s[d] \in Int
  BY <1>1
<1>3. WeightedSum(s) \in Int
  <2> DEFINE a == s["recognition"]    b == s["recall"]         c == s["spelling"]
             d == s["listening"]      e == s["pronunciation"]  f == s["usage"]
  <2>1. a \in Int /\ b \in Int /\ c \in Int /\ d \in Int /\ e \in Int /\ f \in Int
    BY <1>2 DEF Dimensions
  <2>2. WeightedSum(s) = 25 * a + 20 * b + 20 * c + 15 * d + 10 * e + 10 * f
    BY DEF WeightedSum
  <2> HIDE DEF a, b, c, d, e, f
  <2> QED
    BY <2>1, <2>2, SMT
<1>4. PICK slack \in Int : o = ((WeightedSum(s) + slack) \div 100) % U8
  BY SMT DEF Overalls
<1>5. (WeightedSum(s) + slack) \div 100 \in Int
  BY <1>3, SMT
<1> QED
  BY <1>4, <1>5, Widths

-----------------------------------------------------------------------------
(* Up to this ease factor the product of wc_sm2_update fits in sixteen     *)
(* bits; quality 5 alone, 155 times in a row, would go beyond.             *)
EaseStaysLow == MaxEF <= 1795

(* TypeOK with what relates the record to its history: the ease factor     *)
(* never falls below its minimum, a card with a success behind it has an   *)
(* interval (of one day after the first), and forget_count is the failures *)
(* since the last success in one byte.                                     *)
CardFits ==
  /\ TypeOK
  /\ MinEF <= card.ef
  /\ card.ef <= MaxEF \/ card.ef <= DefaultEF
  /\ EaseStaysLow => (card.reps # 0 => card.interval # 0)
  /\ card.reps = 1 => card.interval = 1
  /\ card.reps <= MaxReps
  /\ card.forget = fails % U8

(* The record of wc_get_or_create_mastery satisfies it.                    *)
LEMMA CardInit == Init => CardFits
<1> SUFFICES ASSUME Init PROVE CardFits
  OBVIOUS
<1>1. card \in Schedules
  BY FreshType DEF Init
<1>2. FreshSkill \in [Dimensions -> 0..(U8 - 1)]
  BY Widths DEF FreshSkill
<1>3. /\ card.ef = 250 /\ card.reps = 0 /\ card.forget = 0 /\ fails = 0 /\ now = 0
      /\ overall = 0 /\ skill = FreshSkill
  BY DEF Init, FreshSchedule, DefaultEF
<1>4. 0 % U8 = 0
  BY SMT DEF U8
<1>5. TypeOK
  BY <1>1, <1>2, <1>3, Widths, BoundAssumption, SMT DEF TypeOK
<1>6. /\ 130 <= 250 /\ 250 <= 250
      /\ 0 <= MaxReps
  BY BoundAssumption, SMT
<1> QED
  BY <1>3, <1>4, <1>5, <1>6 DEF CardFits, MinEF, DefaultEF

(* A review keeps it.                                                      *)
LEMMA ReviewFits ==
  ASSUME CardFits, NEW q \in Given, Review(q)
  PROVE  CardFits'
<1>1. /\ card \in Schedules /\ q \in Qualities /\ now \in Nat /\ fails \in Nat
      /\ card.reps \in Nat /\ card.ef \in Nat
  <2>1. \A a, b : a \in 0..b => a \in Nat
    OBVIOUS
  <2>2. card.reps \in 0..(U16 - 1) /\ card.ef \in Nat
    BY DEF CardFits, TypeOK, Schedules
  <2> QED
    BY <2>1, <2>2, GivenAssumption DEF CardFits, TypeOK
<1>2. PICK m \in Sm2Update(card, q, now) : card' = [m EXCEPT !.total = 1]
  BY DEF Review
<1>3. m \in Schedules
  BY <1>1, <1>2, Sm2Type
<1>4. PICK i \in NextIntervals(card, q) : m = Reviewed(card, q, now, i)
  BY <1>2 DEF Sm2Update
<1>5. /\ card'.ef = NextEase(card.ef, q) /\ card'.interval = i
      /\ card'.reps = NextReps(card, q)
      /\ card'.forget = IF Remembered(q) THEN 0 ELSE (card.forget + 1) % U8
  BY <1>2, <1>3, <1>4 DEF Schedules, Reviewed
<1>6. card' \in Schedules
  <2>1. 1 \in 0..(U16 - 1)
    BY SMT DEF U16
  <2> QED
    BY <1>2, <1>3, <2>1 DEF Schedules
<1>7. fails' \in 0..MaxFails
  <2>1. fails' = IF Remembered(q) THEN 0 ELSE fails + 1
    BY DEF Review
  <2>2. ~Remembered(q) => fails < MaxFails
    BY DEF Review
  <2> QED
    BY <1>1, <2>1, <2>2, BoundAssumption, SMT
<1>8. TypeOK'
  BY <1>6, <1>7 DEF CardFits, TypeOK, Review
<1>9. MinEF <= card'.ef /\ card'.ef <= MaxEF
  <2>1. EaseStep(q) \in Int
    BY <1>1, SMT DEF EaseStep, Qualities
  <2>2. MinEF <= NextEase(card.ef, q)
    BY <1>1, <2>1, SMT DEF NextEase, MinEF
  <2>3. NextEase(card.ef, q) <= MaxEF
    BY DEF Review
  <2> QED
    BY <1>5, <2>2, <2>3
<1>10. /\ EaseStaysLow => (card'.reps # 0 => card'.interval # 0)
       /\ card'.reps = 1 => card'.interval = 1
       /\ card'.reps <= MaxReps
  <2>1. CASE ~Remembered(q)
    <3>1. card'.reps = 0
      BY <1>5, <2>1 DEF NextReps
    <3>2. 0 <= MaxReps
      BY BoundAssumption, SMT
    <3> QED
      BY <3>1, <3>2
  <2>2. CASE Remembered(q)
    <3>1. card.reps < MaxReps
      BY <2>2 DEF Review
    <3>2. card'.reps = (card.reps + 1) % U16
      BY <1>5, <2>2 DEF NextReps
    <3>3. card'.reps = card.reps + 1 /\ card'.reps <= MaxReps
      <4>1. \A n, b : n \in Nat /\ b \in 0..(U16 - 1) /\ n < b =>
                        (n + 1) % U16 = n + 1 /\ n + 1 <= b
        BY SMTT(30) DEF U16
      <4> QED
        BY <1>1, <3>1, <3>2, <4>1, BoundAssumption
    <3>4. CASE card.reps = 0
      <4>1. card'.interval = 1
        BY <1>4, <1>5, <3>4 DEF NextIntervals
      <4> QED
        BY <3>3, <4>1
    <3>5. CASE card.reps = 1
      <4>1. card'.interval = 6 /\ card'.reps = 2
        BY <1>4, <1>5, <2>2, <3>3, <3>5 DEF NextIntervals
      <4> QED
        BY <3>3, <4>1
    <3>6. CASE card.reps # 0 /\ card.reps # 1
      <4>1. card'.reps # 1
        BY <1>1, <3>3, <3>6, SMT
      <4>2. ASSUME EaseStaysLow PROVE card'.interval # 0
        <5>1. card.interval # 0 /\ MinEF <= card.ef
          BY <3>6, <4>2 DEF CardFits
        <5>2. card.ef <= 1795
          BY <1>1, <4>2, BoundAssumption, SMT DEF CardFits, EaseStaysLow, DefaultEF
        <5>3. m.interval >= card.interval
          BY <1>1, <1>2, <2>2, <3>6, <5>1, <5>2, SuccessGrows
        <5>4. \A a, b : a \in 0..MaxInterval /\ b \in 0..MaxInterval /\ a # 0 /\ b >= a
                => b # 0
          BY SMT
        <5>5. card.interval \in 0..MaxInterval /\ m.interval \in 0..MaxInterval
          BY <1>1, <1>3 DEF Schedules
        <5>6. m.interval = i
          BY <1>4 DEF Reviewed
        <5> QED
          BY <1>5, <5>1, <5>3, <5>4, <5>5, <5>6
      <4> QED
        BY <3>3, <4>1, <4>2
    <3> QED
      BY <3>4, <3>5, <3>6
  <2> QED
    BY <2>1, <2>2
<1>11. card'.forget = fails' % U8
  <2>1. \A a \in Nat : ((a % U8) + 1) % U8 = (a + 1) % U8
    BY SMT DEF U8
  <2>2. 0 % U8 = 0
    BY SMT DEF U8
  <2> QED
    BY <1>1, <1>5, <2>1, <2>2 DEF CardFits, Review
<1> QED
  BY <1>8, <1>9, <1>10, <1>11 DEF CardFits

(* Every step does.                                                        *)
LEMMA StepFits == CardFits /\ [Next]_vars => CardFits'
<1> SUFFICES ASSUME CardFits, [Next]_vars PROVE CardFits'
  OBVIOUS
<1>1. CASE \E q \in Given : Review(q)
  BY <1>1, ReviewFits
<1>2. ASSUME NEW d \in Practice, NEW correct \in BOOLEAN, NEW score \in Scores,
             Practise(d, correct, score)
      PROVE  CardFits'
  <2>1. skill' \in [Dimensions -> 0..(U8 - 1)]
    BY <1>2, PractisedType, PracticeAssumption, ScoresAssumption
    DEF Practise, CardFits, TypeOK
  <2>2. overall' \in 0..(U8 - 1)
    BY <1>2, <2>1, OverallsType DEF Practise
  <2> QED
    BY <1>2, <2>1, <2>2 DEF Practise, CardFits, TypeOK
<1>3. CASE NextDay
  <2>1. now' \in 0..MaxDay
    BY <1>3, BoundAssumption, SMT DEF NextDay, CardFits, TypeOK
  <2> QED
    BY <1>3, <2>1 DEF NextDay, CardFits, TypeOK
<1>4. CASE UNCHANGED vars
  BY <1>4 DEF vars, CardFits, TypeOK
<1> QED
  BY <1>1, <1>2, <1>3, <1>4 DEF Next

LEMMA CardAlways == Spec => []CardFits
<1> QED
  BY CardInit, StepFits, PTL DEF Spec

(* The fields of a mastery record stay within their integer types and the  *)
(* interval within ten years, over any life of the card.                   *)
THEOREM CardTypes == Spec => []TypeOK
<1>1. CardFits => TypeOK
  BY DEF CardFits
<1> QED
  BY <1>1, CardAlways, PTL

-----------------------------------------------------------------------------
(* What wc_recommend_mode says after three failures, and of a due card,    *)
(* follows from the count of failures kept in one byte, the order of the   *)
(* rules and the search for the weakest dimension.                         *)
LEMMA ModeFits == CardFits => ModeFitsCard
<1> SUFFICES ASSUME CardFits PROVE ModeFitsCard
  OBVIOUS
<1> DEFINE rules == ModeRules(card, skill, overall, now)
<1>1. /\ card.total = 0 => rules[1][1]
      /\ card.total # 0 => ~rules[1][1]
      /\ Relapsed(card) => rules[2][1]
      /\ ~Relapsed(card) => ~rules[2][1]
      /\ ~(skill["recognition"] > 80) => ~rules[3][1]
      /\ ~(skill["recognition"] > 70) => ~rules[4][1] /\ ~rules[5][1]
      /\ ~(overall > 85 /\ card.streak >= 5) => ~rules[6][1]
      /\ now >= card.next => rules[7][1]
  BY Zenon DEF ModeRules
<1>0. /\ rules[1][2] = "flashcard" /\ rules[2][2] = "flashcard"
      /\ rules[7][2] = WeakestMode(skill)
  BY Zenon DEF ModeRules
<1> HIDE DEF rules
<1>2. fails \in Nat /\ card.forget = fails % U8
  <2>1. \A a, b : a \in 0..b => a \in Nat
    OBVIOUS
  <2> QED
    BY <2>1 DEF CardFits, TypeOK
<1>3. FlashcardAfterThreeForgets
  <2> SUFFICES ASSUME fails \in 3..(U8 - 1) PROVE Mode = "flashcard"
    BY DEF FlashcardAfterThreeForgets
  <2>1. Relapsed(card)
    <3>1. \A n : n \in 3..(U8 - 1) => n % U8 >= 3
      BY SMT DEF U8
    <3> QED
      BY <1>2, <3>1 DEF Relapsed
  <2>2. CASE card.total = 0
    <3>1. rules[1][1] /\ \A j \in 1..(1 - 1) : ~rules[j][1]
      BY <1>1, <2>2
    <3>2. 1 \in 1..8
      BY SMT
    <3> QED
      BY <1>0, <3>1, <3>2, FirstRule, Zenon DEF Mode, rules
  <2>3. CASE card.total # 0
    <3>1. \A j \in 1..(2 - 1) : j = 1
      BY SMT
    <3>2. rules[2][1] /\ \A j \in 1..(2 - 1) : ~rules[j][1]
      BY <1>1, <2>1, <2>3, <3>1
    <3>3. 2 \in 1..8
      BY SMT
    <3> QED
      BY <1>0, <3>2, <3>3, FirstRule, Zenon DEF Mode, rules
  <2> QED
    BY <2>2, <2>3
<1>4. DueDrillsWeakest
  <2> SUFFICES ASSUME card.total # 0, fails < 3, now >= card.next,
                      skill["recognition"] <= 70,
                      ~(overall > 85 /\ card.streak >= 5)
               PROVE  \E i \in 1..6 : /\ Mode = DrillMode[i]
                                      /\ \A d \in Dimensions :
                                            skill[DrillOrder[i]] <= skill[d]
    BY DEF DueDrillsWeakest
  <2>1. ~Relapsed(card)
    <3>1. \A n \in Nat : n < 3 => ~(n % U8 >= 3)
      BY SMT DEF U8
    <3> QED
      BY <1>2, <3>1 DEF Relapsed
  <2>2. skill \in [Dimensions -> Nat]
    <3>1. \A a, b : a \in 0..b => a \in Nat
      OBVIOUS
    <3> QED
      BY <3>1 DEF CardFits, TypeOK
  <2>3. ~(skill["recognition"] > 80) /\ ~(skill["recognition"] > 70)
    <3>1. \A n \in Nat : n <= 70 => ~(n > 80) /\ ~(n > 70)
      BY SMT
    <3> QED
      BY <2>2, <3>1 DEF Dimensions
  <2>4. /\ ~rules[1][1] /\ ~rules[2][1] /\ ~rules[3][1]
        /\ ~rules[4][1] /\ ~rules[5][1] /\ ~rules[6][1] /\ rules[7][1]
    BY <1>1, <2>1, <2>3
  <2>5. rules[7][1] /\ \A j \in 1..(7 - 1) : ~rules[j][1]
    <3>1. \A j \in 1..(7 - 1) : j = 1 \/ j = 2 \/ j = 3 \/ j = 4 \/ j = 5 \/ j = 6
      BY SMT
    <3> QED
      BY <2>4, <3>1
  <2>6. Mode = WeakestMode(skill)
    <3>1. 7 \in 1..8
      BY SMT
    <3> QED
      BY <1>0, <2>5, <3>1, FirstRule, SMTT(30) DEF Mode, rules
  <2> QED
    BY <2>2, <2>6, WeakestIsMinimal
<1> QED
  BY <1>3, <1>4 DEF ModeFitsCard

(* Three failures in a row, up to 255, show the flashcard whatever else is *)
(* true of the card, and a due card that no earlier rule takes is drilled  *)
(* on a dimension that none is below.                                      *)
THEOREM ModeAlwaysFits == Spec => []ModeFitsCard
<1> QED
  BY CardAlways, ModeFits, PTL

-----------------------------------------------------------------------------
(* As long as the ease factor stays at or below 17.95 a success never      *)
(* brings the next interval below the previous one, for every card and     *)
(* every rounding of the product.                                          *)
THEOREM SuccessAlwaysGrows ==
  ASSUME EaseStaysLow
  PROVE  Spec => SuccessNeverShortensInterval
<1> DEFINE Grows == card'.reps > card.reps /\ card.reps > 0
                      => card'.interval >= card.interval
<1>1. CardFits /\ [Next]_vars => [Grows]_vars
  <2> SUFFICES ASSUME CardFits, Next, card'.reps > card.reps, card.reps > 0
               PROVE  card'.interval >= card.interval
    OBVIOUS
  <2>0. card \in Schedules /\ now \in Nat /\ card.reps \in Nat /\ card.ef \in Nat
    <3>1. \A a, b : a \in 0..b => a \in Nat
      OBVIOUS
    <3> QED
      BY <3>1 DEF CardFits, TypeOK, Schedules
  <2>1. PICK q \in Given : Review(q)
    <3>1. card'.reps # card.reps
      BY <2>0, SMT
    <3> QED
      BY <3>1 DEF Next, Practise, NextDay
  <2>2. PICK m \in Sm2Update(card, q, now) : card' = [m EXCEPT !.total = 1]
    BY <2>1 DEF Review
  <2>3. PICK i \in NextIntervals(card, q) : m = Reviewed(card, q, now, i)
    BY <2>2 DEF Sm2Update
  <2>4. /\ card'.reps = NextReps(card, q) /\ card'.interval = m.interval
    BY <2>2, <2>3 DEF Reviewed
  <2>5. Remembered(q)
    <3>1. ~(0 > card.reps)
      BY <2>0, SMT
    <3> QED
      BY <2>4, <3>1 DEF NextReps
  <2>6. card.reps # 0
    BY <2>0, SMT
  <2>7. MinEF <= card.ef /\ card.ef <= 1795
    BY <2>0, BoundAssumption, EaseStaysLow, SMT DEF CardFits, EaseStaysLow, DefaultEF
  <2>8. m.interval >= card.interval
    BY <2>0, <2>2, <2>5, <2>6, <2>7, SuccessGrows, GivenAssumption, EaseStaysLow DEF CardFits
  <2> QED
    BY <2>4, <2>8
<1> QED
  BY <1>1, CardAlways, PTL DEF Spec, SuccessNeverShortensInterval
=============================================================================
