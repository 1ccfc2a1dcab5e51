------------------------- MODULE CachePersist_proofs -------------------------
(***************************************************************************)
(* Proofs about CachePersist: in every reachable state the chains of the   *)
(* hash index end and hold only keys of their bucket, and while a session  *)
(* has the directory open every key outside `lost` is read, listed and     *)
(* counted as its last store left it.                                      *)
(*                                                                         *)
(* The hard part is that cache_open may put the bucket array of an old     *)
(* index.bin over nodes of cache.bin that were relinked, added and removed *)
(* after it was written.  Nodes are only ever linked towards higher places *)
(* (NodesUp), so no chain has a loop from whatever node it starts.  For an *)
(* array of buckets `heads` and a set T of nodes, Closed says that heads   *)
(* and the links of T stay inside T and inside the bucket, and Unjumped    *)
(* that no link of T passes over a node: a walk from its bucket meets it.  *)
(* Both are kept for the array in memory and for the older one in          *)
(* index.bin, whose bucket number divides that of the newer one (Older):   *)
(* Moves collects what a change of the keys K preserves for both, and its  *)
(* part WalksKept says it of every older array.  A doubled array relinks   *)
(* all nodes, which is why every key is at risk until index.bin is written *)
(* again (AtRisk); a doubling that is broken off leaves a mixture of the   *)
(* two that no older array is led out of its buckets by (HalfOther).       *)
(*                                                                         *)
(* The invariant is Persisted: InPhase for the state of the cache in a     *)
(* session (Live) or between two (Resting), Booked for the histories, and  *)
(* Tallied for entry_count, which cache_open takes from the header of      *)
(* cache.bin.                                                              *)
(***************************************************************************)
EXTENDS CachePersist, SequenceTheorems, NaturalsInduction, WellFoundedInduction, FiniteSetTheorems, TLAPS

-----------------------------------------------------------------------------
(* Numbers.                                                                *)

(* A nonempty set of numbers has a least member, and Min is it.            *)
LEMMA LeastNumber ==
  ASSUME NEW S \in SUBSET Nat, S # {}
  PROVE  Min(S) \in S /\ \A k \in S : Min(S) <= k
<1>1. PICK m \in S : \A k \in S : ~(<<k, m>> \in OpToRel(<, Nat))
  BY NatLessThanWellFounded, WFMin
<1>2. ASSUME NEW k \in S PROVE m <= k
  <2>1. k \in Nat /\ m \in Nat
    OBVIOUS
  <2>2. <<k, m>> \in OpToRel(<, Nat) <=> k < m
    BY <2>1 DEF OpToRel
  <2>3. ~(k < m)
    BY <1>1, <2>2
  <2> QED
    BY <2>1, <2>3
<1>3. \E x \in S : \A y \in S : x <= y
  BY <1>2
<1> QED
  BY <1>3, Zenon DEF Min

(* Remainders.                                                             *)
LEMMA ModRange ==
  ASSUME NEW x \in Nat, NEW B \in Nat, B > 0
  PROVE  x % B \in 0..(B - 1) /\ x \div B \in Nat /\ x = B * (x \div B) + (x % B)
OBVIOUS

LEMMA ModIs ==
  ASSUME NEW B \in Nat, B > 0, NEW q \in Nat, NEW r \in 0..(B - 1)
  PROVE  (B * q + r) % B = r
<1> DEFINE x == B * q + r
           p == x \div B
           s == x % B
<1>1. x \in Nat /\ p \in Nat /\ s \in 0..(B - 1) /\ x = B * p + s
  OBVIOUS
<1>2. B * q + r = B * p + s
  BY <1>1
<1> HIDE DEF x, p, s
<1>3. p = q
  <2>1. ASSUME p < q PROVE FALSE
    <3>1. PICK d \in Nat : q = p + 1 + d
      <4>1. q - p - 1 \in Nat
        BY <1>1, <2>1
      <4> QED
        BY <1>1, <4>1
    <3>2. B * q = B * p + B + B * d
      BY <1>1, <3>1
    <3>3. B * d \in Nat /\ B * p \in Nat /\ B * q \in Nat
      BY <1>1, <3>1
    <3> QED
      BY <1>1, <1>2, <3>2, <3>3
  <2>2. ASSUME q < p PROVE FALSE
    <3>1. PICK d \in Nat : p = q + 1 + d
      <4>1. p - q - 1 \in Nat
        BY <1>1, <2>2
      <4> QED
        BY <1>1, <4>1
    <3>2. B * p = B * q + B + B * d
      BY <1>1, <3>1
    <3>3. B * d \in Nat /\ B * p \in Nat /\ B * q \in Nat
      BY <1>1, <3>1
    <3> QED
      BY <1>1, <1>2, <3>2, <3>3
  <2> QED
    BY <1>1, <2>1, <2>2
<1>4. B * q \in Nat
  OBVIOUS
<1>5. s = r
  BY <1>1, <1>2, <1>3, <1>4
<1> QED
  BY <1>5 DEF s, x

LEMMA ModBelow ==
  ASSUME NEW B \in Nat, NEW b \in 0..(B - 1)
  PROVE  b % B = b
OBVIOUS

(* A bucket of the doubled array comes from one of the old.                *)
LEMMA ModHalf ==
  ASSUME NEW x \in Nat, NEW B \in Nat, B > 0
  PROVE  (x % (2 * B)) % B = x % B
<1> DEFINE q == x \div (2 * B)
           r == x % (2 * B)
<1>1. q \in Nat /\ r \in 0..(2 * B - 1) /\ x = (2 * B) * q + r
  OBVIOUS
<1> HIDE DEF q, r
<1>2. 2 * q \in Nat /\ (2 * B) * q = B * (2 * q)
  BY <1>1
<1>3. CASE r < B
  <2>1. r % B = r
    BY <1>1, <1>3
  <2>2. (B * (2 * q) + r) % B = r
    BY <1>1, <1>2, <1>3, ModIs
  <2> QED
    BY <1>1, <1>2, <2>1, <2>2 DEF r
<1>4. CASE r >= B
  <2>1. r - B \in 0..(B - 1) /\ r = B * 1 + (r - B)
    BY <1>1, <1>4
  <2>2. r % B = r - B
    BY <2>1, ModIs
  <2>3. 2 * q + 1 \in Nat /\ B * (2 * q + 1) = B * (2 * q) + B
    BY <1>1, <1>2
  <2>4. (B * (2 * q + 1) + (r - B)) % B = r - B
    BY <2>1, <2>3, ModIs
  <2>5. x = B * (2 * q + 1) + (r - B)
    BY <1>1, <1>2, <2>1, <2>3
  <2> QED
    BY <2>2, <2>4, <2>5 DEF r
<1> QED
  BY <1>1, <1>3, <1>4

-----------------------------------------------------------------------------
(* Chains.                                                                 *)

(* What the entries and nodes of a pool are: a node belongs to an entry,   *)
(* and points to a node that was written later, or nowhere.                *)
AnEntry == [key : Keys, deleted : BOOLEAN]

ANode == [entry : Nat, next : Nat]

NodesUp(nodes) ==
  /\ nodes \in Seq(ANode)
  /\ \A n \in DOMAIN nodes : nodes[n].next # 0 => nodes[n].next \in DOMAIN nodes /\ n < nodes[n].next

(* What walking from `first` on gives: an increasing sequence that ends.   *)
IsChain(nodes, first, ch) ==
  /\ ch \in Seq(DOMAIN nodes)
  /\ Len(ch) <= Len(nodes)
  /\ Len(ch) = 0 <=> first = 0
  /\ Len(ch) > 0 => ch[1] = first /\ nodes[ch[Len(ch)]].next = 0
  /\ \A i \in 1..(Len(ch) - 1) : ch[i + 1] = nodes[ch[i]].next
  /\ \A i, j \in 1..Len(ch) : i < j => ch[i] < ch[j]

WalkStep(nodes, first, f, i) ==
  IF i = 0 THEN first ELSE IF f[i - 1] = 0 THEN 0 ELSE nodes[f[i - 1]].next

IsWalk(nodes, first, n, f) == f = [i \in 0..n |-> WalkStep(nodes, first, f, i)]

(* The walk that Chain describes by recursion exists.                      *)
LEMMA WalkExists ==
  ASSUME NEW nodes, NEW first, NEW n \in Nat
  PROVE  \E f : IsWalk(nodes, first, n, f)
<1> DEFINE Bad == {k \in Nat : ~ \E f : IsWalk(nodes, first, k, f)}
<1>1. ASSUME Bad # {} PROVE FALSE
  <2> DEFINE k == Min(Bad)
  <2>1. k \in Bad /\ \A j \in Bad : k <= j
    BY <1>1, LeastNumber
  <2> HIDE DEF k
  <2>2. CASE k = 0
    <3> DEFINE g == [i \in 0..0 |-> first]
    <3>1. IsWalk(nodes, first, 0, g)
      BY DEF IsWalk, WalkStep
    <3> QED
      BY <2>1, <2>2, <3>1
  <2>3. CASE k # 0
    <3>1. k \in Nat /\ k - 1 \in Nat /\ k - 1 \notin Bad
      BY <2>1, <2>3
    <3>2. PICK f : IsWalk(nodes, first, k - 1, f)
      BY <3>1
    <3> DEFINE g == [i \in 0..k |-> IF i = k THEN WalkStep(nodes, first, f, k) ELSE f[i]]
    <3>3. \A i \in 0..(k - 1) : g[i] = f[i] /\ f[i] = WalkStep(nodes, first, f, i)
      BY <3>1, <3>2 DEF IsWalk
    <3>4. \A i \in 0..k : WalkStep(nodes, first, g, i) = WalkStep(nodes, first, f, i)
      <4> TAKE i \in 0..k
      <4>1. i # 0 => g[i - 1] = f[i - 1]
        BY <3>1, <3>3
      <4> QED
        BY <4>1 DEF WalkStep
    <3>5. \A i \in 0..k : g[i] = WalkStep(nodes, first, g, i)
      BY <3>1, <3>3, <3>4
    <3>6. g = [i \in 0..k |-> WalkStep(nodes, first, g, i)]
      BY <3>5
    <3>7. IsWalk(nodes, first, k, g)
      BY <3>6 DEF IsWalk
    <3> QED
      BY <2>1, <3>7
  <2> QED
    BY <2>2, <2>3
<1> QED
  BY <1>1

(* In a pool whose nodes point upwards the walk rises until it ends.       *)
LEMMA WalkRises ==
  ASSUME NEW nodes, NodesUp(nodes), NEW first \in 0..Len(nodes), NEW f,
         IsWalk(nodes, first, Len(nodes), f)
  PROVE  /\ f \in [0..Len(nodes) -> 0..Len(nodes)]
         /\ f[0] = first
         /\ \A i \in 1..Len(nodes) : f[i] = IF f[i - 1] = 0 THEN 0 ELSE nodes[f[i - 1]].next
         /\ \A i, j \in 0..Len(nodes) : i < j /\ f[j] # 0 => f[i] # 0 /\ f[i] < f[j]
         /\ f[Len(nodes)] = 0
<1> DEFINE N == Len(nodes)
<1>1. N \in Nat /\ DOMAIN nodes = 1..N
  BY LenProperties DEF NodesUp
<1>2. DOMAIN f = 0..N /\ \A i \in 0..N : f[i] = WalkStep(nodes, first, f, i)
  BY <1>1 DEF IsWalk
<1>3. f[0] = first /\ \A i \in 1..N : f[i] = IF f[i - 1] = 0 THEN 0 ELSE nodes[f[i - 1]].next
  BY <1>1, <1>2 DEF WalkStep
<1> HIDE DEF N
<1>4. \A n \in 1..N : nodes[n].next # 0 => nodes[n].next \in 1..N /\ n < nodes[n].next
  BY <1>1 DEF NodesUp
<1>5. \A i \in 0..N : f[i] \in 0..N /\ (f[i] # 0 => f[i] > i)
  <2> DEFINE Bad == {i \in 0..N : ~(f[i] \in 0..N /\ (f[i] # 0 => f[i] > i))}
             i == Min(Bad)
  <2> SUFFICES ASSUME Bad # {} PROVE FALSE
    OBVIOUS
  <2>0. Bad \in SUBSET Nat
    BY <1>1
  <2>1. i \in Bad /\ \A j \in Bad : i <= j
    BY <2>0, LeastNumber
  <2> HIDE DEF i
  <2>2. i # 0
    BY <1>1, <1>3, <2>1 DEF N
  <2>3. i - 1 \in 0..N /\ i - 1 \notin Bad /\ i \in 1..N
    BY <1>1, <2>1, <2>2
  <2>4. f[i - 1] \in 0..N /\ (f[i - 1] # 0 => f[i - 1] > i - 1)
    BY <2>3
  <2>5. f[i] = IF f[i - 1] = 0 THEN 0 ELSE nodes[f[i - 1]].next
    BY <1>3, <2>3
  <2> QED
    BY <1>1, <1>4, <2>1, <2>3, <2>4, <2>5
<1>6. \A j \in 0..N : \A i \in 0..N : i < j /\ f[j] # 0 => f[i] # 0 /\ f[i] < f[j]
  <2> DEFINE Bad == {j \in 0..N : ~ \A i \in 0..N : i < j /\ f[j] # 0 => f[i] # 0 /\ f[i] < f[j]}
             j == Min(Bad)
  <2> SUFFICES ASSUME Bad # {} PROVE FALSE
    OBVIOUS
  <2>0. Bad \in SUBSET Nat
    BY <1>1
  <2>1. j \in Bad /\ \A k \in Bad : j <= k
    BY <2>0, LeastNumber
  <2> HIDE DEF j
  <2>2. PICK i \in 0..N : i < j /\ f[j] # 0 /\ ~(f[i] # 0 /\ f[i] < f[j])
    BY <2>1
  <2>3. j \in 1..N /\ j - 1 \in 0..N /\ j - 1 \notin Bad
    BY <1>1, <2>1, <2>2
  <2>4. f[j] = IF f[j - 1] = 0 THEN 0 ELSE nodes[f[j - 1]].next
    BY <1>3, <2>3
  <2>5. f[j - 1] # 0 /\ f[j - 1] < f[j] /\ f[j] \in Nat /\ f[j - 1] \in Nat /\ f[i] \in Nat
    BY <1>1, <1>4, <1>5, <2>2, <2>3, <2>4
  <2>6. CASE i = j - 1
    BY <2>2, <2>5, <2>6
  <2>7. CASE i < j - 1
    <3>1. f[i] # 0 /\ f[i] < f[j - 1]
      BY <2>3, <2>5, <2>7
    <3> QED
      BY <2>2, <2>5, <3>1
  <2> QED
    BY <1>1, <2>1, <2>2, <2>6, <2>7
<1>7. f[N] = 0
  BY <1>1, <1>5
<1>8. f \in [0..N -> 0..N]
  <2>1. f = [i \in 0..N |-> f[i]]
    BY <1>1 DEF IsWalk, N
  <2> QED
    BY <1>5, <2>1
<1>9. \A i, j \in 0..N : i < j /\ f[j] # 0 => f[i] # 0 /\ f[i] < f[j]
  BY <1>6
<1> QED
  BY <1>3, <1>7, <1>8, <1>9 DEF N

LEMMA ChainIs ==
  ASSUME NEW nodes, NodesUp(nodes), NEW first \in 0..Len(nodes)
  PROVE  IsChain(nodes, first, Chain(nodes, first))
<1> DEFINE N == Len(nodes)
           at == CHOOSE f : f = [i \in 0..N |-> IF i = 0 THEN first
                                              ELSE IF f[i - 1] = 0 THEN 0 ELSE nodes[f[i - 1]].next]
           length == Min({i \in 0..N : at[i] = 0} \union {N + 1})
           ch == [i \in 1..length |-> at[i - 1]]
<1>0. Chain(nodes, first) = ch
  BY DEF Chain
<1>1. N \in Nat /\ DOMAIN nodes = 1..N
  BY LenProperties DEF NodesUp
<1>2. IsWalk(nodes, first, N, at)
  <2>1. \A f : (f = [i \in 0..N |-> IF i = 0 THEN first
                                     ELSE IF f[i - 1] = 0 THEN 0 ELSE nodes[f[i - 1]].next])
               <=> IsWalk(nodes, first, N, f)
    BY DEF IsWalk, WalkStep
  <2>2. \E f : IsWalk(nodes, first, N, f)
    BY <1>1, WalkExists
  <2> QED
    BY <2>1, <2>2
<1> HIDE DEF at
<1>3. /\ at \in [0..N -> 0..N]
      /\ at[0] = first
      /\ \A i \in 1..N : at[i] = IF at[i - 1] = 0 THEN 0 ELSE nodes[at[i - 1]].next
      /\ \A i, j \in 0..N : i < j /\ at[j] # 0 => at[i] # 0 /\ at[i] < at[j]
      /\ at[N] = 0
  BY <1>2, WalkRises
<1> DEFINE Ends == {i \in 0..N : at[i] = 0} \union {N + 1}
<1>4. Ends \in SUBSET Nat /\ Ends # {}
  BY <1>1
<1>5. length \in Ends /\ \A i \in Ends : length <= i
  BY <1>4, LeastNumber
<1> HIDE DEF length
<1>6. length \in 0..N /\ at[length] = 0 /\ \A i \in 0..(length - 1) : at[i] # 0
  BY <1>1, <1>3, <1>5
<1>7. DOMAIN ch = 1..length /\ \A i \in 1..length : ch[i] = at[i - 1] /\ ch[i] \in 1..N
  <2>1. ASSUME NEW i \in 1..length PROVE ch[i] = at[i - 1] /\ ch[i] \in 1..N
    <3>1. i - 1 \in 0..(length - 1) /\ i - 1 \in 0..N
      BY <1>1, <1>6
    <3>2. at[i - 1] \in 0..N /\ at[i - 1] # 0
      BY <1>3, <1>6, <3>1
    <3>3. at[i - 1] \in 1..N
      BY <1>1, <3>2
    <3> QED
      BY <3>3
  <2> QED
    BY <2>1
<1>8. ch \in Seq(DOMAIN nodes) /\ Len(ch) = length
  <2>1. ch \in [1..length -> 1..N] /\ length \in Nat
    BY <1>1, <1>6, <1>7
  <2> QED
    BY <1>1, <2>1, SeqDef, LenProperties
<1> HIDE DEF ch, N
<1>9. Len(ch) > 0 => ch[1] = first /\ nodes[ch[Len(ch)]].next = 0
  <2> SUFFICES ASSUME length > 0 PROVE ch[1] = first /\ nodes[ch[length]].next = 0
    BY <1>1, <1>6, <1>8
  <2>1. ch[1] = at[0] /\ ch[length] = at[length - 1] /\ length \in 1..N
    BY <1>1, <1>6, <1>7
  <2>2. at[length - 1] # 0
    <3>1. length - 1 \in 0..(length - 1)
      BY <1>1, <2>1
    <3> QED
      BY <1>6, <3>1
  <2>3. at[length] = nodes[at[length - 1]].next
    BY <1>3, <2>1, <2>2
  <2> QED
    BY <1>3, <1>6, <2>1, <2>3
<1>10. \A i \in 1..(Len(ch) - 1) : ch[i + 1] = nodes[ch[i]].next
  <2> SUFFICES ASSUME NEW i \in 1..(length - 1) PROVE ch[i + 1] = nodes[ch[i]].next
    BY <1>8
  <2>1. i \in 1..N /\ i \in 1..length /\ i + 1 \in 1..length /\ i - 1 \in 0..(length - 1) /\ (i + 1) - 1 = i
    BY <1>1, <1>6
  <2>2. ch[i + 1] = at[i] /\ ch[i] = at[i - 1] /\ at[i - 1] # 0
    BY <1>6, <1>7, <2>1
  <2>3. at[i] = nodes[at[i - 1]].next
    BY <1>3, <2>1, <2>2
  <2> QED
    BY <2>2, <2>3
<1>11. \A i, j \in 1..Len(ch) : i < j => ch[i] < ch[j]
  BY <1>1, <1>3, <1>6, <1>7, <1>8
<1>12. Len(ch) = 0 <=> first = 0
  BY <1>1, <1>3, <1>6, <1>8
<1>13. IsChain(nodes, first, ch)
  <2>1. Len(ch) <= Len(nodes)
    BY <1>1, <1>6, <1>8 DEF N
  <2>2. ch \in Seq(DOMAIN nodes)
    BY <1>8
  <2> QED
    BY <2>1, <2>2, <1>9, <1>10, <1>11, <1>12 DEF IsChain
<1> QED
  BY <1>0, <1>13

(* A chain stays in a set its links do not leave.                          *)
LEMMA ChainInside ==
  ASSUME NEW nodes, NEW first, NEW ch, IsChain(nodes, first, ch), NEW T,
         first # 0 => first \in T,
         \A n \in T : nodes[n].next # 0 => nodes[n].next \in T,
         0 \notin DOMAIN nodes
  PROVE  \A i \in 1..Len(ch) : ch[i] \in T
<1>1. Len(ch) \in Nat /\ \A i \in 1..Len(ch) : ch[i] \in DOMAIN nodes
  BY ElementOfSeq, LenProperties DEF IsChain
<1> DEFINE Bad == {i \in 1..Len(ch) : ch[i] \notin T}
           i == Min(Bad)
<1> SUFFICES ASSUME Bad # {} PROVE FALSE
  OBVIOUS
<1>2. i \in Bad /\ \A j \in Bad : i <= j
  <2>1. Bad \in SUBSET Nat
    BY <1>1
  <2> QED
    BY <2>1, LeastNumber
<1> HIDE DEF i
<1>3. i # 1
  BY <1>1, <1>2 DEF IsChain
<1>4. i - 1 \in 1..(Len(ch) - 1) /\ i - 1 \notin Bad
  BY <1>1, <1>2, <1>3
<1>5. ch[i - 1] \in T /\ ch[i] = nodes[ch[i - 1]].next
  <2>1. ch[(i - 1) + 1] = nodes[ch[i - 1]].next
    BY <1>4 DEF IsChain
  <2> QED
    BY <1>1, <1>2, <1>4, <2>1
<1>6. ch[i] # 0
  BY <1>1, <1>2
<1> QED
  BY <1>2, <1>5, <1>6

(* A node no link of the chain jumps over is met.                          *)
LEMMA ChainMeets ==
  ASSUME NEW nodes, NEW first, NEW ch, IsChain(nodes, first, ch), NEW m \in Nat, DOMAIN nodes \subseteq Nat,
         first \in 1..m,
         \A i \in 1..Len(ch) : ch[i] < m => nodes[ch[i]].next \in 1..m
  PROVE  \E i \in 1..Len(ch) : ch[i] = m
<1>1. Len(ch) \in Nat /\ \A i \in 1..Len(ch) : ch[i] \in Nat
  BY ElementOfSeq, LenProperties DEF IsChain
<1>2. Len(ch) > 0 /\ ch[1] = first /\ nodes[ch[Len(ch)]].next = 0
  BY <1>1 DEF IsChain
<1> DEFINE Far == {i \in 1..Len(ch) : ch[i] >= m}
           i == Min(Far)
<1>3. Len(ch) \in Far
  BY <1>1, <1>2
<1>4. i \in Far /\ \A j \in Far : i <= j
  <2>1. Far \in SUBSET Nat
    BY <1>1
  <2> QED
    BY <1>3, <2>1, LeastNumber
<1> HIDE DEF i
<1>5. CASE i = 1
  BY <1>1, <1>2, <1>4, <1>5
<1>6. CASE i # 1
  <2>1. i - 1 \in 1..(Len(ch) - 1) /\ i - 1 \in 1..Len(ch) /\ i - 1 \notin Far
    BY <1>1, <1>4, <1>6
  <2>2. ch[i - 1] < m
    BY <1>1, <2>1
  <2>3. ch[(i - 1) + 1] = nodes[ch[i - 1]].next
    BY <2>1 DEF IsChain
  <2>4. (i - 1) + 1 = i
    BY <1>1, <1>4
  <2>5. ch[i] \in 1..m
    BY <2>1, <2>2, <2>3, <2>4
  <2> QED
    BY <1>1, <1>4, <2>5
<1> QED
  BY <1>5, <1>6

-----------------------------------------------------------------------------
(* The cache as a record, and the hash index in it.                        *)

HeadArrays == UNION {[0..(n - 1) -> Nat] : n \in Nat}

ACache ==
  [pool : Seq(AnEntry), nodes : Seq(ANode), heads : HeadArrays, size : Nat, sorted : SUBSET Nat,
   tree : BOOLEAN, names : SUBSET Nat, count : Nat, mem : Nat]

IsCache(c) ==
  /\ c \in ACache
  /\ NodesUp(c.nodes)
  /\ \A n \in DOMAIN c.nodes : c.nodes[n].entry \in DOMAIN c.pool
  /\ \A b \in DOMAIN c.heads : c.heads[b] \in 0..Len(c.nodes)
  /\ c.sorted \subseteq DOMAIN c.pool
  /\ c.names \subseteq DOMAIN c.pool

HashAt(c, n) == HashOf[KeyAt(c, n)]

(* T holds what an array of buckets leads to and perhaps more: no link     *)
(* leaves it or changes the bucket.                                        *)
Closed(c, heads, T) ==
  /\ T \subseteq DOMAIN c.nodes
  /\ \A b \in DOMAIN heads : heads[b] # 0 => heads[b] \in T /\ HashAt(c, heads[b]) % Buckets(heads) = b
  /\ \A n \in T : LET m == c.nodes[n].next
                  IN  m # 0 => m \in T /\ HashAt(c, m) % Buckets(heads) = HashAt(c, n) % Buckets(heads)

(* Nothing in T that comes before the node m in its bucket leads past it,  *)
(* so that whoever walks the bucket meets it.                              *)
Unjumped(c, heads, T, m) ==
  /\ heads[HashAt(c, m) % Buckets(heads)] \in 1..m
  /\ \A n \in T : n < m /\ HashAt(c, n) % Buckets(heads) = HashAt(c, m) % Buckets(heads)
                  => c.nodes[n].next \in 1..m

(* The index leads to the nodes of S and to no other.                      *)
Ordered(c, S) ==
  /\ Closed(c, c.heads, S)
  /\ Buckets(c.heads) = 0 => S = {}
  /\ \A m \in S : Unjumped(c, c.heads, S, m)

LEMMA BucketsIs ==
  ASSUME NEW h \in HeadArrays
  PROVE  /\ Buckets(h) \in Nat
         /\ DOMAIN h = 0..(Buckets(h) - 1)
         /\ h \in [0..(Buckets(h) - 1) -> Nat]
<1>1. PICK n \in Nat : h \in [0..(n - 1) -> Nat]
  BY DEF HeadArrays
<1>2. DOMAIN h = 0..(n - 1)
  BY <1>1
<1>3. Cardinality(0..(n - 1)) = n
  <2>1. 0 \in Int /\ n - 1 \in Int
    OBVIOUS
  <2>2. Cardinality(0..(n - 1)) = IF 0 > n - 1 THEN 0 ELSE (n - 1) - 0 + 1
    BY <2>1, FS_Interval
  <2> QED
    BY <2>2
<1>4. Buckets(h) = n
  BY <1>2, <1>3 DEF Buckets
<1> QED
  BY <1>1, <1>2, <1>4

LEMMA CacheFields ==
  ASSUME NEW c, IsCache(c)
  PROVE  /\ c.pool \in Seq(AnEntry) /\ c.nodes \in Seq(ANode) /\ c.heads \in HeadArrays
         /\ Len(c.pool) \in Nat /\ DOMAIN c.pool = 1..Len(c.pool)
         /\ Len(c.nodes) \in Nat /\ DOMAIN c.nodes = 1..Len(c.nodes)
         /\ \A o \in DOMAIN c.pool : c.pool[o].key \in Keys /\ c.pool[o].deleted \in BOOLEAN
         /\ \A n \in DOMAIN c.nodes : c.nodes[n] \in ANode /\ c.nodes[n].entry \in DOMAIN c.pool /\ c.nodes[n].next \in 0..Len(c.nodes)
         /\ \A n \in DOMAIN c.nodes : KeyAt(c, n) \in Keys /\ HashAt(c, n) \in Nat
         /\ Buckets(c.heads) \in Nat /\ DOMAIN c.heads = 0..(Buckets(c.heads) - 1)
         /\ \A b \in DOMAIN c.heads : c.heads[b] \in 0..Len(c.nodes)
<1>1. c.pool \in Seq(AnEntry) /\ c.nodes \in Seq(ANode) /\ c.heads \in HeadArrays
  BY DEF IsCache, ACache
<1>2. /\ Len(c.pool) \in Nat /\ DOMAIN c.pool = 1..Len(c.pool)
      /\ Len(c.nodes) \in Nat /\ DOMAIN c.nodes = 1..Len(c.nodes)
  BY <1>1, LenProperties
<1>3. \A o \in DOMAIN c.pool : c.pool[o] \in AnEntry
  BY <1>1, <1>2, ElementOfSeq
<1>4. \A o \in DOMAIN c.pool : c.pool[o].key \in Keys /\ c.pool[o].deleted \in BOOLEAN
  BY <1>3 DEF AnEntry
<1>5. \A n \in DOMAIN c.nodes : c.nodes[n] \in ANode
  BY <1>1, <1>2, ElementOfSeq
<1>6. \A n \in DOMAIN c.nodes : c.nodes[n].entry \in DOMAIN c.pool
  BY DEF IsCache
<1>7. \A n \in DOMAIN c.nodes : c.nodes[n].next \in 0..Len(c.nodes)
  <2> TAKE n \in DOMAIN c.nodes
  <2>1. c.nodes[n].next \in Nat
    BY <1>5 DEF ANode
  <2>2. c.nodes[n].next # 0 => c.nodes[n].next \in 1..Len(c.nodes)
    BY <1>2 DEF IsCache, NodesUp
  <2> QED
    BY <1>2, <2>1, <2>2
<1>8. \A n \in DOMAIN c.nodes : KeyAt(c, n) \in Keys
  BY <1>4, <1>6 DEF KeyAt
<1>9. \A n \in DOMAIN c.nodes : HashAt(c, n) \in Nat
  BY <1>8, PersistAssumption DEF HashAt
<1>10. \A b \in DOMAIN c.heads : c.heads[b] \in 0..Len(c.nodes)
  BY DEF IsCache
<1> QED
  BY <1>1, <1>2, <1>4, <1>5, <1>6, <1>7, <1>8, <1>9, <1>10, BucketsIs

(* What a bucket leads to lies in every set that is closed for the array,  *)
(* and has its hash.                                                       *)
LEMMA ChainClosed ==
  ASSUME NEW c, IsCache(c), NEW T, Closed(c, c.heads, T), NEW b \in DOMAIN c.heads
  PROVE  LET ch == Chain(c.nodes, c.heads[b])
         IN  /\ IsChain(c.nodes, c.heads[b], ch)
             /\ Len(ch) \in Nat /\ DOMAIN ch = 1..Len(ch)
             /\ \A i \in DOMAIN ch : ch[i] \in T /\ ch[i] \in DOMAIN c.nodes /\ HashAt(c, ch[i]) % Buckets(c.heads) = b
<1> DEFINE ch == Chain(c.nodes, c.heads[b])
           Tb == {n \in T : HashAt(c, n) % Buckets(c.heads) = b}
<1>1. NodesUp(c.nodes) /\ c.heads[b] \in 0..Len(c.nodes)
  BY DEF IsCache
<1>2. IsChain(c.nodes, c.heads[b], ch)
  BY <1>1, ChainIs
<1>3. Len(ch) \in Nat /\ DOMAIN ch = 1..Len(ch) /\ \A i \in 1..Len(ch) : ch[i] \in DOMAIN c.nodes
  BY <1>2, ElementOfSeq, LenProperties DEF IsChain
<1>4. 0 \notin DOMAIN c.nodes
  BY CacheFields
<1>5. c.heads[b] # 0 => c.heads[b] \in Tb
  BY DEF Closed
<1>6. \A n \in Tb : c.nodes[n].next # 0 => c.nodes[n].next \in Tb
  BY DEF Closed
<1> HIDE DEF ch, Tb
<1>7. \A i \in 1..Len(ch) : ch[i] \in Tb
  BY <1>2, <1>4, <1>5, <1>6, ChainInside
<1>8. \A i \in 1..Len(ch) : ch[i] \in T /\ HashAt(c, ch[i]) % Buckets(c.heads) = b
  BY <1>7 DEF Tb
<1> QED
  BY <1>2, <1>3, <1>8 DEF ch

LEMMA ChainReaches ==
  ASSUME NEW c, IsCache(c), NEW T, Closed(c, c.heads, T), NEW m \in T, Unjumped(c, c.heads, T, m),
         Buckets(c.heads) # 0
  PROVE  LET b  == HashAt(c, m) % Buckets(c.heads)
             ch == Chain(c.nodes, c.heads[b])
         IN  b \in DOMAIN c.heads /\ \E i \in DOMAIN ch : ch[i] = m
<1> DEFINE b  == HashAt(c, m) % Buckets(c.heads)
           ch == Chain(c.nodes, c.heads[b])
<1>1. m \in DOMAIN c.nodes
  BY DEF Closed
<1>2. /\ Buckets(c.heads) \in Nat /\ DOMAIN c.heads = 0..(Buckets(c.heads) - 1)
      /\ DOMAIN c.nodes \subseteq Nat /\ m \in Nat /\ HashAt(c, m) \in Nat
  BY <1>1, CacheFields
<1>3. b \in DOMAIN c.heads
  <2>1. Buckets(c.heads) > 0
    BY <1>2
  <2> QED
    BY <1>2, <2>1, ModRange
<1>4. /\ IsChain(c.nodes, c.heads[b], ch)
      /\ Len(ch) \in Nat /\ DOMAIN ch = 1..Len(ch)
      /\ \A i \in DOMAIN ch : ch[i] \in T /\ HashAt(c, ch[i]) % Buckets(c.heads) = b
  BY <1>3, ChainClosed
<1>5. c.heads[b] \in 1..m
  BY DEF Unjumped
<1>6. \A i \in 1..Len(ch) : ch[i] < m => c.nodes[ch[i]].next \in 1..m
  BY <1>4 DEF Unjumped
<1> HIDE DEF b, ch
<1>7. \E i \in 1..Len(ch) : ch[i] = m
  BY <1>2, <1>4, <1>5, <1>6, ChainMeets, SMTT(30)
<1> QED
  BY <1>3, <1>4, <1>7 DEF b, ch

(* From any closed set to exactly what the array leads to.                 *)
LEMMA LinkedOrdered ==
  ASSUME NEW c, IsCache(c), NEW T, Closed(c, c.heads, T)
  PROVE  /\ Ordered(c, Linked(c))
         /\ Linked(c) \subseteq T
         /\ Buckets(c.heads) # 0 => \A m \in T : Unjumped(c, c.heads, T, m) => m \in Linked(c)
<1> DEFINE B == Buckets(c.heads)
           ch(b) == Chain(c.nodes, c.heads[b])
           S == Linked(c)
<1>1. /\ B \in Nat /\ DOMAIN c.heads = 0..(B - 1)
      /\ Len(c.nodes) \in Nat /\ DOMAIN c.nodes = 1..Len(c.nodes)
      /\ \A n \in DOMAIN c.nodes : c.nodes[n].next \in 0..Len(c.nodes)
  BY CacheFields
<1>2. \A b \in DOMAIN c.heads :
        /\ IsChain(c.nodes, c.heads[b], ch(b))
        /\ Len(ch(b)) \in Nat /\ DOMAIN ch(b) = 1..Len(ch(b))
        /\ \A i \in DOMAIN ch(b) : ch(b)[i] \in T /\ ch(b)[i] \in DOMAIN c.nodes /\ HashAt(c, ch(b)[i]) % B = b
  BY ChainClosed
<1>3. \A n : n \in S <=> \E b \in DOMAIN c.heads : \E i \in DOMAIN ch(b) : ch(b)[i] = n
  BY <1>2 DEF Linked
<1> HIDE DEF ch, S
<1>4. S \subseteq T /\ S \subseteq DOMAIN c.nodes
  BY <1>2, <1>3
<1>5. \A n \in S : /\ HashAt(c, n) % B \in DOMAIN c.heads
                   /\ \E i \in DOMAIN ch(HashAt(c, n) % B) : ch(HashAt(c, n) % B)[i] = n
  BY <1>2, <1>3
<1>6. ASSUME NEW b \in DOMAIN c.heads, c.heads[b] # 0
      PROVE  c.heads[b] \in S /\ HashAt(c, c.heads[b]) % B = b /\ ch(b)[1] = c.heads[b] /\ 1 \in DOMAIN ch(b)
  <2>1. Len(ch(b)) # 0
    BY <1>2, <1>6 DEF IsChain
  <2>2. 1 \in DOMAIN ch(b) /\ Len(ch(b)) > 0
    BY <1>2, <2>1
  <2>3. ch(b)[1] = c.heads[b]
    BY <1>2, <2>2 DEF IsChain
  <2> QED
    BY <1>2, <1>3, <2>2, <2>3
<1>7. ASSUME NEW b \in DOMAIN c.heads, NEW i \in DOMAIN ch(b)
      PROVE  \/ i = Len(ch(b)) /\ c.nodes[ch(b)[i]].next = 0
             \/ i + 1 \in DOMAIN ch(b) /\ c.nodes[ch(b)[i]].next = ch(b)[i + 1]
  <2>1. i \in 1..Len(ch(b)) /\ Len(ch(b)) \in Nat
    BY <1>2
  <2>2. CASE i = Len(ch(b))
    <3>1. Len(ch(b)) > 0
      BY <2>1, <2>2
    <3> QED
      BY <1>2, <2>2, <3>1 DEF IsChain
  <2>3. CASE i # Len(ch(b))
    <3>1. i \in 1..(Len(ch(b)) - 1) /\ i + 1 \in 1..Len(ch(b))
      BY <2>1, <2>3
    <3> QED
      BY <1>2, <3>1 DEF IsChain
  <2> QED
    BY <2>2, <2>3
<1>8. Closed(c, c.heads, S)
  <2>1. ASSUME NEW n \in S, c.nodes[n].next # 0
        PROVE  c.nodes[n].next \in S /\ HashAt(c, c.nodes[n].next) % B = HashAt(c, n) % B
    <3>0. PICK b \in DOMAIN c.heads : \E i \in DOMAIN ch(b) : ch(b)[i] = n
      BY <1>3
    <3>1. PICK i \in DOMAIN ch(b) : ch(b)[i] = n
      BY <3>0
    <3>2. i + 1 \in DOMAIN ch(b) /\ c.nodes[n].next = ch(b)[i + 1]
      BY <1>7, <2>1, <3>1
    <3> QED
      BY <1>2, <1>3, <3>1, <3>2
  <2> QED
    BY <1>4, <1>6, <2>1 DEF Closed
<1>9. B = 0 => S = {}
  BY <1>1, <1>3
<1>10. ASSUME NEW m \in S PROVE Unjumped(c, c.heads, S, m)
  <2> DEFINE b == HashAt(c, m) % B
  <2>1. b \in DOMAIN c.heads
    BY <1>5
  <2>2. PICK j \in DOMAIN ch(b) : ch(b)[j] = m
    BY <1>5
  <2> HIDE DEF b
  <2>3. /\ j \in 1..Len(ch(b)) /\ Len(ch(b)) \in Nat /\ m \in Nat
        /\ \A i \in 1..Len(ch(b)) : ch(b)[i] \in Nat
        /\ \A i, k \in 1..Len(ch(b)) : i < k => ch(b)[i] < ch(b)[k]
    BY <1>1, <1>2, <1>4, <2>1, <2>2, SMTT(30) DEF IsChain
  <2>4. c.heads[b] \in 1..m
    <3>1. c.heads[b] # 0
      BY <1>2, <2>1, <2>3 DEF IsChain
    <3>2. c.heads[b] = ch(b)[1] /\ 1 \in DOMAIN ch(b) /\ c.heads[b] \in 1..Len(c.nodes)
      BY <1>1, <1>4, <1>6, <2>1, <3>1
    <3>3. 1 \in 1..Len(ch(b))
      BY <2>3
    <3>4. ch(b)[1] <= m
      BY <2>2, <2>3, <3>3
    <3> QED
      BY <1>1, <2>3, <3>2, <3>4
  <2>5. ASSUME NEW n \in S, n < m, HashAt(c, n) % B = b PROVE c.nodes[n].next \in 1..m
    <3>1. PICK i \in DOMAIN ch(b) : ch(b)[i] = n
      BY <1>5, <2>5
    <3>2. i \in 1..Len(ch(b)) /\ n \in Nat
      BY <1>1, <1>2, <1>4, <2>1, <2>5
    <3>3. i < j
      <4>1. ~(j < i) /\ i # j
        BY <2>2, <2>3, <2>5, <3>1, <3>2
      <4> QED
        BY <2>3, <3>2, <4>1
    <3>4. i + 1 \in DOMAIN ch(b) /\ c.nodes[n].next = ch(b)[i + 1]
      BY <1>7, <2>1, <2>3, <3>1, <3>2, <3>3
    <3>5. i + 1 \in 1..Len(ch(b)) /\ ch(b)[i + 1] <= m
      BY <1>2, <2>1, <2>2, <2>3, <3>2, <3>3, <3>4
    <3>6. ch(b)[i + 1] \in DOMAIN c.nodes
      BY <1>2, <2>1, <3>4
    <3> QED
      BY <1>1, <2>3, <3>4, <3>5, <3>6
  <2> QED
    BY <2>4, <2>5 DEF Unjumped, b
<1>11. Ordered(c, S)
  BY <1>8, <1>9, <1>10 DEF Ordered
<1>12. ASSUME B # 0, NEW m \in T, Unjumped(c, c.heads, T, m) PROVE m \in S
  BY <1>3, <1>12, ChainReaches, SMTT(30) DEF ch
<1> QED
  BY <1>4, <1>11, <1>12 DEF S

LEMMA OrderedIsLinked ==
  ASSUME NEW c, IsCache(c), NEW S, Ordered(c, S)
  PROVE  S = Linked(c)
<1>1. Closed(c, c.heads, S)
  BY DEF Ordered
<1>2. Linked(c) \subseteq S
  BY <1>1, LinkedOrdered
<1>3. CASE Buckets(c.heads) = 0
  BY <1>2, <1>3 DEF Ordered
<1>4. CASE Buckets(c.heads) # 0
  <2>1. \A m \in S : m \in Linked(c)
    BY <1>1, <1>4, LinkedOrdered DEF Ordered
  <2> QED
    BY <1>2, <2>1
<1> QED
  BY <1>3, <1>4

-----------------------------------------------------------------------------
(* What the hash operations do to the record.                              *)

(* The same cache but for its hash index.                                  *)
Rewired(c, nodes, heads, size) == [c EXCEPT !.nodes = nodes, !.heads = heads, !.size = size]

SameButHash(c, d) ==
  /\ d.pool = c.pool /\ d.sorted = c.sorted /\ d.tree = c.tree
  /\ d.names = c.names /\ d.count = c.count /\ d.mem = c.mem

LEMMA RewiredFields ==
  ASSUME NEW c \in ACache, NEW nodes, NEW heads, NEW size
  PROVE  LET d == Rewired(c, nodes, heads, size)
         IN  /\ d.nodes = nodes /\ d.heads = heads /\ d.size = size
             /\ SameButHash(c, d)
             /\ nodes \in Seq(ANode) /\ heads \in HeadArrays /\ size \in Nat => d \in ACache
<1> DEFINE d == Rewired(c, nodes, heads, size)
<1>1. d.nodes = nodes /\ d.heads = heads /\ d.size = size /\ SameButHash(c, d)
  BY DEF ACache, Rewired, SameButHash
<1>2. ASSUME nodes \in Seq(ANode), heads \in HeadArrays, size \in Nat PROVE d \in ACache
  BY <1>2 DEF ACache, Rewired
<1> QED
  BY <1>1, <1>2

WithSize(c, s) == [c EXCEPT !.size = s]

WithHead(heads, b, x) == [heads EXCEPT ![b] = x]

WithNext(nodes, n, x) == [nodes EXCEPT ![n].next = x]

LEMMA LinkHead ==
  ASSUME NEW c \in ACache, NEW k, NEW x, NEW s
  PROVE  WithSize(LinkAfter(c, k, 0, x), s) = Rewired(c, c.nodes, WithHead(c.heads, BucketOf(k, c.heads), x), s)
BY DEF LinkAfter, Rewired, ACache, WithSize, WithHead

LEMMA LinkLater ==
  ASSUME NEW c \in ACache, NEW k, NEW i, i # 0, NEW x, NEW s
  PROVE  WithSize(LinkAfter(c, k, i, x), s) = Rewired(c, WithNext(c.nodes, ChainOf(c, k)[i], x), c.heads, s)
BY DEF LinkAfter, Rewired, ACache, WithSize, WithNext

KeyNodes(c, S, k) == {n \in S : KeyAt(c, n) = k}

(* The chain of a key.                                                     *)
LEMMA KeyChain ==
  ASSUME NEW c, IsCache(c), NEW S, Ordered(c, S), NEW k \in Keys
  PROVE  LET ch == ChainOf(c, k)
             b  == BucketOf(k, c.heads)
         IN  /\ Len(ch) \in Nat /\ DOMAIN ch = 1..Len(ch)
             /\ Buckets(c.heads) = 0 => Len(ch) = 0
             /\ Buckets(c.heads) # 0 => b \in DOMAIN c.heads /\ IsChain(c.nodes, c.heads[b], ch)
             /\ \A i \in DOMAIN ch : ch[i] \in S /\ ch[i] \in DOMAIN c.nodes /\ HashAt(c, ch[i]) % Buckets(c.heads) = b
             /\ \A n \in KeyNodes(c, S, k) : \E i \in DOMAIN ch : ch[i] = n
<1> DEFINE ch == ChainOf(c, k)
           b  == BucketOf(k, c.heads)
           B  == Buckets(c.heads)
<1>1. B \in Nat /\ DOMAIN c.heads = 0..(B - 1) /\ HashOf[k] \in Nat
  BY CacheFields, PersistAssumption
<1>2. CASE B = 0
  <2>1. ch = <<>> /\ S = {}
    BY <1>2 DEF ChainOf, Ordered
  <2>2. Len(ch) = 0 /\ DOMAIN ch = {}
    BY <2>1
  <2> QED
    BY <1>2, <2>1, <2>2 DEF KeyNodes
<1>3. CASE B # 0
  <2>1. b \in DOMAIN c.heads
    <3>1. B > 0
      BY <1>1, <1>3
    <3>2. HashOf[k] % B \in 0..(B - 1)
      BY <1>1, <3>1, ModRange
    <3> QED
      BY <1>1, <3>2 DEF BucketOf
  <2>2. ch = Chain(c.nodes, c.heads[b])
    BY <1>3 DEF ChainOf
  <2>3. Closed(c, c.heads, S)
    BY DEF Ordered
  <2>4. ASSUME NEW n \in KeyNodes(c, S, k) PROVE \E i \in DOMAIN ch : ch[i] = n
    <3>1. n \in S /\ HashAt(c, n) % B = b /\ Unjumped(c, c.heads, S, n)
      BY DEF KeyNodes, HashAt, BucketOf, Ordered
    <3> QED
      BY <1>3, <2>2, <2>3, <3>1, ChainReaches
  <2> HIDE DEF ch, b
  <2>5. /\ IsChain(c.nodes, c.heads[b], ch)
        /\ Len(ch) \in Nat /\ DOMAIN ch = 1..Len(ch)
        /\ \A i \in DOMAIN ch : ch[i] \in S /\ ch[i] \in DOMAIN c.nodes /\ HashAt(c, ch[i]) % B = b
    BY <2>1, <2>2, <2>3, ChainClosed
  <2> QED
    BY <1>3, <2>1, <2>4, <2>5 DEF ch, b
<1> QED
  BY <1>2, <1>3

LEMMA PlaceIs ==
  ASSUME NEW c, IsCache(c), NEW S, Ordered(c, S), NEW k \in Keys
  PROVE  LET i  == PlaceOf(c, k)
             ch == ChainOf(c, k)
         IN  /\ i = 0 <=> KeyNodes(c, S, k) = {}
             /\ i # 0 => i \in DOMAIN ch /\ ch[i] \in KeyNodes(c, S, k)
<1> DEFINE ch    == ChainOf(c, k)
           there == {j \in DOMAIN ch : KeyAt(c, ch[j]) = k}
           i     == PlaceOf(c, k)
<1>1. /\ Len(ch) \in Nat /\ DOMAIN ch = 1..Len(ch)
      /\ \A j \in DOMAIN ch : ch[j] \in S
      /\ \A n \in KeyNodes(c, S, k) : \E j \in DOMAIN ch : ch[j] = n
  BY KeyChain
<1>2. i = IF there = {} THEN 0 ELSE Min(there)
  BY DEF PlaceOf
<1>3. KeyNodes(c, S, k) = {} <=> there = {}
  BY <1>1 DEF KeyNodes
<1>4. there # {} => i \in there
  <2>1. there \in SUBSET Nat
    BY <1>1
  <2> QED
    BY <1>2, <2>1, LeastNumber
<1>5. there # {} => i # 0 /\ i \in DOMAIN ch /\ ch[i] \in KeyNodes(c, S, k)
  BY <1>1, <1>4 DEF KeyNodes
<1> HIDE DEF ch, there, i
<1>6. (i = 0 <=> KeyNodes(c, S, k) = {}) /\ (i # 0 => i \in DOMAIN ch /\ ch[i] \in KeyNodes(c, S, k))
  BY <1>2, <1>3, <1>5
<1> QED
  BY <1>6 DEF ch, i

(* A lookup finds an entry of the key if there is a node, else none.       *)
LEMMA LookupIs ==
  ASSUME NEW c, IsCache(c), NEW S, Ordered(c, S), NEW k \in Keys
  PROVE  \/ KeyNodes(c, S, k) = {} /\ HashLookup(c, k) = 0
         \/ \E x \in KeyNodes(c, S, k) : HashLookup(c, k) = c.nodes[x].entry
BY PlaceIs DEF HashLookup

(* A node of S is unlinked: a bucket, or the node before it, leads to its  *)
(* successor.                                                              *)
Unlinked(c, d, S, x) ==
  /\ x \in S
  /\ \/ /\ d.nodes = c.nodes
        /\ c.heads[HashAt(c, x) % Buckets(c.heads)] = x
        /\ d.heads = WithHead(c.heads, HashAt(c, x) % Buckets(c.heads), c.nodes[x].next)
     \/ \E p \in S : /\ c.nodes[p].next = x
                     /\ d.nodes = WithNext(c.nodes, p, c.nodes[x].next)
                     /\ d.heads = c.heads

LEMMA RemoveIs ==
  ASSUME NEW c, IsCache(c), NEW S, Ordered(c, S), NEW k \in Keys
  PROVE  LET d == HashRemove(c, k)
         IN  \/ KeyNodes(c, S, k) = {} /\ d = c
             \/ /\ d.size = Wrap(c.size - 1)
                /\ SameButHash(c, d)
                /\ \E nodes, heads : d = Rewired(c, nodes, heads, d.size)
                /\ \E x \in KeyNodes(c, S, k) : Unlinked(c, d, S, x)
<1> DEFINE d  == HashRemove(c, k)
           i  == PlaceOf(c, k)
           ch == ChainOf(c, k)
           b  == BucketOf(k, c.heads)
           x  == ch[i]
           s  == Wrap(c.size - 1)
<1>1. CASE i = 0
  BY <1>1, PlaceIs DEF HashRemove
<1>2. CASE i # 0
  <2>1. i \in DOMAIN ch /\ x \in KeyNodes(c, S, k)
    BY <1>2, PlaceIs
  <2>2. /\ Len(ch) \in Nat /\ DOMAIN ch = 1..Len(ch)
        /\ b \in DOMAIN c.heads /\ IsChain(c.nodes, c.heads[b], ch)
        /\ \A j \in DOMAIN ch : ch[j] \in S
    BY <2>1, KeyChain
  <2>3. c \in ACache
    BY DEF IsCache
  <2>4. HashAt(c, x) % Buckets(c.heads) = b /\ x \in S
    BY <2>1 DEF KeyNodes, HashAt, BucketOf
  <2>5. d = WithSize(LinkAfter(c, k, i - 1, c.nodes[x].next), s)
    <3>1. LinkAfter(c, k, i - 1, c.nodes[x].next).size = c.size
      BY <2>3 DEF LinkAfter, ACache
    <3> QED
      BY <1>2, <3>1 DEF HashRemove, WithSize
  <2>6. CASE i = 1
    <3>0. d = WithSize(LinkAfter(c, k, 0, c.nodes[x].next), s)
      BY <2>5, <2>6
    <3>1. d = Rewired(c, c.nodes, WithHead(c.heads, b, c.nodes[x].next), s)
      <4> DEFINE y == c.nodes[x].next
      <4> HIDE DEF d, x, y, s
      <4> QED
        BY <2>3, <3>0, LinkHead DEF y
    <3>2. c.heads[b] = x
      BY <2>1, <2>2, <2>6 DEF IsChain
    <3> HIDE DEF d, x, b, s
    <3>3. d.nodes = c.nodes /\ d.heads = WithHead(c.heads, b, c.nodes[x].next) /\ d.size = s /\ SameButHash(c, d)
      BY <2>3, <3>1, RewiredFields
    <3>4. Unlinked(c, d, S, x)
      BY <2>4, <3>2, <3>3 DEF Unlinked
    <3> QED
      BY <2>1, <3>1, <3>3, <3>4 DEF d, x, s
  <2>7. CASE i # 1
    <3>1. i - 1 \in 1..(Len(ch) - 1) /\ i - 1 \in DOMAIN ch /\ i - 1 # 0 /\ (i - 1) + 1 = i
      BY <1>2, <2>1, <2>2, <2>7
    <3>2. d = Rewired(c, WithNext(c.nodes, ch[i - 1], c.nodes[x].next), c.heads, s)
      <4> DEFINE y == c.nodes[x].next
                 j == i - 1
      <4>1. d = WithSize(LinkAfter(c, k, j, y), s) /\ j # 0
        BY <2>5, <3>1
      <4> HIDE DEF d, x, y, s, j
      <4>2. d = Rewired(c, WithNext(c.nodes, ch[j], y), c.heads, s)
        BY <2>3, <4>1, LinkLater
      <4> QED
        BY <4>2 DEF y, j
    <3>3. ch[i - 1] \in S /\ c.nodes[ch[i - 1]].next = x
      BY <2>2, <3>1 DEF IsChain
    <3> DEFINE p == ch[i - 1]
    <3> HIDE DEF d, x, b, s, p
    <3>4. d.nodes = WithNext(c.nodes, p, c.nodes[x].next) /\ d.heads = c.heads /\ d.size = s /\ SameButHash(c, d)
      BY <2>3, <3>2, RewiredFields DEF p
    <3>5. Unlinked(c, d, S, x)
      BY <2>4, <3>3, <3>4 DEF Unlinked, p
    <3> QED
      BY <2>1, <3>2, <3>4, <3>5 DEF d, x, s
  <2> QED
    BY <2>6, <2>7
<1> QED
  BY <1>1, <1>2

-----------------------------------------------------------------------------
(* A node is unlinked.                                                     *)

LEMMA WithNextIs ==
  ASSUME NEW nodes \in Seq(ANode), NEW n \in DOMAIN nodes, NEW x \in Nat
  PROVE  LET new == WithNext(nodes, n, x)
         IN  /\ new \in Seq(ANode) /\ Len(new) = Len(nodes) /\ DOMAIN new = DOMAIN nodes
             /\ \A m \in DOMAIN nodes : new[m].entry = nodes[m].entry
             /\ \A m \in DOMAIN nodes : new[m].next = IF m = n THEN x ELSE nodes[m].next
<1> DEFINE new == WithNext(nodes, n, x)
<1>1. Len(nodes) \in Nat /\ DOMAIN nodes = 1..Len(nodes) /\ \A m \in DOMAIN nodes : nodes[m] \in ANode
  BY LenProperties, ElementOfSeq
<1>2. DOMAIN new = DOMAIN nodes
  BY DEF WithNext
<1>3. ASSUME NEW m \in DOMAIN nodes
      PROVE  new[m] \in ANode /\ new[m].entry = nodes[m].entry /\ new[m].next = IF m = n THEN x ELSE nodes[m].next
  <2>1. nodes[m] \in ANode
    BY <1>1
  <2>2. CASE m = n
    <3>1. new[m] = [nodes[m] EXCEPT !.next = x]
      BY <2>2 DEF WithNext
    <3> QED
      BY <2>1, <2>2, <3>1 DEF ANode
  <2>3. CASE m # n
    <3>1. new[m] = nodes[m]
      BY <2>3 DEF WithNext
    <3> QED
      BY <2>1, <2>3, <3>1
  <2> QED
    BY <2>2, <2>3
<1>4. new \in [1..Len(nodes) -> ANode]
  <2>1. new = [m \in DOMAIN nodes |-> new[m]]
    BY DEF WithNext
  <2> QED
    BY <1>1, <1>3, <2>1
<1>5. new \in Seq(ANode) /\ Len(new) = Len(nodes)
  BY <1>1, <1>4, SeqDef, LenProperties
<1> QED
  BY <1>2, <1>3, <1>5

LEMMA WithHeadIs ==
  ASSUME NEW h \in HeadArrays, NEW b \in DOMAIN h, NEW x \in Nat
  PROVE  LET new == WithHead(h, b, x)
         IN  /\ new \in HeadArrays /\ DOMAIN new = DOMAIN h /\ Buckets(new) = Buckets(h)
             /\ \A a \in DOMAIN h : new[a] = IF a = b THEN x ELSE h[a]
<1> DEFINE new == WithHead(h, b, x)
<1>1. PICK n \in Nat : h \in [0..(n - 1) -> Nat]
  BY DEF HeadArrays
<1>2. DOMAIN new = DOMAIN h /\ \A a \in DOMAIN h : new[a] = IF a = b THEN x ELSE h[a]
  BY DEF WithHead
<1>3. new \in [0..(n - 1) -> Nat]
  BY <1>1 DEF WithHead
<1> QED
  BY <1>2, <1>3 DEF HeadArrays, Buckets

(* Nodes keep their keys when only links change.                           *)
SameKeys(c, d) ==
  /\ DOMAIN c.nodes \subseteq DOMAIN d.nodes
  /\ \A n \in DOMAIN c.nodes : KeyAt(d, n) = KeyAt(c, n) /\ HashAt(d, n) = HashAt(c, n)

(* What unlinking does to the links.                                       *)
LEMMA UnlinkedNodes ==
  ASSUME NEW c, IsCache(c), NEW S, Ordered(c, S), NEW d, NEW x, Unlinked(c, d, S, x), d.pool = c.pool
  PROVE  /\ x \in DOMAIN c.nodes
         /\ DOMAIN d.nodes = DOMAIN c.nodes /\ Len(d.nodes) = Len(c.nodes) /\ d.nodes \in Seq(ANode)
         /\ \A n \in DOMAIN c.nodes : d.nodes[n].entry = c.nodes[n].entry
         /\ SameKeys(c, d)
         /\ d.heads \in HeadArrays /\ DOMAIN d.heads = DOMAIN c.heads /\ Buckets(d.heads) = Buckets(c.heads)
         /\ \/ /\ d.nodes = c.nodes
               /\ HashAt(c, x) % Buckets(c.heads) \in DOMAIN c.heads
               /\ c.heads[HashAt(c, x) % Buckets(c.heads)] = x
               /\ \A b \in DOMAIN c.heads :
                    d.heads[b] = IF b = HashAt(c, x) % Buckets(c.heads) THEN c.nodes[x].next ELSE c.heads[b]
            \/ /\ \E p \in S : /\ c.nodes[p].next = x
                               /\ \A n \in DOMAIN c.nodes :
                                    d.nodes[n].next = IF n = p THEN c.nodes[x].next ELSE c.nodes[n].next
               /\ d.heads = c.heads
<1>1. x \in S /\ S \subseteq DOMAIN c.nodes
  BY DEF Unlinked, Ordered, Closed
<1>2. /\ c.nodes \in Seq(ANode) /\ c.heads \in HeadArrays /\ c.nodes[x].next \in Nat /\ HashAt(c, x) \in Nat
      /\ Buckets(c.heads) \in Nat /\ DOMAIN c.heads = 0..(Buckets(c.heads) - 1) /\ DOMAIN c.nodes = 1..Len(c.nodes)
  BY <1>1, CacheFields
<1>3. HashAt(c, x) % Buckets(c.heads) \in DOMAIN c.heads
  <2>1. Buckets(c.heads) > 0
    BY <1>1, <1>2 DEF Ordered
  <2> QED
    BY <1>2, <2>1, ModRange
<1>4. ASSUME DOMAIN d.nodes = DOMAIN c.nodes, \A n \in DOMAIN c.nodes : d.nodes[n].entry = c.nodes[n].entry
      PROVE  SameKeys(c, d)
  BY <1>4 DEF SameKeys, KeyAt, HashAt
<1>5. CASE /\ d.nodes = c.nodes
           /\ c.heads[HashAt(c, x) % Buckets(c.heads)] = x
           /\ d.heads = WithHead(c.heads, HashAt(c, x) % Buckets(c.heads), c.nodes[x].next)
  <2> DEFINE b == HashAt(c, x) % Buckets(c.heads)
             y == c.nodes[x].next
  <2>1. b \in DOMAIN c.heads /\ y \in Nat /\ d.heads = WithHead(c.heads, b, y)
    BY <1>2, <1>3, <1>5
  <2> HIDE DEF b, y
  <2>2. /\ d.heads \in HeadArrays /\ DOMAIN d.heads = DOMAIN c.heads /\ Buckets(d.heads) = Buckets(c.heads)
        /\ \A a \in DOMAIN c.heads : d.heads[a] = IF a = b THEN y ELSE c.heads[a]
    <3> DEFINE h == c.heads
               g == d.heads
    <3>1. h \in HeadArrays /\ b \in DOMAIN h /\ g = WithHead(h, b, y)
      BY <1>2, <2>1
    <3> HIDE DEF h, g
    <3>2. /\ g \in HeadArrays /\ DOMAIN g = DOMAIN h /\ Buckets(g) = Buckets(h)
          /\ \A a \in DOMAIN h : g[a] = IF a = b THEN y ELSE h[a]
      BY <2>1, <3>1, WithHeadIs
    <3> QED
      BY <3>2 DEF h, g
  <2>3. SameKeys(c, d)
    BY <1>4, <1>5
  <2> QED
    BY <1>1, <1>2, <1>3, <1>5, <2>2, <2>3 DEF b, y
<1>6. ASSUME NEW p \in S, c.nodes[p].next = x, d.heads = c.heads,
             d.nodes = WithNext(c.nodes, p, c.nodes[x].next)
      PROVE  /\ DOMAIN d.nodes = DOMAIN c.nodes /\ Len(d.nodes) = Len(c.nodes) /\ d.nodes \in Seq(ANode)
             /\ \A n \in DOMAIN c.nodes : d.nodes[n].entry = c.nodes[n].entry
             /\ SameKeys(c, d)
             /\ \A n \in DOMAIN c.nodes : d.nodes[n].next = IF n = p THEN c.nodes[x].next ELSE c.nodes[n].next
  <2> DEFINE y == c.nodes[x].next
  <2>1. p \in DOMAIN c.nodes /\ y \in Nat /\ d.nodes = WithNext(c.nodes, p, y)
    BY <1>1, <1>2, <1>6
  <2> HIDE DEF y
  <2>2. /\ DOMAIN d.nodes = DOMAIN c.nodes /\ Len(d.nodes) = Len(c.nodes) /\ d.nodes \in Seq(ANode)
        /\ \A n \in DOMAIN c.nodes : d.nodes[n].entry = c.nodes[n].entry
        /\ \A n \in DOMAIN c.nodes : d.nodes[n].next = IF n = p THEN y ELSE c.nodes[n].next
    <3> DEFINE old == c.nodes
               new == d.nodes
    <3>1. old \in Seq(ANode) /\ p \in DOMAIN old /\ new = WithNext(old, p, y)
      BY <1>2, <2>1
    <3> HIDE DEF old, new
    <3>2. /\ DOMAIN new = DOMAIN old /\ Len(new) = Len(old) /\ new \in Seq(ANode)
          /\ \A n \in DOMAIN old : new[n].entry = old[n].entry
          /\ \A n \in DOMAIN old : new[n].next = IF n = p THEN y ELSE old[n].next
      BY <2>1, <3>1, WithNextIs
    <3> QED
      BY <3>2 DEF old, new
  <2>3. SameKeys(c, d)
    BY <1>4, <2>2
  <2> QED
    BY <2>2, <2>3 DEF y
<1>7. CASE \E p \in S : /\ c.nodes[p].next = x
                        /\ d.nodes = WithNext(c.nodes, p, c.nodes[x].next)
                        /\ d.heads = c.heads
  <2>1. PICK p \in S : /\ c.nodes[p].next = x
                       /\ d.nodes = WithNext(c.nodes, p, c.nodes[x].next)
                       /\ d.heads = c.heads
    BY <1>7
  <2> QED
    BY <1>1, <1>2, <1>6, <2>1
<1> QED
  BY <1>5, <1>7 DEF Unlinked

LEMMA UnlinkedIsCache ==
  ASSUME NEW c, IsCache(c), NEW S, Ordered(c, S), NEW d, NEW x, Unlinked(c, d, S, x), SameButHash(c, d),
         NEW s \in Nat, NEW nodes, NEW heads, d = Rewired(c, nodes, heads, s)
  PROVE  IsCache(d)
<1>1. d.nodes = nodes /\ d.heads = heads /\ c \in ACache
  BY RewiredFields DEF IsCache
<1>2. d.pool = c.pool /\ d.sorted = c.sorted /\ d.names = c.names
  BY DEF SameButHash
<1>3. /\ x \in DOMAIN c.nodes
      /\ DOMAIN d.nodes = DOMAIN c.nodes /\ Len(d.nodes) = Len(c.nodes) /\ d.nodes \in Seq(ANode)
      /\ \A n \in DOMAIN c.nodes : d.nodes[n].entry = c.nodes[n].entry
      /\ d.heads \in HeadArrays /\ DOMAIN d.heads = DOMAIN c.heads
      /\ \/ /\ d.nodes = c.nodes
            /\ \A b \in DOMAIN c.heads : d.heads[b] = c.nodes[x].next \/ d.heads[b] = c.heads[b]
         \/ /\ \E p \in S : /\ c.nodes[p].next = x
                            /\ \A n \in DOMAIN c.nodes :
                                 d.nodes[n].next = IF n = p THEN c.nodes[x].next ELSE c.nodes[n].next
            /\ d.heads = c.heads
  BY <1>2, UnlinkedNodes
<1>4. d \in ACache
  BY <1>1, <1>3, RewiredFields
<1>5. /\ \A n \in DOMAIN c.nodes : c.nodes[n].entry \in DOMAIN c.pool
      /\ \A b \in DOMAIN c.heads : c.heads[b] \in 0..Len(c.nodes)
      /\ c.sorted \subseteq DOMAIN c.pool /\ c.names \subseteq DOMAIN c.pool
      /\ \A n \in DOMAIN c.nodes : c.nodes[n].next \in 0..Len(c.nodes)
      /\ DOMAIN c.nodes = 1..Len(c.nodes) /\ Len(c.nodes) \in Nat
      /\ \A n \in DOMAIN c.nodes : c.nodes[n].next # 0 => c.nodes[n].next \in DOMAIN c.nodes /\ n < c.nodes[n].next
  BY CacheFields DEF IsCache, NodesUp
<1>6. NodesUp(d.nodes)
  <2> SUFFICES ASSUME NEW n \in DOMAIN c.nodes, d.nodes[n].next # 0
               PROVE  d.nodes[n].next \in DOMAIN c.nodes /\ n < d.nodes[n].next
    BY <1>3 DEF NodesUp
  <2>1. CASE d.nodes[n].next = c.nodes[n].next
    BY <1>5, <2>1
  <2>2. CASE c.nodes[n].next = x /\ d.nodes[n].next = c.nodes[x].next
    <3>1. c.nodes[x].next \in DOMAIN c.nodes /\ x < c.nodes[x].next /\ n < x
      BY <1>3, <1>5, <2>2
    <3> QED
      BY <1>3, <1>5, <2>2, <3>1
  <2> QED
    BY <1>3, <2>1, <2>2
<1>7. \A b \in DOMAIN d.heads : d.heads[b] \in 0..Len(d.nodes)
  BY <1>3, <1>5
<1> QED
  BY <1>2, <1>3, <1>4, <1>5, <1>6, <1>7 DEF IsCache

(* An older array of buckets, which the unlinking does not touch, keeps    *)
(* its closed set, and whatever its walks met they still meet.             *)
LEMMA UnlinkOther ==
  ASSUME NEW c, IsCache(c), NEW S, Ordered(c, S), NEW d, NEW x, Unlinked(c, d, S, x), SameButHash(c, d),
         NEW heads, NEW T, Closed(c, heads, T)
  PROVE  /\ Closed(d, heads, T)
         /\ \A m \in T : m # x /\ Unjumped(c, heads, T, m) => Unjumped(d, heads, T, m)
<1> DEFINE B == Buckets(heads)
           y == c.nodes[x].next
<1>1. d.pool = c.pool
  BY DEF SameButHash
<1>2. /\ x \in DOMAIN c.nodes
      /\ DOMAIN d.nodes = DOMAIN c.nodes
      /\ \A n \in DOMAIN c.nodes : HashAt(d, n) = HashAt(c, n)
      /\ \/ d.nodes = c.nodes
         \/ \E p \in S : /\ c.nodes[p].next = x
                         /\ \A n \in DOMAIN c.nodes :
                              d.nodes[n].next = IF n = p THEN y ELSE c.nodes[n].next
  BY <1>1, UnlinkedNodes DEF SameKeys
<1>3. /\ T \subseteq DOMAIN c.nodes
      /\ \A b \in DOMAIN heads : heads[b] # 0 => heads[b] \in T /\ HashAt(c, heads[b]) % B = b
      /\ \A n \in T : c.nodes[n].next # 0 => /\ c.nodes[n].next \in T
                                             /\ HashAt(c, c.nodes[n].next) % B = HashAt(c, n) % B
  BY DEF Closed
<1>4. DOMAIN c.nodes \subseteq Nat \ {0}
  BY CacheFields
<1>5. CASE d.nodes = c.nodes
  BY <1>1, <1>5 DEF Closed, Unjumped, HashAt, KeyAt
<1>6. ASSUME NEW p \in S, c.nodes[p].next = x,
             \A n \in DOMAIN c.nodes : d.nodes[n].next = IF n = p THEN y ELSE c.nodes[n].next
      PROVE  /\ Closed(d, heads, T)
             /\ \A m \in T : m # x /\ Unjumped(c, heads, T, m) => Unjumped(d, heads, T, m)
  <2>1. ASSUME NEW n \in T, d.nodes[n].next # 0
        PROVE  d.nodes[n].next \in T /\ HashAt(d, d.nodes[n].next) % B = HashAt(d, n) % B
    <3>1. n \in DOMAIN c.nodes
      BY <1>3
    <3>2. CASE n # p
      <4>1. d.nodes[n].next = c.nodes[n].next
        BY <1>6, <3>1, <3>2
      <4> QED
        BY <1>2, <1>3, <2>1, <3>1, <4>1
    <3>3. CASE n = p
      <4>1. d.nodes[n].next = y /\ c.nodes[n].next = x /\ x # 0
        BY <1>2, <1>4, <1>6, <3>1, <3>3
      <4>2. x \in T /\ HashAt(c, x) % B = HashAt(c, n) % B
        BY <1>3, <4>1
      <4>3. y \in T /\ HashAt(c, y) % B = HashAt(c, x) % B
        BY <1>3, <2>1, <4>1, <4>2
      <4> QED
        BY <1>2, <1>3, <3>1, <4>1, <4>2, <4>3
    <3> QED
      BY <3>2, <3>3
  <2>2. \A b \in DOMAIN heads : heads[b] # 0 => heads[b] \in T /\ HashAt(d, heads[b]) % B = b
    BY <1>2, <1>3
  <2>3. Closed(d, heads, T)
    BY <1>2, <1>3, <2>1, <2>2 DEF Closed
  <2>4. ASSUME NEW m \in T, m # x, Unjumped(c, heads, T, m) PROVE Unjumped(d, heads, T, m)
    <3>1. m \in DOMAIN c.nodes /\ HashAt(d, m) = HashAt(c, m) /\ m \in Nat
      BY <1>2, <1>3, <1>4
    <3>2. heads[HashAt(d, m) % B] \in 1..m
      BY <2>4, <3>1 DEF Unjumped
    <3>3. ASSUME NEW n \in T, n < m, HashAt(d, n) % B = HashAt(d, m) % B
          PROVE  d.nodes[n].next \in 1..m
      <4>1. n \in DOMAIN c.nodes /\ HashAt(d, n) = HashAt(c, n)
        BY <1>2, <1>3
      <4>2. c.nodes[n].next \in 1..m
        BY <2>4, <3>1, <3>3, <4>1 DEF Unjumped
      <4>3. CASE n # p
        BY <1>6, <4>1, <4>2, <4>3
      <4>4. CASE n = p
        <5>1. c.nodes[n].next = x /\ x # 0 /\ d.nodes[n].next = y
          BY <1>2, <1>4, <1>6, <4>1, <4>4
        <5>2. x \in T /\ HashAt(c, x) % B = HashAt(c, m) % B
          BY <1>3, <3>1, <3>3, <4>1, <5>1
        <5>3. x < m
          BY <1>2, <1>4, <2>4, <3>1, <4>2, <5>1
        <5>4. y \in 1..m
          BY <2>4, <5>2, <5>3 DEF Unjumped
        <5> QED
          BY <5>1, <5>4
      <4> QED
        BY <4>3, <4>4
    <3> QED
      BY <3>2, <3>3 DEF Unjumped
  <2> QED
    BY <2>3, <2>4
<1> QED
  BY <1>2, <1>5, <1>6

(* The array itself leads to everything but the node.                      *)
LEMMA UnlinkOrdered ==
  ASSUME NEW c, IsCache(c), NEW S, Ordered(c, S), NEW d, NEW x, Unlinked(c, d, S, x), SameButHash(c, d)
  PROVE  Ordered(d, S \ {x})
<1> DEFINE B == Buckets(c.heads)
           y == c.nodes[x].next
           a == HashAt(c, x) % B
<1>1. d.pool = c.pool
  BY DEF SameButHash
<1>2. /\ DOMAIN d.nodes = DOMAIN c.nodes
      /\ \A n \in DOMAIN c.nodes : HashAt(d, n) = HashAt(c, n)
      /\ DOMAIN d.heads = DOMAIN c.heads /\ Buckets(d.heads) = B
      /\ \/ /\ d.nodes = c.nodes
            /\ a \in DOMAIN c.heads
            /\ c.heads[a] = x
            /\ \A b \in DOMAIN c.heads : d.heads[b] = IF b = a THEN y ELSE c.heads[b]
         \/ /\ \E p \in S : /\ c.nodes[p].next = x
                            /\ \A n \in DOMAIN c.nodes :
                                 d.nodes[n].next = IF n = p THEN y ELSE c.nodes[n].next
            /\ d.heads = c.heads
  BY <1>1, UnlinkedNodes DEF SameKeys
<1>3. /\ S \subseteq DOMAIN c.nodes /\ x \in S
      /\ \A b \in DOMAIN c.heads : c.heads[b] # 0 => c.heads[b] \in S /\ HashAt(c, c.heads[b]) % B = b
      /\ \A n \in S : c.nodes[n].next # 0 => /\ c.nodes[n].next \in S
                                             /\ HashAt(c, c.nodes[n].next) % B = HashAt(c, n) % B
      /\ B = 0 => S = {}
  BY DEF Ordered, Closed, Unlinked
<1>4. /\ DOMAIN c.nodes \subseteq Nat \ {0} /\ \A n \in DOMAIN c.nodes : HashAt(c, n) \in Nat
      /\ \A n \in DOMAIN c.nodes : c.nodes[n].next # 0 => n < c.nodes[n].next
      /\ B \in Nat /\ DOMAIN c.heads = 0..(B - 1)
  BY CacheFields DEF IsCache, NodesUp
<1>5. \A m \in S : /\ c.heads[HashAt(c, m) % B] \in 1..m
                   /\ \A n \in S : n < m /\ HashAt(c, n) % B = HashAt(c, m) % B => c.nodes[n].next \in 1..m
  BY DEF Ordered, Unjumped
<1>6. \A m \in S : HashAt(c, m) % B \in DOMAIN c.heads
  <2> TAKE m \in S
  <2>1. B > 0 /\ HashAt(c, m) \in Nat
    BY <1>3, <1>4
  <2> QED
    BY <1>4, <2>1, ModRange
<1>7. CASE /\ d.nodes = c.nodes
           /\ a \in DOMAIN c.heads
           /\ c.heads[a] = x
           /\ \A b \in DOMAIN c.heads : d.heads[b] = IF b = a THEN y ELSE c.heads[b]
  <2>1. ASSUME NEW n \in S PROVE c.nodes[n].next # x
    <3>1. SUFFICES ASSUME c.nodes[n].next = x PROVE FALSE
      OBVIOUS
    <3>2. n < x /\ HashAt(c, n) % B = a /\ x \in Nat /\ n \in Nat /\ x # 0
      BY <1>3, <1>4, <3>1
    <3>3. x \in 1..n
      BY <1>5, <1>7, <3>2
    <3> QED
      BY <3>2, <3>3
  <2>2. \A n \in S \ {x} : d.nodes[n].next # 0 => /\ d.nodes[n].next \in S \ {x}
                                                  /\ HashAt(d, d.nodes[n].next) % B = HashAt(d, n) % B
    BY <1>2, <1>3, <1>7, <2>1
  <2>3. ASSUME NEW b \in DOMAIN c.heads, d.heads[b] # 0
        PROVE  d.heads[b] \in S \ {x} /\ HashAt(d, d.heads[b]) % B = b
    <3>1. CASE b = a
      <4>1. d.heads[b] = y /\ y # 0 /\ y # x
        BY <1>3, <1>7, <2>1, <2>3, <3>1
      <4>2. y \in S /\ HashAt(c, y) % B = a
        BY <1>3, <4>1
      <4> QED
        BY <1>2, <1>3, <3>1, <4>1, <4>2
    <3>2. CASE b # a
      <4>1. d.heads[b] = c.heads[b]
        BY <1>7, <3>2
      <4>2. c.heads[b] \in S /\ HashAt(c, c.heads[b]) % B = b
        BY <1>3, <2>3, <4>1
      <4> QED
        BY <1>2, <1>3, <3>2, <4>1, <4>2
    <3> QED
      BY <3>1, <3>2
  <2>4. Closed(d, d.heads, S \ {x})
    BY <1>2, <1>3, <2>2, <2>3 DEF Closed
  <2>5. ASSUME NEW m \in S \ {x} PROVE Unjumped(d, d.heads, S \ {x}, m)
    <3>1. HashAt(d, m) = HashAt(c, m) /\ HashAt(c, m) % B \in DOMAIN c.heads /\ m \in Nat /\ x \in Nat
      BY <1>2, <1>3, <1>4, <1>6
    <3>2. d.heads[HashAt(c, m) % B] \in 1..m
      <4>1. CASE HashAt(c, m) % B = a
        <5>1. x \in 1..m /\ x < m
          BY <1>5, <1>7, <3>1, <4>1
        <5>2. y \in 1..m
          BY <1>3, <1>5, <4>1, <5>1
        <5> QED
          BY <1>7, <3>1, <4>1, <5>2
      <4>2. CASE HashAt(c, m) % B # a
        BY <1>5, <1>7, <3>1, <4>2
      <4> QED
        BY <4>1, <4>2
    <3>3. ASSUME NEW n \in S \ {x}, n < m, HashAt(d, n) % B = HashAt(d, m) % B PROVE d.nodes[n].next \in 1..m
      <4>1. HashAt(d, n) = HashAt(c, n)
        BY <1>2, <1>3
      <4> QED
        BY <1>5, <1>7, <3>1, <3>3, <4>1
    <3> QED
      BY <1>2, <3>1, <3>2, <3>3 DEF Unjumped
  <2> QED
    BY <1>2, <1>3, <2>4, <2>5 DEF Ordered
<1>8. ASSUME NEW p \in S, c.nodes[p].next = x, d.heads = c.heads,
             \A n \in DOMAIN c.nodes : d.nodes[n].next = IF n = p THEN y ELSE c.nodes[n].next
      PROVE  Ordered(d, S \ {x})
  <2>0. p < x /\ HashAt(c, p) % B = a /\ x \in Nat /\ p \in Nat /\ x # 0 /\ p # x
    BY <1>3, <1>4, <1>8
  <2>1. ASSUME NEW n \in S, n # p PROVE c.nodes[n].next # x
    <3>1. SUFFICES ASSUME c.nodes[n].next = x PROVE FALSE
      OBVIOUS
    <3>2. n < x /\ HashAt(c, n) % B = a /\ n \in Nat
      BY <1>3, <1>4, <2>0, <3>1
    <3>3. CASE n < p
      <4>1. x \in 1..p
        BY <1>5, <2>0, <3>1, <3>2, <3>3
      <4> QED
        BY <2>0, <4>1
    <3>4. CASE p < n
      <4>1. x \in 1..n
        BY <1>5, <1>8, <2>0, <3>2, <3>4
      <4> QED
        BY <2>0, <3>2, <4>1
    <3> QED
      BY <2>0, <2>1, <3>2, <3>3, <3>4
  <2>2. ASSUME NEW n \in S \ {x}, d.nodes[n].next # 0
        PROVE  d.nodes[n].next \in S \ {x} /\ HashAt(d, d.nodes[n].next) % B = HashAt(d, n) % B
    <3>1. CASE n = p
      <4>1. d.nodes[n].next = y /\ y # 0
        BY <1>3, <1>8, <2>2, <3>1
      <4>2. y \in S /\ HashAt(c, y) % B = a /\ x < y
        BY <1>3, <1>4, <4>1
      <4>3. y # x
        BY <2>0, <4>2
      <4>4. HashAt(d, y) = HashAt(c, y) /\ HashAt(d, n) = HashAt(c, p)
        BY <1>2, <1>3, <3>1, <4>2
      <4>5. HashAt(d, y) % B = HashAt(d, n) % B
        BY <2>0, <4>2, <4>4
      <4> QED
        BY <4>1, <4>2, <4>3, <4>5
    <3>2. CASE n # p
      <4>1. d.nodes[n].next = c.nodes[n].next
        BY <1>3, <1>8, <3>2
      <4> QED
        BY <1>2, <1>3, <2>1, <2>2, <3>2, <4>1
    <3> QED
      BY <3>1, <3>2
  <2>3. ASSUME NEW b \in DOMAIN c.heads, c.heads[b] # 0
        PROVE  c.heads[b] \in S \ {x} /\ HashAt(d, c.heads[b]) % B = b
    <3>1. c.heads[b] \in S /\ HashAt(c, c.heads[b]) % B = b
      BY <1>3, <2>3
    <3>2. ASSUME c.heads[b] = x PROVE FALSE
      <4>1. b = a
        BY <3>1, <3>2
      <4>2. x \in 1..p
        BY <1>5, <2>0, <3>2, <4>1
      <4> QED
        BY <2>0, <4>2
    <3> QED
      BY <1>2, <1>3, <3>1, <3>2
  <2>4. Closed(d, d.heads, S \ {x})
    BY <1>2, <1>3, <1>8, <2>2, <2>3 DEF Closed
  <2>5. ASSUME NEW m \in S \ {x} PROVE Unjumped(d, d.heads, S \ {x}, m)
    <3>1. HashAt(d, m) = HashAt(c, m) /\ m \in Nat
      BY <1>2, <1>3, <1>4
    <3>2. c.heads[HashAt(c, m) % B] \in 1..m
      BY <1>5
    <3>3. ASSUME NEW n \in S \ {x}, n < m, HashAt(d, n) % B = HashAt(d, m) % B PROVE d.nodes[n].next \in 1..m
      <4>1. HashAt(d, n) = HashAt(c, n) /\ c.nodes[n].next \in 1..m
        BY <1>2, <1>3, <1>5, <3>1, <3>3
      <4>2. CASE n # p
        BY <1>3, <1>8, <4>1, <4>2
      <4>3. CASE n = p
        <5>1. x < m /\ HashAt(c, m) % B = a
          BY <1>8, <2>0, <3>1, <3>3, <4>1, <4>3
        <5>2. y \in 1..m
          BY <1>3, <1>5, <5>1
        <5> QED
          BY <1>3, <1>8, <4>3, <5>2
      <4> QED
        BY <4>2, <4>3
    <3> QED
      BY <1>2, <1>8, <3>1, <3>2, <3>3 DEF Unjumped
  <2> QED
    BY <1>2, <1>3, <2>4, <2>5 DEF Ordered
<1> QED
  BY <1>2, <1>7, <1>8

-----------------------------------------------------------------------------
(* A node is added at the end of the chain of its key.                     *)

(* Buckets of the one array are split into buckets of the other.           *)
Splits(old, new) ==
  \A x, y \in Nat : x % Buckets(new) = y % Buckets(new) => x % Buckets(old) = y % Buckets(old)

NewNode(c) == Len(c.nodes) + 1

Grown(c, d, S, k, o) ==
  LET b == BucketOf(k, c.heads)
  IN  /\ o \in DOMAIN c.pool /\ c.pool[o].key = k
      /\ b \in DOMAIN c.heads
      /\ d.nodes \in Seq(ANode) /\ Len(d.nodes) = NewNode(c)
      /\ d.nodes[NewNode(c)].entry = o /\ d.nodes[NewNode(c)].next = 0
      /\ \A n \in DOMAIN c.nodes : d.nodes[n].entry = c.nodes[n].entry
      /\ d.heads \in HeadArrays /\ DOMAIN d.heads = DOMAIN c.heads /\ Buckets(d.heads) = Buckets(c.heads)
      /\ \/ /\ c.heads[b] = 0
            /\ \A a \in DOMAIN c.heads : d.heads[a] = IF a = b THEN NewNode(c) ELSE c.heads[a]
            /\ \A n \in DOMAIN c.nodes : d.nodes[n].next = c.nodes[n].next
         \/ /\ d.heads = c.heads
            /\ \E q \in S : /\ HashAt(c, q) % Buckets(c.heads) = b
                            /\ c.nodes[q].next = 0
                            /\ \A n \in DOMAIN c.nodes :
                                 d.nodes[n].next = IF n = q THEN NewNode(c) ELSE c.nodes[n].next

LEMMA GrownNodes ==
  ASSUME NEW c, IsCache(c), NEW S, NEW k \in Keys, NEW o, NEW d, Grown(c, d, S, k, o), d.pool = c.pool
  PROVE  /\ NewNode(c) \in Nat \ {0} /\ NewNode(c) \notin DOMAIN c.nodes
         /\ \A n \in DOMAIN c.nodes : n \in Nat \ {0} /\ n < NewNode(c)
         /\ DOMAIN d.nodes = DOMAIN c.nodes \union {NewNode(c)}
         /\ SameKeys(c, d)
         /\ KeyAt(d, NewNode(c)) = k /\ HashAt(d, NewNode(c)) = HashOf[k]
         /\ HashOf[k] % Buckets(c.heads) = BucketOf(k, c.heads)
<1>1. Len(c.nodes) \in Nat /\ DOMAIN c.nodes = 1..Len(c.nodes)
  BY CacheFields
<1>2. d.nodes \in Seq(ANode) /\ Len(d.nodes) = Len(c.nodes) + 1
  BY DEF Grown, NewNode
<1>3. DOMAIN d.nodes = 1..(Len(c.nodes) + 1)
  BY <1>2, LenProperties
<1>4. DOMAIN d.nodes = DOMAIN c.nodes \union {NewNode(c)}
  BY <1>1, <1>3 DEF NewNode
<1>5. \A n \in DOMAIN c.nodes : d.nodes[n].entry = c.nodes[n].entry
  BY DEF Grown
<1>6. SameKeys(c, d)
  BY <1>4, <1>5 DEF SameKeys, KeyAt, HashAt
<1>7. KeyAt(d, NewNode(c)) = k
  BY DEF Grown, KeyAt
<1> QED
  BY <1>1, <1>4, <1>6, <1>7 DEF NewNode, HashAt, BucketOf

LEMMA GrownOther ==
  ASSUME NEW c, IsCache(c), NEW S, Ordered(c, S), NEW k \in Keys, NEW o, NEW d, Grown(c, d, S, k, o), d.pool = c.pool,
         NEW heads, NEW T, Closed(c, heads, T), Splits(heads, c.heads)
  PROVE  /\ Closed(d, heads, T \union {NewNode(c)})
         /\ \A m \in T : Unjumped(c, heads, T, m) => Unjumped(d, heads, T \union {NewNode(c)}, m)
<1> DEFINE B == Buckets(heads)
           w == NewNode(c)
           b == BucketOf(k, c.heads)
<1>1. /\ w \in Nat \ {0} /\ w \notin DOMAIN c.nodes
      /\ \A n \in DOMAIN c.nodes : n \in Nat \ {0} /\ n < w
      /\ DOMAIN d.nodes = DOMAIN c.nodes \union {w}
      /\ \A n \in DOMAIN c.nodes : HashAt(d, n) = HashAt(c, n)
      /\ HashAt(d, w) = HashOf[k] /\ HashOf[k] % Buckets(c.heads) = b
  <2>1. /\ NewNode(c) \in Nat \ {0} /\ NewNode(c) \notin DOMAIN c.nodes
        /\ \A n \in DOMAIN c.nodes : n \in Nat \ {0} /\ n < NewNode(c)
        /\ DOMAIN d.nodes = DOMAIN c.nodes \union {NewNode(c)}
        /\ SameKeys(c, d)
        /\ KeyAt(d, NewNode(c)) = k /\ HashAt(d, NewNode(c)) = HashOf[k]
        /\ HashOf[k] % Buckets(c.heads) = BucketOf(k, c.heads)
    BY GrownNodes
  <2> QED
    BY <2>1 DEF SameKeys
<1>2. /\ T \subseteq DOMAIN c.nodes
      /\ \A a \in DOMAIN heads : heads[a] # 0 => heads[a] \in T /\ HashAt(c, heads[a]) % B = a
      /\ \A n \in T : c.nodes[n].next # 0 => /\ c.nodes[n].next \in T
                                             /\ HashAt(c, c.nodes[n].next) % B = HashAt(c, n) % B
  BY DEF Closed
<1>3. d.nodes[w].next = 0
  BY DEF Grown
<1>4. \/ \A n \in DOMAIN c.nodes : d.nodes[n].next = c.nodes[n].next
      \/ \E q \in S : /\ HashAt(c, q) % Buckets(c.heads) = b
                      /\ c.nodes[q].next = 0
                      /\ \A n \in DOMAIN c.nodes : d.nodes[n].next = IF n = q THEN w ELSE c.nodes[n].next
  BY DEF Grown
<1>5. HashOf[k] \in Nat /\ \A n \in DOMAIN c.nodes : HashAt(c, n) \in Nat
  BY CacheFields, PersistAssumption
<1>6. \A n \in T : \/ d.nodes[n].next = c.nodes[n].next
                   \/ d.nodes[n].next = w /\ c.nodes[n].next = 0 /\ HashAt(c, n) % B = HashOf[k] % B
  <2> TAKE n \in T
  <2>1. CASE \A m \in DOMAIN c.nodes : d.nodes[m].next = c.nodes[m].next
    BY <1>2, <2>1
  <2>2. ASSUME NEW q \in S, HashAt(c, q) % Buckets(c.heads) = b, c.nodes[q].next = 0,
               \A m \in DOMAIN c.nodes : d.nodes[m].next = IF m = q THEN w ELSE c.nodes[m].next
        PROVE  \/ d.nodes[n].next = c.nodes[n].next
               \/ d.nodes[n].next = w /\ c.nodes[n].next = 0 /\ HashAt(c, n) % B = HashOf[k] % B
    <3>1. CASE n # q
      BY <1>2, <2>2, <3>1
    <3>2. CASE n = q
      <4>1. HashAt(c, n) \in Nat /\ HashAt(c, n) % Buckets(c.heads) = HashOf[k] % Buckets(c.heads)
        BY <1>1, <1>2, <1>5, <2>2, <3>2
      <4>2. HashAt(c, n) % B = HashOf[k] % B
        BY <1>5, <4>1 DEF Splits
      <4> QED
        BY <1>2, <2>2, <3>2, <4>2
    <3> QED
      BY <3>1, <3>2
  <2> QED
    BY <1>4, <2>1, <2>2
<1> HIDE DEF w, B, b
<1>7. Closed(d, heads, T \union {w})
  <2>1. T \union {w} \subseteq DOMAIN d.nodes
    BY <1>1, <1>2
  <2>2. \A a \in DOMAIN heads : heads[a] # 0 => heads[a] \in T \union {w} /\ HashAt(d, heads[a]) % B = a
    BY <1>1, <1>2
  <2>3. ASSUME NEW n \in T \union {w}, d.nodes[n].next # 0
        PROVE  d.nodes[n].next \in T \union {w} /\ HashAt(d, d.nodes[n].next) % B = HashAt(d, n) % B
    <3>1. n \in T /\ n \in DOMAIN c.nodes /\ HashAt(d, n) = HashAt(c, n)
      BY <1>1, <1>2, <1>3, <2>3
    <3>2. CASE d.nodes[n].next = c.nodes[n].next
      BY <1>1, <1>2, <2>3, <3>1, <3>2
    <3>3. CASE d.nodes[n].next = w /\ HashAt(c, n) % B = HashOf[k] % B
      BY <1>1, <3>1, <3>3
    <3> QED
      BY <1>6, <3>1, <3>2, <3>3
  <2> QED
    BY <2>1, <2>2, <2>3 DEF Closed, B
<1>8. ASSUME NEW m \in T, Unjumped(c, heads, T, m) PROVE Unjumped(d, heads, T \union {w}, m)
  <2>1. m \in DOMAIN c.nodes /\ m \in Nat /\ m < w /\ HashAt(d, m) = HashAt(c, m)
    BY <1>1, <1>2
  <2>2. heads[HashAt(d, m) % B] \in 1..m
    BY <1>8, <2>1 DEF Unjumped, B
  <2>3. ASSUME NEW n \in T \union {w}, n < m, HashAt(d, n) % B = HashAt(d, m) % B PROVE d.nodes[n].next \in 1..m
    <3>1. n \in T
      BY <1>1, <2>1, <2>3
    <3>2. n \in DOMAIN c.nodes /\ HashAt(d, n) = HashAt(c, n)
      BY <1>1, <1>2, <3>1
    <3>3. c.nodes[n].next \in 1..m
      BY <1>8, <2>1, <2>3, <3>1, <3>2 DEF Unjumped, B
    <3> QED
      BY <1>6, <3>1, <3>3
  <2> QED
    BY <2>2, <2>3 DEF Unjumped, B
<1> QED
  BY <1>7, <1>8 DEF w

LEMMA GrownOrdered ==
  ASSUME NEW c, IsCache(c), NEW S, Ordered(c, S), NEW k \in Keys, NEW o, NEW d, Grown(c, d, S, k, o), d.pool = c.pool
  PROVE  Ordered(d, S \union {NewNode(c)})
<1> DEFINE B == Buckets(c.heads)
           w == NewNode(c)
           b == BucketOf(k, c.heads)
<1>1. /\ w \in Nat \ {0} /\ w \notin DOMAIN c.nodes
      /\ \A n \in DOMAIN c.nodes : n \in Nat \ {0} /\ n < w
      /\ DOMAIN d.nodes = DOMAIN c.nodes \union {w}
      /\ \A n \in DOMAIN c.nodes : HashAt(d, n) = HashAt(c, n)
      /\ HashAt(d, w) = HashOf[k] /\ HashOf[k] % B = b
  <2>1. /\ NewNode(c) \in Nat \ {0} /\ NewNode(c) \notin DOMAIN c.nodes
        /\ \A n \in DOMAIN c.nodes : n \in Nat \ {0} /\ n < NewNode(c)
        /\ DOMAIN d.nodes = DOMAIN c.nodes \union {NewNode(c)}
        /\ SameKeys(c, d)
        /\ KeyAt(d, NewNode(c)) = k /\ HashAt(d, NewNode(c)) = HashOf[k]
        /\ HashOf[k] % Buckets(c.heads) = BucketOf(k, c.heads)
    BY GrownNodes
  <2> QED
    BY <2>1 DEF SameKeys
<1>2. /\ S \subseteq DOMAIN c.nodes
      /\ \A a \in DOMAIN c.heads : c.heads[a] # 0 => c.heads[a] \in S /\ HashAt(c, c.heads[a]) % B = a
      /\ \A n \in S : c.nodes[n].next # 0 => /\ c.nodes[n].next \in S
                                             /\ HashAt(c, c.nodes[n].next) % B = HashAt(c, n) % B
      /\ \A m \in S : /\ c.heads[HashAt(c, m) % B] \in 1..m
                      /\ \A n \in S : n < m /\ HashAt(c, n) % B = HashAt(c, m) % B => c.nodes[n].next \in 1..m
  BY DEF Ordered, Closed, Unjumped
<1>3. /\ d.nodes[w].next = 0
      /\ DOMAIN d.heads = DOMAIN c.heads /\ Buckets(d.heads) = B /\ b \in DOMAIN c.heads
  BY DEF Grown
<1>4. B # 0
  <2>1. B \in Nat /\ DOMAIN c.heads = 0..(B - 1)
    BY CacheFields
  <2> QED
    BY <1>3, <2>1
<1>5. CASE /\ c.heads[b] = 0
           /\ \A a \in DOMAIN c.heads : d.heads[a] = IF a = b THEN w ELSE c.heads[a]
           /\ \A n \in DOMAIN c.nodes : d.nodes[n].next = c.nodes[n].next
  <2> HIDE DEF w, b, B
  <2>1. \A m \in S : HashAt(c, m) % B # b
    BY <1>2, <1>5
  <2>2. S \union {w} \subseteq DOMAIN d.nodes
    BY <1>1, <1>2
  <2>3. \A a \in DOMAIN c.heads : d.heads[a] # 0 => d.heads[a] \in S \union {w} /\ HashAt(d, d.heads[a]) % B = a
    BY <1>1, <1>2, <1>5
  <2>4. \A n \in S \union {w} : d.nodes[n].next # 0 =>
          d.nodes[n].next \in S \union {w} /\ HashAt(d, d.nodes[n].next) % B = HashAt(d, n) % B
    BY <1>1, <1>2, <1>3, <1>5
  <2>5. Closed(d, d.heads, S \union {w})
    BY <1>3, <2>2, <2>3, <2>4 DEF Closed
  <2>6. ASSUME NEW m \in S \union {w}
        PROVE  /\ d.heads[HashAt(d, m) % B] \in 1..m
               /\ \A n \in S \union {w} : n < m /\ HashAt(d, n) % B = HashAt(d, m) % B => d.nodes[n].next \in 1..m
    <3>1. CASE m = w
      <4>1. d.heads[HashAt(d, m) % B] = w
        BY <1>1, <1>3, <1>5, <3>1
      <4>2. \A n \in S \union {w} : ~(n < m /\ HashAt(d, n) % B = HashAt(d, m) % B)
        BY <1>1, <1>2, <2>1, <3>1
      <4> QED
        BY <1>1, <3>1, <4>1, <4>2
    <3>2. CASE m \in S
      <4>1. m \in DOMAIN c.nodes /\ m < w /\ m \in Nat /\ HashAt(d, m) = HashAt(c, m) /\ HashAt(c, m) % B # b
        BY <1>1, <1>2, <2>1, <3>2
      <4>2. HashAt(c, m) % B \in DOMAIN c.heads
        <5>1. B \in Nat /\ B > 0 /\ DOMAIN c.heads = 0..(B - 1) /\ HashAt(c, m) \in Nat
          BY <1>4, <4>1, CacheFields DEF B
        <5> QED
          BY <5>1, ModRange
      <4>3. d.heads[HashAt(d, m) % B] \in 1..m
        BY <1>2, <1>5, <3>2, <4>1, <4>2
      <4>4. ASSUME NEW n \in S \union {w}, n < m, HashAt(d, n) % B = HashAt(d, m) % B PROVE d.nodes[n].next \in 1..m
        <5>1. n \in S
          BY <1>1, <4>1, <4>4
        <5>2. HashAt(d, n) = HashAt(c, n) /\ d.nodes[n].next = c.nodes[n].next
          BY <1>1, <1>2, <1>5, <5>1
        <5> QED
          BY <1>2, <3>2, <4>1, <4>4, <5>1, <5>2
      <4> QED
        BY <4>3, <4>4
    <3> QED
      BY <3>1, <3>2
  <2> QED
    BY <1>3, <1>4, <2>5, <2>6 DEF Ordered, Unjumped, w
<1>6. ASSUME NEW q \in S, HashAt(c, q) % B = b, c.nodes[q].next = 0, d.heads = c.heads,
             \A n \in DOMAIN c.nodes : d.nodes[n].next = IF n = q THEN w ELSE c.nodes[n].next
      PROVE  Ordered(d, S \union {w})
  <2> HIDE DEF w, b, B
  <2>0. q \in DOMAIN c.nodes /\ q \in Nat \ {0} /\ q < w
    BY <1>1, <1>2
  <2>1. ASSUME NEW m \in S, HashAt(c, m) % B = b, q < m PROVE FALSE
    <3>1. c.nodes[q].next \in 1..m
      BY <1>2, <1>6, <2>1
    <3> QED
      BY <1>6, <3>1
  <2>2. S \union {w} \subseteq DOMAIN d.nodes
    BY <1>1, <1>2
  <2>3. \A a \in DOMAIN c.heads : d.heads[a] # 0 => d.heads[a] \in S \union {w} /\ HashAt(d, d.heads[a]) % B = a
    BY <1>1, <1>2, <1>6
  <2>4. ASSUME NEW n \in S \union {w}, d.nodes[n].next # 0
        PROVE  d.nodes[n].next \in S \union {w} /\ HashAt(d, d.nodes[n].next) % B = HashAt(d, n) % B
    <3>1. n \in S /\ n \in DOMAIN c.nodes /\ HashAt(d, n) = HashAt(c, n)
      BY <1>1, <1>2, <1>3, <2>4
    <3>2. CASE n = q
      <4>1. d.nodes[n].next = w
        BY <1>6, <3>1, <3>2
      <4> QED
        BY <1>1, <1>6, <3>1, <3>2, <4>1
    <3>3. CASE n # q
      <4>1. d.nodes[n].next = c.nodes[n].next
        BY <1>6, <3>1, <3>3
      <4> QED
        BY <1>1, <1>2, <2>4, <3>1, <4>1
    <3> QED
      BY <3>2, <3>3
  <2>5. Closed(d, d.heads, S \union {w})
    BY <1>3, <2>2, <2>3, <2>4 DEF Closed
  <2>6. ASSUME NEW m \in S \union {w}
        PROVE  /\ d.heads[HashAt(d, m) % B] \in 1..m
               /\ \A n \in S \union {w} : n < m /\ HashAt(d, n) % B = HashAt(d, m) % B => d.nodes[n].next \in 1..m
    <3>1. CASE m = w
      <4>0. HashAt(d, m) % B = b
        BY <1>1, <3>1
      <4>1. d.heads[HashAt(d, m) % B] \in 1..m
        <5>1. c.heads[b] \in 1..q
          BY <1>2, <1>6
        <5> QED
          BY <1>1, <1>6, <2>0, <3>1, <4>0, <5>1
      <4>2. ASSUME NEW n \in S \union {w}, n < m, HashAt(d, n) % B = HashAt(d, m) % B PROVE d.nodes[n].next \in 1..m
        <5>1. n \in S /\ n \in DOMAIN c.nodes /\ n \in Nat /\ HashAt(d, n) = HashAt(c, n)
          BY <1>1, <1>2, <3>1, <4>2
        <5>2. CASE n = q
          BY <1>1, <1>6, <3>1, <5>1, <5>2
        <5>3. CASE n # q
          <6>1. n < q
            BY <2>0, <2>1, <4>0, <4>2, <5>1, <5>3
          <6>2. c.nodes[n].next \in 1..q
            BY <1>2, <1>6, <4>0, <4>2, <5>1, <6>1
          <6> QED
            BY <1>1, <1>6, <2>0, <3>1, <5>1, <5>3, <6>2
        <5> QED
          BY <5>2, <5>3
      <4> QED
        BY <4>1, <4>2
    <3>2. CASE m \in S
      <4>1. m \in DOMAIN c.nodes /\ m < w /\ m \in Nat /\ HashAt(d, m) = HashAt(c, m)
        BY <1>1, <1>2, <3>2
      <4>2. d.heads[HashAt(d, m) % B] \in 1..m
        BY <1>2, <1>6, <3>2, <4>1
      <4>3. ASSUME NEW n \in S \union {w}, n < m, HashAt(d, n) % B = HashAt(d, m) % B PROVE d.nodes[n].next \in 1..m
        <5>1. n \in S
          BY <1>1, <4>1, <4>3
        <5>2. n \in DOMAIN c.nodes /\ HashAt(d, n) = HashAt(c, n)
          BY <1>1, <1>2, <5>1
        <5>3. c.nodes[n].next \in 1..m
          BY <1>2, <3>2, <4>1, <4>3, <5>1, <5>2
        <5>4. n # q
          BY <1>6, <5>3
        <5> QED
          BY <1>6, <5>2, <5>3, <5>4
      <4> QED
        BY <4>2, <4>3
    <3> QED
      BY <3>1, <3>2
  <2> QED
    BY <1>3, <1>4, <2>5, <2>6 DEF Ordered, Unjumped
<1> QED
  BY <1>5, <1>6 DEF Grown

-----------------------------------------------------------------------------
(* The array doubles.                                                      *)

(* x is the next node of S after `from` with the hash b modulo M, or 0.    *)
NextOf(c, S, M, from, b, x) ==
  \/ x = 0 /\ \A m \in S : HashAt(c, m) % M = b => m <= from
  \/ /\ x \in S /\ HashAt(c, x) % M = b /\ from < x
     /\ \A m \in S : HashAt(c, m) % M = b /\ from < m => x <= m

LEMMA DealtIs ==
  ASSUME NEW c, IsCache(c), NEW S, Ordered(c, S), Buckets(c.heads) # 0,
         NEW b \in 0..(2 * Buckets(c.heads) - 1), NEW i, NEW from,
         \/ i = 0 /\ from = 0
         \/ /\ i \in DOMAIN Chain(c.nodes, c.heads[b % Buckets(c.heads)])
            /\ from = Chain(c.nodes, c.heads[b % Buckets(c.heads)])[i]
  PROVE  NextOf(c, S, 2 * Buckets(c.heads), from, b, NextDealt(c, b, i))
<1> DEFINE B     == Buckets(c.heads)
           M     == 2 * B
           ch    == Chain(c.nodes, c.heads[b % B])
           later == {j \in DOMAIN ch : j > i /\ NewBucket(c, ch[j]) = b}
           x     == NextDealt(c, b, i)
<1>1. /\ B \in Nat /\ DOMAIN c.heads = 0..(B - 1) /\ DOMAIN c.nodes \subseteq Nat \ {0}
      /\ \A n \in DOMAIN c.nodes : HashAt(c, n) \in Nat
  BY CacheFields
<1>2. B > 0 /\ b \in Nat
  BY <1>1
<1>3. b % B \in DOMAIN c.heads
  BY <1>1, <1>2, ModRange
<1>4. Closed(c, c.heads, S) /\ S \subseteq DOMAIN c.nodes
  BY DEF Ordered, Closed
<1>5. /\ IsChain(c.nodes, c.heads[b % B], ch)
      /\ Len(ch) \in Nat /\ DOMAIN ch = 1..Len(ch)
      /\ \A j \in DOMAIN ch : ch[j] \in S
  BY <1>3, <1>4, ChainClosed
<1>6. \A n : NewBucket(c, n) = HashAt(c, n) % M
  BY DEF NewBucket, HashAt
<1>7. ASSUME NEW m \in S, HashAt(c, m) % M = b PROVE \E j \in DOMAIN ch : ch[j] = m
  <2>1. HashAt(c, m) % B = b % B
    <3>1. HashAt(c, m) \in Nat
      BY <1>1, <1>4
    <3> QED
      BY <1>1, <1>2, <1>7, <3>1, ModHalf
  <2>2. Unjumped(c, c.heads, S, m)
    BY DEF Ordered
  <2> QED
    BY <1>2, <1>4, <2>1, <2>2, ChainReaches
<1>8. x = IF later = {} THEN 0 ELSE ch[Min(later)]
  BY DEF NextDealt
<1>9. \A j, k \in DOMAIN ch : j < k => ch[j] < ch[k]
  BY <1>5 DEF IsChain
<1>10. \A j \in DOMAIN ch : ch[j] \in Nat \ {0}
  BY <1>1, <1>4, <1>5
<1>11. i \in Nat /\ \A j \in DOMAIN ch : j > i <=> ch[j] > from
  <2>1. CASE i = 0 /\ from = 0
    BY <1>5, <1>10, <2>1
  <2>2. CASE i \in DOMAIN ch /\ from = ch[i]
    <3>1. i \in Nat
      BY <1>5, <2>2
    <3>2. ASSUME NEW j \in DOMAIN ch PROVE j > i <=> ch[j] > from
      <4>1. j \in Nat /\ ch[j] \in Nat /\ ch[i] \in Nat
        BY <1>5, <1>10, <2>2
      <4>2. (i < j => ch[i] < ch[j]) /\ (j < i => ch[j] < ch[i])
        BY <1>9, <2>2
      <4> QED
        BY <2>2, <3>1, <4>1, <4>2
    <3> QED
      BY <3>1, <3>2
  <2> QED
    BY <2>1, <2>2
<1>12. from \in Nat
  BY <1>10
<1> HIDE DEF ch, x, M, B
<1>13. CASE later = {}
  <2>1. ASSUME NEW m \in S, HashAt(c, m) % M = b PROVE m <= from
    <3>1. PICK j \in DOMAIN ch : ch[j] = m
      BY <1>7, <2>1
    <3>2. ~(j > i)
      BY <1>6, <1>13, <2>1, <3>1
    <3> QED
      BY <1>10, <1>11, <1>12, <3>1, <3>2
  <2> QED
    BY <1>8, <1>13, <2>1 DEF NextOf, M, B, x
<1>14. CASE later # {}
  <2> DEFINE l == Min(later)
  <2>1. later \in SUBSET Nat
    BY <1>5
  <2>2. l \in later /\ \A j \in later : l <= j
    BY <1>14, <2>1, LeastNumber
  <2> HIDE DEF l
  <2>3. x = ch[l] /\ x \in S /\ HashAt(c, x) % M = b /\ from < x
    BY <1>5, <1>6, <1>8, <1>10, <1>11, <1>12, <1>14, <2>2 DEF l
  <2>4. ASSUME NEW m \in S, HashAt(c, m) % M = b, from < m PROVE x <= m
    <3>1. PICK j \in DOMAIN ch : ch[j] = m
      BY <1>7, <2>4
    <3>2. j > i
      BY <1>10, <1>11, <1>12, <2>4, <3>1
    <3>3. j \in later
      BY <1>6, <2>4, <3>1, <3>2
    <3>4. l <= j /\ l \in DOMAIN ch
      BY <2>2, <3>3
    <3> QED
      BY <1>5, <1>9, <1>10, <2>3, <3>1, <3>4
  <2> QED
    BY <2>3, <2>4 DEF NextOf, M, B, x
<1> QED
  BY <1>13, <1>14

LEMMA ResizedIs ==
  ASSUME NEW c, IsCache(c), NEW S, Ordered(c, S), Buckets(c.heads) # 0
  PROVE  LET d == Resized(c)
             M == 2 * Buckets(c.heads)
         IN  /\ IsCache(d) /\ SameButHash(c, d) /\ d.size = c.size /\ Len(d.nodes) = Len(c.nodes)
             /\ DOMAIN d.nodes = DOMAIN c.nodes /\ SameKeys(c, d)
             /\ Buckets(d.heads) = M /\ DOMAIN d.heads = 0..(M - 1)
             /\ \A n \in DOMAIN c.nodes : d.nodes[n].entry = c.nodes[n].entry
             /\ \A n \in DOMAIN c.nodes \ S : d.nodes[n].next = c.nodes[n].next
             /\ \A n \in S : NextOf(c, S, M, n, HashAt(c, n) % M, d.nodes[n].next)
             /\ \A b \in DOMAIN d.heads : NextOf(c, S, M, 0, b, d.heads[b])
<1> DEFINE B == Buckets(c.heads)
           M == 2 * B
           d == Resized(c)
           new == [n \in DOMAIN c.nodes |-> [c.nodes[n] EXCEPT !.next = Relinked(c, n)]]
           h == [b \in 0..(M - 1) |-> NextDealt(c, b, 0)]
<1>1. /\ B \in Nat /\ B > 0 /\ M \in Nat /\ M > 0 /\ DOMAIN c.heads = 0..(B - 1)
      /\ DOMAIN c.nodes = 1..Len(c.nodes) /\ Len(c.nodes) \in Nat
      /\ \A n \in DOMAIN c.nodes : /\ HashAt(c, n) \in Nat /\ c.nodes[n] \in ANode
                                   /\ c.nodes[n].next \in 0..Len(c.nodes) /\ c.nodes[n].entry \in DOMAIN c.pool
  BY CacheFields
<1>2. S \subseteq DOMAIN c.nodes /\ Closed(c, c.heads, S) /\ \A m \in S : Unjumped(c, c.heads, S, m)
  BY DEF Ordered, Closed
<1>3. c \in ACache
  BY DEF IsCache
<1>4. d.nodes = new /\ d.heads = h /\ d.size = c.size /\ SameButHash(c, d)
  BY <1>3 DEF Resized, ACache, SameButHash
<1>5. \A n : NewBucket(c, n) = HashAt(c, n) % M
  BY DEF NewBucket, HashAt
<1>6. ASSUME NEW n \in S PROVE NextOf(c, S, M, n, HashAt(c, n) % M, Relinked(c, n))
  <2> DEFINE b  == HashAt(c, n) % M
             ch == Chain(c.nodes, c.heads[b % B])
             i  == Min(PlacesOf(c, n))
  <2>1. b \in 0..(M - 1) /\ b % B = HashAt(c, n) % B
    <3>1. HashAt(c, n) \in Nat
      BY <1>1, <1>2
    <3> QED
      BY <1>1, <3>1, ModRange, ModHalf
  <2>2. \E j \in DOMAIN ch : ch[j] = n
    <3>1. Unjumped(c, c.heads, S, n)
      BY <1>2
    <3>2. LET e == Chain(c.nodes, c.heads[HashAt(c, n) % Buckets(c.heads)])
          IN  \E j \in DOMAIN e : e[j] = n
      BY <1>2, <3>1, ChainReaches
    <3> QED
      BY <2>1, <3>2
  <2>3. PlacesOf(c, n) = {j \in DOMAIN ch : ch[j] = n}
    BY <1>5 DEF PlacesOf
  <2>4. b % B \in DOMAIN c.heads
    BY <1>1, <2>1, ModRange
  <2>5. DOMAIN ch = 1..Len(ch)
    BY <1>2, <2>4, ChainClosed
  <2>6. PlacesOf(c, n) \in SUBSET Nat /\ PlacesOf(c, n) # {}
    <3>1. PlacesOf(c, n) # {}
      BY <2>2, <2>3
    <3>2. ASSUME NEW j \in PlacesOf(c, n) PROVE j \in Nat
      BY <2>3, <2>5, <3>2
    <3> QED
      BY <3>1, <3>2
  <2>7. i \in DOMAIN ch /\ ch[i] = n
    <3>1. i \in PlacesOf(c, n)
      BY <2>6, LeastNumber
    <3> QED
      BY <2>3, <3>1
  <2>8. Relinked(c, n) = NextDealt(c, b, i)
    BY <1>5, <2>6 DEF Relinked
  <2> HIDE DEF i, b
  <2>9. NextOf(c, S, 2 * Buckets(c.heads), n, b, NextDealt(c, b, i))
    BY <1>1, <2>1, <2>7, DealtIs
  <2> QED
    BY <2>8, <2>9 DEF b
<1>7. ASSUME NEW n \in DOMAIN c.nodes \ S PROVE Relinked(c, n) = c.nodes[n].next
  <2> DEFINE b  == HashAt(c, n) % M
             ch == Chain(c.nodes, c.heads[b % B])
  <2>1. b \in 0..(M - 1)
    BY <1>1, ModRange
  <2>2. b % B \in DOMAIN c.heads
    BY <1>1, <2>1, ModRange, SMTT(30)
  <2>3. \A j \in DOMAIN ch : ch[j] \in S
    BY <1>2, <2>2, ChainClosed
  <2>4. PlacesOf(c, n) = {j \in DOMAIN ch : ch[j] = n}
    BY <1>5 DEF PlacesOf
  <2>5. PlacesOf(c, n) = {}
    BY <2>3, <2>4
  <2> QED
    BY <2>5 DEF Relinked
<1>8. ASSUME NEW b \in 0..(M - 1) PROVE NextOf(c, S, M, 0, b, NextDealt(c, b, 0))
  BY <1>1, DealtIs
<1> HIDE DEF d, M, B
<1>9. \A n \in DOMAIN c.nodes : Relinked(c, n) \in 0..Len(c.nodes) /\ (Relinked(c, n) # 0 => n < Relinked(c, n))
  <2> TAKE n \in DOMAIN c.nodes
  <2>1. CASE n \in S
    <3>1. Relinked(c, n) = 0 \/ (Relinked(c, n) \in S /\ n < Relinked(c, n))
      BY <1>6, <2>1 DEF NextOf
    <3> QED
      BY <1>1, <1>2, <3>1
  <2>2. CASE n \notin S
    <3>1. Relinked(c, n) = c.nodes[n].next
      BY <1>7, <2>2
    <3> QED
      BY <1>1, <3>1 DEF IsCache, NodesUp
  <2> QED
    BY <2>1, <2>2
<1>10. \A n \in DOMAIN c.nodes : new[n] \in ANode /\ new[n].entry = c.nodes[n].entry /\ new[n].next = Relinked(c, n)
  <2> TAKE n \in DOMAIN c.nodes
  <2>1. c.nodes[n] \in ANode /\ Relinked(c, n) \in Nat
    BY <1>1, <1>9
  <2>2. new[n] = [c.nodes[n] EXCEPT !.next = Relinked(c, n)]
    OBVIOUS
  <2> HIDE DEF new
  <2> QED
    BY <2>1, <2>2 DEF ANode
<1>11. new \in Seq(ANode) /\ Len(new) = Len(c.nodes) /\ DOMAIN new = DOMAIN c.nodes
  <2>1. new \in [1..Len(c.nodes) -> ANode]
    BY <1>1, <1>10
  <2> HIDE DEF new
  <2> QED
    BY <1>1, <2>1, SeqDef, LenProperties
<1> HIDE DEF new
<1>12. \A b \in 0..(M - 1) : h[b] \in 0..Len(c.nodes) /\ NextOf(c, S, M, 0, b, h[b])
  <2> TAKE b \in 0..(M - 1)
  <2>1. h[b] = NextDealt(c, b, 0)
    OBVIOUS
  <2>2. h[b] = 0 \/ h[b] \in S
    BY <1>8, <2>1 DEF NextOf
  <2> HIDE DEF h
  <2> QED
    BY <1>1, <1>2, <1>8, <2>1, <2>2
<1>13. h \in [0..(M - 1) -> Nat] /\ DOMAIN h = 0..(M - 1)
  BY <1>1, <1>12
<1> HIDE DEF h
<1>14. h \in HeadArrays
  BY <1>1, <1>13 DEF HeadArrays
<1>15. Buckets(h) = M
  <2>1. Buckets(h) \in Nat /\ DOMAIN h = 0..(Buckets(h) - 1)
    BY <1>14, BucketsIs
  <2>2. 0..(Buckets(h) - 1) = 0..(M - 1)
    BY <1>13, <2>1
  <2>3. M - 1 \in 0..(Buckets(h) - 1)
    <3>1. M - 1 \in 0..(M - 1)
      BY <1>1
    <3> QED
      BY <2>2, <3>1
  <2>4. Buckets(h) - 1 \in 0..(M - 1)
    BY <1>1, <2>1, <2>2, <2>3
  <2> QED
    BY <1>1, <2>1, <2>3, <2>4
<1>16. d \in ACache
  <2>1. d = Rewired(c, new, h, c.size)
    BY <1>3 DEF d, new, h, M, B, Resized, Rewired, ACache
  <2>2. c.size \in Nat
    BY <1>3 DEF ACache
  <2> QED
    BY <1>3, <1>11, <1>14, <2>1, <2>2, RewiredFields
<1>17. NodesUp(new)
  <2>1. \A n \in DOMAIN new : new[n].next # 0 => new[n].next \in DOMAIN new /\ n < new[n].next
    BY <1>1, <1>9, <1>10, <1>11
  <2> QED
    BY <1>11, <2>1 DEF NodesUp
<1>18. IsCache(d)
  <2>1. \A n \in DOMAIN d.nodes : d.nodes[n].entry \in DOMAIN d.pool
    BY <1>1, <1>4, <1>10, <1>11 DEF SameButHash
  <2>2. \A b \in DOMAIN d.heads : d.heads[b] \in 0..Len(d.nodes)
    BY <1>4, <1>11, <1>12, <1>13
  <2>3. d.sorted \subseteq DOMAIN d.pool /\ d.names \subseteq DOMAIN d.pool
    BY <1>4 DEF SameButHash, IsCache
  <2> QED
    BY <1>4, <1>16, <1>17, <2>1, <2>2, <2>3 DEF IsCache
<1>19. SameKeys(c, d)
  BY <1>4, <1>10, <1>11 DEF SameKeys, KeyAt, HashAt, SameButHash
<1>20. /\ \A n \in DOMAIN c.nodes \ S : d.nodes[n].next = c.nodes[n].next
       /\ \A n \in S : NextOf(c, S, M, n, HashAt(c, n) % M, d.nodes[n].next)
  BY <1>2, <1>4, <1>6, <1>7, <1>10
<1> QED
  BY <1>4, <1>10, <1>11, <1>12, <1>13, <1>15, <1>18, <1>19, <1>20 DEF d, M, B

LEMMA ResizedOrdered ==
  ASSUME NEW c, IsCache(c), NEW S, Ordered(c, S), Buckets(c.heads) # 0
  PROVE  Ordered(Resized(c), S)
<1> DEFINE d == Resized(c)
           M == 2 * Buckets(c.heads)
<1>1. /\ DOMAIN d.nodes = DOMAIN c.nodes
      /\ \A n \in DOMAIN c.nodes : HashAt(d, n) = HashAt(c, n)
      /\ Buckets(d.heads) = M /\ DOMAIN d.heads = 0..(M - 1)
      /\ \A n \in S : NextOf(c, S, M, n, HashAt(c, n) % M, d.nodes[n].next)
      /\ \A b \in DOMAIN d.heads : NextOf(c, S, M, 0, b, d.heads[b])
  BY ResizedIs DEF SameKeys
<1>2. S \subseteq DOMAIN c.nodes
  BY DEF Ordered, Closed
<1>3. /\ M \in Nat /\ M > 0 /\ DOMAIN c.nodes \subseteq Nat \ {0}
      /\ \A n \in DOMAIN c.nodes : HashAt(c, n) \in Nat
  BY CacheFields
<1> HIDE DEF d, M
<1>4. \A b \in DOMAIN d.heads : d.heads[b] # 0 => d.heads[b] \in S /\ HashAt(d, d.heads[b]) % M = b
  BY <1>1, <1>2 DEF NextOf
<1>5. \A n \in S : d.nodes[n].next # 0 =>
        d.nodes[n].next \in S /\ HashAt(d, d.nodes[n].next) % M = HashAt(d, n) % M
  BY <1>1, <1>2 DEF NextOf
<1>6. Closed(d, d.heads, S)
  BY <1>1, <1>2, <1>4, <1>5 DEF Closed
<1>7. ASSUME NEW m \in S PROVE Unjumped(d, d.heads, S, m)
  <2>1. m \in DOMAIN c.nodes /\ m \in Nat \ {0} /\ HashAt(d, m) = HashAt(c, m) /\ HashAt(c, m) \in Nat
    BY <1>1, <1>2, <1>3
  <2>2. HashAt(c, m) % M \in DOMAIN d.heads
    BY <1>1, <1>3, <2>1, ModRange
  <2>3. d.heads[HashAt(c, m) % M] \in 1..m
    <3>1. NextOf(c, S, M, 0, HashAt(c, m) % M, d.heads[HashAt(c, m) % M])
      BY <1>1, <2>2
    <3>2. d.heads[HashAt(c, m) % M] \in S /\ d.heads[HashAt(c, m) % M] <= m
      BY <2>1, <3>1 DEF NextOf
    <3> QED
      BY <1>2, <1>3, <2>1, <3>2
  <2>4. ASSUME NEW n \in S, n < m, HashAt(d, n) % M = HashAt(d, m) % M PROVE d.nodes[n].next \in 1..m
    <3>1. HashAt(d, n) = HashAt(c, n) /\ n \in Nat
      BY <1>1, <1>2, <1>3
    <3>2. NextOf(c, S, M, n, HashAt(c, m) % M, d.nodes[n].next)
      BY <1>1, <2>1, <2>4, <3>1
    <3>3. d.nodes[n].next \in S /\ d.nodes[n].next <= m
      BY <2>1, <2>4, <3>1, <3>2 DEF NextOf
    <3> QED
      BY <1>2, <1>3, <2>1, <3>3
  <2> QED
    BY <1>1, <2>1, <2>3, <2>4 DEF Unjumped
<1> QED
  BY <1>1, <1>3, <1>6, <1>7 DEF Ordered, d

(* An older array of buckets is led to other nodes, but to no wrong ones.  *)
LEMMA ResizedOther ==
  ASSUME NEW c, IsCache(c), NEW S, Ordered(c, S), Buckets(c.heads) # 0,
         NEW heads, NEW T, Closed(c, heads, T), Splits(heads, c.heads)
  PROVE  Closed(Resized(c), heads, T \union S) /\ Splits(heads, Resized(c).heads)
<1> DEFINE d == Resized(c)
           B == Buckets(c.heads)
           M == 2 * B
           A == Buckets(heads)
<1>1. /\ DOMAIN d.nodes = DOMAIN c.nodes
      /\ \A n \in DOMAIN c.nodes : HashAt(d, n) = HashAt(c, n)
      /\ Buckets(d.heads) = M
      /\ \A n \in DOMAIN c.nodes \ S : d.nodes[n].next = c.nodes[n].next
      /\ \A n \in S : NextOf(c, S, M, n, HashAt(c, n) % M, d.nodes[n].next)
  BY ResizedIs DEF SameKeys
<1>2. S \subseteq DOMAIN c.nodes
  BY DEF Ordered, Closed
<1>3. /\ B \in Nat /\ B > 0 /\ DOMAIN c.nodes \subseteq Nat \ {0}
      /\ \A n \in DOMAIN c.nodes : HashAt(c, n) \in Nat
  BY CacheFields
<1>4. /\ T \subseteq DOMAIN c.nodes
      /\ \A a \in DOMAIN heads : heads[a] # 0 => heads[a] \in T /\ HashAt(c, heads[a]) % A = a
      /\ \A n \in T : c.nodes[n].next # 0 => /\ c.nodes[n].next \in T
                                             /\ HashAt(c, c.nodes[n].next) % A = HashAt(c, n) % A
  BY DEF Closed
<1>5. ASSUME NEW x \in Nat, NEW y \in Nat, x % M = y % M PROVE x % A = y % A
  <2>1. (x % M) % B = x % B /\ (y % M) % B = y % B
    BY <1>3, ModHalf
  <2>2. x % B = y % B
    BY <1>5, <2>1
  <2> QED
    BY <2>2 DEF Splits
<1>6. Splits(heads, d.heads)
  BY <1>1, <1>5 DEF Splits
<1> HIDE DEF d, M, A
<1>7. ASSUME NEW n \in T \union S, d.nodes[n].next # 0
      PROVE  d.nodes[n].next \in T \union S /\ HashAt(d, d.nodes[n].next) % A = HashAt(d, n) % A
  <2>1. CASE n \in S
    <3>1. d.nodes[n].next \in S /\ HashAt(c, d.nodes[n].next) % M = HashAt(c, n) % M
      BY <1>1, <1>7, <2>1 DEF NextOf
    <3>2. HashAt(c, d.nodes[n].next) % A = HashAt(c, n) % A
      BY <1>2, <1>3, <1>5, <2>1, <3>1
    <3> QED
      BY <1>1, <1>2, <2>1, <3>1, <3>2
  <2>2. CASE n \notin S
    <3>1. n \in T /\ n \in DOMAIN c.nodes /\ d.nodes[n].next = c.nodes[n].next
      BY <1>1, <1>4, <1>7, <2>2
    <3> QED
      BY <1>1, <1>4, <1>7, <3>1
  <2> QED
    BY <2>1, <2>2
<1>8. \A a \in DOMAIN heads : heads[a] # 0 => heads[a] \in T \union S /\ HashAt(d, heads[a]) % A = a
  BY <1>1, <1>4
<1>9. Closed(d, heads, T \union S)
  BY <1>1, <1>2, <1>4, <1>7, <1>8 DEF Closed, A
<1> QED
  BY <1>6, <1>9 DEF d

(* A doubling that is broken off leaves every node its old successor, its  *)
(* new one or none.                                                        *)
LEMMA HalfIs ==
  ASSUME NEW c, IsCache(c), NEW S, Ordered(c, S), Buckets(c.heads) # 0, NEW x \in HalfResized(c)
  PROVE  /\ IsCache(x) /\ x.pool = c.pool /\ SameKeys(c, x) /\ DOMAIN x.nodes = DOMAIN c.nodes
         /\ \A n \in DOMAIN c.nodes : x.nodes[n].next \in {0, c.nodes[n].next, Resized(c).nodes[n].next}
<1>1. PICK b \in DOMAIN c.heads : \E j \in 0..Len(c.nodes) : \E cut \in BOOLEAN :
        x = [c EXCEPT !.nodes = [n \in DOMAIN c.nodes |-> [c.nodes[n] EXCEPT !.next = HalfRelinked(c, n, b, j, cut)]]]
  BY DEF HalfResized
<1>2. PICK j \in 0..Len(c.nodes) : \E cut \in BOOLEAN :
        x = [c EXCEPT !.nodes = [n \in DOMAIN c.nodes |-> [c.nodes[n] EXCEPT !.next = HalfRelinked(c, n, b, j, cut)]]]
  BY <1>1
<1>3. PICK cut \in BOOLEAN :
        x = [c EXCEPT !.nodes = [n \in DOMAIN c.nodes |-> [c.nodes[n] EXCEPT !.next = HalfRelinked(c, n, b, j, cut)]]]
  BY <1>2
<1> DEFINE d == Resized(c)
           half(n) == HalfRelinked(c, n, b, j, cut)
           new == [n \in DOMAIN c.nodes |-> [c.nodes[n] EXCEPT !.next = half(n)]]
<1>4. /\ DOMAIN c.nodes = 1..Len(c.nodes) /\ Len(c.nodes) \in Nat /\ c \in ACache
      /\ \A n \in DOMAIN c.nodes : /\ c.nodes[n] \in ANode
                                   /\ c.nodes[n].next \in 0..Len(c.nodes) /\ c.nodes[n].entry \in DOMAIN c.pool
  BY CacheFields DEF IsCache
<1>5. \A n \in DOMAIN c.nodes : half(n) \in {0, c.nodes[n].next, Relinked(c, n)}
  BY DEF HalfRelinked
<1>6. /\ x = Rewired(c, new, c.heads, c.size) /\ c.heads \in HeadArrays /\ c.size \in Nat
  BY <1>3, <1>4 DEF Rewired, ACache
<1> HIDE DEF half
<1>7. IsCache(d) /\ DOMAIN d.nodes = DOMAIN c.nodes /\ Len(d.nodes) = Len(c.nodes)
  BY ResizedIs
<1>8. \A n \in DOMAIN c.nodes : d.nodes[n].next = Relinked(c, n)
  <2> TAKE n \in DOMAIN c.nodes
  <2>1. d.nodes = [m \in DOMAIN c.nodes |-> [c.nodes[m] EXCEPT !.next = Relinked(c, m)]]
    BY <1>4 DEF Resized, ACache
  <2>2. d.nodes[n] = [c.nodes[n] EXCEPT !.next = Relinked(c, n)]
    BY <2>1
  <2>3. c.nodes[n] \in ANode
    BY <1>4
  <2> QED
    BY <2>2, <2>3 DEF ANode
<1> HIDE DEF d
<1>9. \A n \in DOMAIN c.nodes : half(n) \in 0..Len(c.nodes) /\ (half(n) # 0 => n < half(n))
  <2> TAKE n \in DOMAIN c.nodes
  <2>1. c.nodes[n].next # 0 => n < c.nodes[n].next
    BY DEF IsCache, NodesUp
  <2>2. Relinked(c, n) # 0 => Relinked(c, n) \in DOMAIN c.nodes /\ n < Relinked(c, n)
    BY <1>7, <1>8 DEF IsCache, NodesUp
  <2> QED
    BY <1>4, <1>5, <2>1, <2>2
<1>10. \A n \in DOMAIN c.nodes : new[n] \in ANode /\ new[n].entry = c.nodes[n].entry /\ new[n].next = half(n)
  <2> TAKE n \in DOMAIN c.nodes
  <2>1. c.nodes[n] \in ANode /\ half(n) \in Nat
    BY <1>4, <1>9
  <2>2. new[n] = [c.nodes[n] EXCEPT !.next = half(n)]
    OBVIOUS
  <2> HIDE DEF new
  <2> QED
    BY <2>1, <2>2 DEF ANode
<1>11. new \in Seq(ANode) /\ Len(new) = Len(c.nodes) /\ DOMAIN new = DOMAIN c.nodes
  <2>1. new \in [1..Len(c.nodes) -> ANode]
    BY <1>4, <1>10
  <2> HIDE DEF new
  <2> QED
    BY <1>4, <2>1, SeqDef, LenProperties
<1> HIDE DEF new
<1>12. x.nodes = new /\ x.heads = c.heads /\ SameButHash(c, x) /\ x \in ACache
  BY <1>4, <1>6, <1>11, RewiredFields
<1>13. NodesUp(new)
  <2>1. \A n \in DOMAIN new : new[n].next # 0 => new[n].next \in DOMAIN new /\ n < new[n].next
    BY <1>4, <1>9, <1>10, <1>11
  <2> QED
    BY <1>11, <2>1 DEF NodesUp
<1>14. IsCache(x)
  <2>1. \A n \in DOMAIN x.nodes : x.nodes[n].entry \in DOMAIN x.pool
    BY <1>4, <1>10, <1>11, <1>12 DEF SameButHash
  <2>2. \A a \in DOMAIN x.heads : x.heads[a] \in 0..Len(x.nodes)
    BY <1>11, <1>12 DEF IsCache
  <2>3. x.sorted \subseteq DOMAIN x.pool /\ x.names \subseteq DOMAIN x.pool
    BY <1>12 DEF SameButHash, IsCache
  <2> QED
    BY <1>12, <1>13, <2>1, <2>2, <2>3 DEF IsCache
<1>15. SameKeys(c, x)
  BY <1>10, <1>11, <1>12 DEF SameKeys, KeyAt, HashAt, SameButHash
<1>16. \A n \in DOMAIN c.nodes : x.nodes[n].next \in {0, c.nodes[n].next, d.nodes[n].next}
  BY <1>5, <1>8, <1>10, <1>12
<1> QED
  BY <1>11, <1>12, <1>14, <1>15, <1>16 DEF d, SameButHash

(* An older array is led to no wrong node by it.                           *)
LEMMA HalfOther ==
  ASSUME NEW c, IsCache(c), NEW S, Ordered(c, S), Buckets(c.heads) # 0, NEW x \in HalfResized(c),
         NEW heads, NEW T, Closed(c, heads, T), Splits(heads, c.heads)
  PROVE  Closed(x, heads, T \union S)
<1> DEFINE d == Resized(c)
           A == Buckets(heads)
           B == Buckets(c.heads)
<1>1. /\ DOMAIN x.nodes = DOMAIN c.nodes
      /\ \A n \in DOMAIN c.nodes : /\ HashAt(x, n) = HashAt(c, n)
                                   /\ x.nodes[n].next \in {0, c.nodes[n].next, d.nodes[n].next}
  BY HalfIs DEF SameKeys
<1>2. \A n \in DOMAIN c.nodes : HashAt(d, n) = HashAt(c, n)
  BY ResizedIs DEF SameKeys
<1>3. /\ T \subseteq DOMAIN c.nodes
      /\ \A a \in DOMAIN heads : heads[a] # 0 => heads[a] \in T /\ HashAt(c, heads[a]) % A = a
      /\ \A n \in T : c.nodes[n].next # 0 => /\ c.nodes[n].next \in T
                                             /\ HashAt(c, c.nodes[n].next) % A = HashAt(c, n) % A
  BY DEF Closed
<1>4. /\ S \subseteq DOMAIN c.nodes
      /\ \A n \in S : c.nodes[n].next # 0 => /\ c.nodes[n].next \in S
                                             /\ HashAt(c, c.nodes[n].next) % B = HashAt(c, n) % B
  BY DEF Ordered, Closed
<1>5. \A n \in DOMAIN c.nodes : HashAt(c, n) \in Nat
  BY CacheFields
<1>6. \A n \in T \union S : d.nodes[n].next # 0 =>
        d.nodes[n].next \in T \union S /\ HashAt(d, d.nodes[n].next) % A = HashAt(d, n) % A
  <2>1. Closed(d, heads, T \union S)
    BY ResizedOther
  <2> QED
    BY <2>1 DEF Closed
<1> HIDE DEF d, A, B
<1>7. ASSUME NEW n \in T \union S, x.nodes[n].next # 0
      PROVE  x.nodes[n].next \in T \union S /\ HashAt(x, x.nodes[n].next) % A = HashAt(x, n) % A
  <2>1. n \in DOMAIN c.nodes /\ HashAt(x, n) = HashAt(c, n)
    BY <1>1, <1>3, <1>4
  <2>2. CASE x.nodes[n].next = d.nodes[n].next
    <3>1. d.nodes[n].next \in T \union S /\ HashAt(d, d.nodes[n].next) % A = HashAt(d, n) % A
      BY <1>6, <1>7, <2>2
    <3>2. d.nodes[n].next \in DOMAIN c.nodes
      BY <1>3, <1>4, <3>1
    <3> QED
      BY <1>1, <1>2, <2>1, <2>2, <3>1, <3>2
  <2>3. CASE x.nodes[n].next = c.nodes[n].next /\ n \in T
    <3>1. c.nodes[n].next \in T /\ HashAt(c, c.nodes[n].next) % A = HashAt(c, n) % A
      BY <1>3, <1>7, <2>3
    <3>2. c.nodes[n].next \in DOMAIN c.nodes
      BY <1>3, <3>1
    <3> QED
      BY <1>1, <2>1, <2>3, <3>1, <3>2
  <2>4. CASE x.nodes[n].next = c.nodes[n].next /\ n \in S
    <3>1. c.nodes[n].next \in S /\ HashAt(c, c.nodes[n].next) % B = HashAt(c, n) % B
      BY <1>4, <1>7, <2>4
    <3>2. c.nodes[n].next \in DOMAIN c.nodes
      BY <1>4, <3>1
    <3>3. HashAt(c, c.nodes[n].next) % A = HashAt(c, n) % A
      BY <1>5, <2>1, <3>1, <3>2 DEF Splits, A, B
    <3> QED
      BY <1>1, <2>1, <2>4, <3>1, <3>2, <3>3
  <2> QED
    BY <1>1, <1>7, <2>1, <2>2, <2>3, <2>4
<1>8. \A a \in DOMAIN heads : heads[a] # 0 => heads[a] \in T \union S /\ HashAt(x, heads[a]) % A = a
  BY <1>1, <1>3
<1> QED
  BY <1>1, <1>3, <1>4, <1>7, <1>8 DEF Closed, A

-----------------------------------------------------------------------------
(* Insertion.                                                              *)

(* Whatever leaves the links and the keys alone leaves the walks alone.    *)
LEMMA SameLinks ==
  ASSUME NEW c, NEW d, NEW heads, NEW T, T \subseteq DOMAIN c.nodes,
         SameKeys(c, d), \A n \in DOMAIN c.nodes : d.nodes[n].next = c.nodes[n].next
  PROVE  /\ Closed(c, heads, T) => Closed(d, heads, T)
         /\ \A m \in T : Unjumped(c, heads, T, m) => Unjumped(d, heads, T, m)
<1>1. DOMAIN c.nodes \subseteq DOMAIN d.nodes /\ \A n \in DOMAIN c.nodes : HashAt(d, n) = HashAt(c, n)
  BY DEF SameKeys
<1>2. ASSUME Closed(c, heads, T) PROVE Closed(d, heads, T)
  <2>1. \A b \in DOMAIN heads : heads[b] # 0 => heads[b] \in T /\ HashAt(d, heads[b]) % Buckets(heads) = b
    BY <1>1, <1>2 DEF Closed
  <2>2. \A n \in T : d.nodes[n].next # 0 =>
           /\ d.nodes[n].next \in T
           /\ HashAt(d, d.nodes[n].next) % Buckets(heads) = HashAt(d, n) % Buckets(heads)
    <3> TAKE n \in T
    <3>1. n \in DOMAIN c.nodes /\ d.nodes[n].next = c.nodes[n].next /\ HashAt(d, n) = HashAt(c, n)
      BY <1>1
    <3>2. c.nodes[n].next # 0 => c.nodes[n].next \in T /\ HashAt(c, c.nodes[n].next) % Buckets(heads) = HashAt(c, n) % Buckets(heads)
      BY <1>2 DEF Closed
    <3> QED
      BY <1>1, <3>1, <3>2
  <2> QED
    BY <1>1, <2>1, <2>2 DEF Closed
<1>3. ASSUME NEW m \in T, Unjumped(c, heads, T, m) PROVE Unjumped(d, heads, T, m)
  <2>1. HashAt(d, m) = HashAt(c, m)
    BY <1>1
  <2>2. \A n \in T : n < m /\ HashAt(d, n) % Buckets(heads) = HashAt(d, m) % Buckets(heads) => d.nodes[n].next \in 1..m
    BY <1>1, <1>3, <2>1 DEF Unjumped
  <2> QED
    BY <1>3, <2>1, <2>2 DEF Unjumped
<1> QED
  BY <1>2, <1>3

LEMMA SameLinksOrdered ==
  ASSUME NEW c, NEW d, NEW S, Ordered(c, S), d.heads = c.heads,
         SameKeys(c, d), \A n \in DOMAIN c.nodes : d.nodes[n].next = c.nodes[n].next
  PROVE  Ordered(d, S)
<1>1. S \subseteq DOMAIN c.nodes /\ Closed(c, c.heads, S)
  BY DEF Ordered, Closed
<1>2. Closed(d, c.heads, S) /\ \A m \in S : Unjumped(c, c.heads, S, m) => Unjumped(d, c.heads, S, m)
  BY <1>1, SameLinks
<1> QED
  BY <1>2 DEF Ordered

(* There is one chain.                                                     *)
LEMMA ChainUnique ==
  ASSUME NEW nodes, NEW more, NEW first, NEW ch, NEW dh,
         IsChain(nodes, first, ch), IsChain(more, first, dh),
         0 \notin DOMAIN nodes, 0 \notin DOMAIN more,
         \A n \in DOMAIN nodes : more[n].next = nodes[n].next
  PROVE  ch = dh
<1>1. /\ ch \in Seq(DOMAIN nodes) /\ dh \in Seq(DOMAIN more)
      /\ Len(ch) \in Nat /\ \A i \in 1..Len(ch) : ch[i] \in DOMAIN nodes
      /\ Len(dh) \in Nat /\ \A i \in 1..Len(dh) : dh[i] \in DOMAIN more
      /\ DOMAIN ch = 1..Len(ch) /\ DOMAIN dh = 1..Len(dh)
  BY ElementOfSeq, LenProperties DEF IsChain
<1>2. \A i \in 1..Len(ch) : i <= Len(dh) /\ ch[i] = dh[i]
  <2> DEFINE Bad == {i \in 1..Len(ch) : ~(i <= Len(dh) /\ ch[i] = dh[i])}
             i == Min(Bad)
  <2> SUFFICES ASSUME Bad # {} PROVE FALSE
    OBVIOUS
  <2>1. Bad \in SUBSET Nat
    BY <1>1
  <2>2. i \in Bad /\ \A j \in Bad : i <= j
    BY <2>1, LeastNumber
  <2> HIDE DEF i
  <2>3. CASE i = 1
    <3>1. Len(ch) > 0 /\ ch[1] = first /\ first # 0
      BY <1>1, <2>2, <2>3 DEF IsChain
    <3>2. Len(dh) > 0 /\ dh[1] = first
      BY <1>1, <3>1 DEF IsChain
    <3> QED
      BY <1>1, <2>2, <2>3, <3>1, <3>2
  <2>4. CASE i # 1
    <3>1. i - 1 \in 1..(Len(ch) - 1) /\ i - 1 \in 1..Len(ch) /\ i - 1 \notin Bad /\ (i - 1) + 1 = i /\ i \in 1..Len(ch)
      BY <1>1, <2>2, <2>4
    <3>2. i - 1 \in 1..Len(dh) /\ ch[i - 1] = dh[i - 1]
      BY <1>1, <3>1
    <3>3. ch[i] = nodes[ch[i - 1]].next
      BY <3>1 DEF IsChain
    <3>4. more[dh[i - 1]].next = ch[i] /\ ch[i] # 0
      BY <1>1, <3>1, <3>2, <3>3
    <3>5. i - 1 # Len(dh)
      <4> SUFFICES ASSUME i - 1 = Len(dh) PROVE FALSE
        OBVIOUS
      <4>1. more[dh[Len(dh)]].next = 0
        BY <1>1, <3>2 DEF IsChain
      <4> QED
        BY <3>4, <4>1
    <3>6. i - 1 \in 1..(Len(dh) - 1) /\ i <= Len(dh)
      BY <1>1, <3>1, <3>2, <3>5
    <3>7. dh[i] = more[dh[i - 1]].next
      BY <3>1, <3>6 DEF IsChain
    <3> QED
      BY <2>2, <3>4, <3>6, <3>7
  <2> QED
    BY <2>3, <2>4
<1>3. Len(ch) = Len(dh)
  <2>1. CASE Len(ch) = 0
    <3>1. first = 0
      BY <2>1 DEF IsChain
    <3> QED
      BY <2>1, <3>1 DEF IsChain
  <2>2. CASE Len(ch) # 0
    <3>1. Len(ch) \in 1..Len(ch) /\ Len(ch) > 0
      BY <1>1, <2>2
    <3>2. nodes[ch[Len(ch)]].next = 0 /\ ch[Len(ch)] = dh[Len(ch)] /\ Len(ch) <= Len(dh)
      BY <1>2, <3>1 DEF IsChain
    <3>3. more[dh[Len(ch)]].next = 0
      BY <1>1, <3>1, <3>2
    <3>4. ASSUME Len(ch) < Len(dh) PROVE FALSE
      <4>1. Len(ch) \in 1..(Len(dh) - 1) /\ Len(ch) + 1 \in 1..Len(dh)
        BY <1>1, <3>1, <3>4
      <4>2. dh[Len(ch) + 1] = more[dh[Len(ch)]].next
        BY <4>1 DEF IsChain
      <4> QED
        BY <1>1, <3>3, <4>1, <4>2
    <3>5. Len(ch) \in Nat /\ Len(dh) \in Nat /\ Len(ch) <= Len(dh)
      BY <1>1, <3>2
    <3>6. ~(Len(ch) < Len(dh))
      BY <3>4
    <3> QED
      BY <3>5, <3>6
  <2> QED
    BY <2>1, <2>2
<1> QED
  BY <1>1, <1>2, <1>3

LEMMA WrapIs ==
  /\ Word \in Nat /\ Word > 0
  /\ \A n \in Nat : Wrap(n + 1) \in Nat /\ Wrap(n - 1) \in Nat
  /\ \A n \in 0..(Word - 1) : Wrap(n) = n
<1>1. Word \in Nat /\ Word > 0
  BY PersistAssumption
<1>2. ASSUME NEW n \in Nat PROVE Wrap(n + 1) \in Nat /\ Wrap(n - 1) \in Nat
  <2>1. (n + 1) + Word \in Nat /\ (n - 1) + Word \in Nat
    BY <1>1
  <2> QED
    BY <1>1, <2>1, ModRange DEF Wrap
<1>3. ASSUME NEW n \in 0..(Word - 1) PROVE Wrap(n) = n
  <2>1. (Word * 1 + n) % Word = n
    BY <1>1, ModIs
  <2>2. Word * 1 + n = n + Word
    BY <1>1
  <2> QED
    BY <2>1, <2>2 DEF Wrap
<1> QED
  BY <1>1, <1>2, <1>3

WithEntry(c, x, o) == [c EXCEPT !.nodes[x].entry = o]

(* A node is given another entry of its key.                               *)
LEMMA UpdateIs ==
  ASSUME NEW c, IsCache(c), NEW x \in DOMAIN c.nodes, NEW o \in DOMAIN c.pool, c.pool[o].key = KeyAt(c, x)
  PROVE  LET d == WithEntry(c, x, o)
         IN  /\ IsCache(d) /\ SameButHash(c, d) /\ d.size = c.size /\ d.heads = c.heads
             /\ DOMAIN d.nodes = DOMAIN c.nodes /\ Len(d.nodes) = Len(c.nodes) /\ SameKeys(c, d)
             /\ \A n \in DOMAIN c.nodes : /\ d.nodes[n].next = c.nodes[n].next
                                          /\ d.nodes[n].entry = IF n = x THEN o ELSE c.nodes[n].entry
<1> DEFINE new == [c.nodes EXCEPT ![x].entry = o]
           d == WithEntry(c, x, o)
<1>1. c \in ACache /\ c.nodes \in Seq(ANode) /\ c.size \in Nat /\ c.heads \in HeadArrays
  BY DEF IsCache, ACache
<1>2. /\ DOMAIN c.nodes = 1..Len(c.nodes) /\ Len(c.nodes) \in Nat /\ o \in Nat
      /\ \A n \in DOMAIN c.nodes : c.nodes[n] \in ANode /\ c.nodes[n].entry \in DOMAIN c.pool
  BY CacheFields
<1>3. d = Rewired(c, new, c.heads, c.size)
  BY <1>1 DEF Rewired, ACache, WithEntry
<1> HIDE DEF d
<1>4. d.nodes = new /\ d.heads = c.heads /\ d.size = c.size /\ SameButHash(c, d)
  BY <1>1, <1>3, RewiredFields
<1>5. \A n \in DOMAIN c.nodes : /\ new[n] \in ANode /\ new[n].next = c.nodes[n].next
                                /\ new[n].entry = IF n = x THEN o ELSE c.nodes[n].entry
  <2> TAKE n \in DOMAIN c.nodes
  <2>1. c.nodes[n] \in ANode
    BY <1>2
  <2>2. CASE n = x
    <3>1. new[n] = [c.nodes[n] EXCEPT !.entry = o]
      BY <2>2
    <3> HIDE DEF new
    <3> QED
      BY <1>2, <2>1, <2>2, <3>1 DEF ANode
  <2>3. CASE n # x
    <3>1. new[n] = c.nodes[n]
      BY <2>3
    <3> HIDE DEF new
    <3> QED
      BY <2>1, <2>3, <3>1
  <2> QED
    BY <2>2, <2>3
<1>6. new \in Seq(ANode) /\ Len(new) = Len(c.nodes) /\ DOMAIN new = DOMAIN c.nodes
  <2>1. new \in [1..Len(c.nodes) -> ANode]
    BY <1>2, <1>5
  <2> HIDE DEF new
  <2> QED
    BY <1>2, <2>1, SeqDef, LenProperties
<1> HIDE DEF new
<1>7. d \in ACache
  BY <1>1, <1>3, <1>6, RewiredFields
<1>8. NodesUp(new)
  BY <1>5, <1>6 DEF IsCache, NodesUp
<1>9. \A n \in DOMAIN d.nodes : d.nodes[n].entry \in DOMAIN d.pool
  BY <1>2, <1>4, <1>5, <1>6 DEF SameButHash
<1>10. IsCache(d)
  <2>1. \A b \in DOMAIN d.heads : d.heads[b] \in 0..Len(d.nodes)
    BY <1>4, <1>6 DEF IsCache
  <2>2. d.sorted \subseteq DOMAIN d.pool /\ d.names \subseteq DOMAIN d.pool
    BY <1>4 DEF IsCache, SameButHash
  <2> QED
    BY <1>4, <1>7, <1>8, <1>9, <2>1, <2>2 DEF IsCache
<1>11. SameKeys(c, d)
  <2>1. ASSUME NEW n \in DOMAIN c.nodes PROVE KeyAt(d, n) = KeyAt(c, n)
    BY <1>4, <1>5 DEF KeyAt, SameButHash
  <2> QED
    BY <1>4, <1>6, <2>1 DEF SameKeys, HashAt
<1> QED
  BY <1>4, <1>5, <1>6, <1>10, <1>11 DEF d

WithNode(c, o, s) == [c EXCEPT !.nodes = Append(@, [entry |-> o, next |-> 0]), !.size = s]

(* A node is written, to which nothing leads yet.                          *)
LEMMA WithNodeIs ==
  ASSUME NEW c, IsCache(c), NEW o \in DOMAIN c.pool, NEW s \in Nat
  PROVE  LET a == WithNode(c, o, s)
         IN  /\ IsCache(a) /\ SameButHash(c, a) /\ a.size = s /\ a.heads = c.heads
             /\ Len(a.nodes) = NewNode(c) /\ DOMAIN a.nodes = DOMAIN c.nodes \union {NewNode(c)}
             /\ SameKeys(c, a)
             /\ \A n \in DOMAIN c.nodes : a.nodes[n] = c.nodes[n]
             /\ a.nodes[NewNode(c)].entry = o /\ a.nodes[NewNode(c)].next = 0
<1> DEFINE node == [entry |-> o, next |-> 0]
           new  == Append(c.nodes, node)
           a    == WithNode(c, o, s)
<1>1. c \in ACache /\ c.nodes \in Seq(ANode) /\ c.heads \in HeadArrays
  BY DEF IsCache, ACache
<1>2. /\ DOMAIN c.nodes = 1..Len(c.nodes) /\ Len(c.nodes) \in Nat /\ o \in Nat
      /\ \A n \in DOMAIN c.nodes : c.nodes[n].entry \in DOMAIN c.pool
  BY CacheFields
<1>3. a = Rewired(c, new, c.heads, s)
  BY <1>1 DEF Rewired, WithNode, ACache
<1>4. node \in ANode /\ node.entry = o /\ node.next = 0
  BY <1>2 DEF ANode
<1> HIDE DEF a, node
<1>5. /\ new \in Seq(ANode) /\ Len(new) = Len(c.nodes) + 1
      /\ \A n \in 1..Len(c.nodes) : new[n] = c.nodes[n]
      /\ new[Len(c.nodes) + 1] = node
  BY <1>1, <1>4, AppendProperties
<1> HIDE DEF new
<1>6. a.nodes = new /\ a.heads = c.heads /\ a.size = s /\ SameButHash(c, a) /\ a \in ACache
  BY <1>1, <1>3, <1>5, RewiredFields
<1>7. DOMAIN new = DOMAIN c.nodes \union {NewNode(c)} /\ Len(new) = NewNode(c)
  <2>1. DOMAIN new = 1..(Len(c.nodes) + 1)
    BY <1>5, LenProperties
  <2> QED
    BY <1>2, <1>5, <2>1 DEF NewNode
<1>8. NodesUp(new)
  <2>1. \A n \in DOMAIN new : new[n].next # 0 => new[n].next \in DOMAIN new /\ n < new[n].next
    BY <1>2, <1>4, <1>5, <1>7 DEF IsCache, NodesUp, NewNode
  <2> QED
    BY <1>5, <2>1 DEF NodesUp
<1>9. IsCache(a)
  <2>1. \A n \in DOMAIN a.nodes : a.nodes[n].entry \in DOMAIN a.pool
    BY <1>2, <1>4, <1>5, <1>6, <1>7 DEF SameButHash, NewNode
  <2>2. \A b \in DOMAIN a.heads : a.heads[b] \in 0..Len(a.nodes)
    BY <1>2, <1>6, <1>7 DEF IsCache, NewNode
  <2>3. a.sorted \subseteq DOMAIN a.pool /\ a.names \subseteq DOMAIN a.pool
    BY <1>6 DEF IsCache, SameButHash
  <2> QED
    BY <1>6, <1>8, <2>1, <2>2, <2>3 DEF IsCache
<1>10. SameKeys(c, a)
  <2>1. ASSUME NEW n \in DOMAIN c.nodes PROVE KeyAt(a, n) = KeyAt(c, n)
    BY <1>2, <1>5, <1>6 DEF KeyAt, SameButHash
  <2> QED
    BY <1>6, <1>7, <2>1 DEF SameKeys, HashAt
<1> QED
  BY <1>2, <1>4, <1>5, <1>6, <1>7, <1>9, <1>10 DEF a, NewNode

(* ... and is linked to the end of its chain.                              *)
LEMMA GrowIs ==
  ASSUME NEW c, IsCache(c), NEW S, Ordered(c, S), Buckets(c.heads) # 0, NEW k \in Keys,
         NEW o \in DOMAIN c.pool, c.pool[o].key = k, NEW s \in Nat
  PROVE  LET d == LinkAfter(WithNode(c, o, s), k, Len(ChainOf(c, k)), NewNode(c))
         IN  IsCache(d) /\ SameButHash(c, d) /\ d.size = s /\ Grown(c, d, S, k, o)
<1> DEFINE a  == WithNode(c, o, s)
           w  == NewNode(c)
           ch == ChainOf(c, k)
           i  == Len(ch)
           b  == BucketOf(k, c.heads)
           d  == LinkAfter(a, k, i, w)
<1>1. /\ IsCache(a) /\ SameButHash(c, a) /\ a.size = s /\ a.heads = c.heads
      /\ Len(a.nodes) = w /\ DOMAIN a.nodes = DOMAIN c.nodes \union {w}
      /\ SameKeys(c, a)
      /\ \A n \in DOMAIN c.nodes : a.nodes[n] = c.nodes[n]
      /\ a.nodes[w].entry = o /\ a.nodes[w].next = 0
  BY WithNodeIs
<1>2. /\ Len(c.nodes) \in Nat /\ DOMAIN c.nodes = 1..Len(c.nodes) /\ w = Len(c.nodes) + 1 /\ w \in Nat
      /\ c.heads \in HeadArrays /\ o \in DOMAIN c.pool
      /\ \A n \in DOMAIN c.nodes : c.nodes[n].entry \in DOMAIN c.pool
      /\ \A h \in DOMAIN c.heads : c.heads[h] \in 0..Len(c.nodes)
  BY CacheFields DEF NewNode
<1>3. /\ i \in Nat /\ DOMAIN ch = 1..i
      /\ b \in DOMAIN c.heads /\ IsChain(c.nodes, c.heads[b], ch)
      /\ \A j \in DOMAIN ch : ch[j] \in S /\ ch[j] \in DOMAIN c.nodes /\ HashAt(c, ch[j]) % Buckets(c.heads) = b
  BY KeyChain
<1>4. a \in ACache /\ a.nodes \in Seq(ANode) /\ NodesUp(a.nodes)
  BY <1>1 DEF IsCache, ACache
<1>5. a.pool = c.pool /\ a.sorted = c.sorted /\ a.names = c.names
  BY <1>1 DEF SameButHash
<1> HIDE DEF a, w, ch, b
<1>6. d.size = a.size /\ d \in [pool : {a.pool}, nodes : {d.nodes}, heads : {d.heads}, size : {a.size}, sorted : {a.sorted},
                              tree : {a.tree}, names : {a.names}, count : {a.count}, mem : {a.mem}]
  BY <1>4 DEF LinkAfter, ACache
<1>7. WithSize(d, s) = d
  BY <1>1, <1>6 DEF WithSize
<1>8. BucketOf(k, a.heads) = b
  BY <1>1 DEF b
<1>9. CASE i = 0
  <2> DEFINE h == c.heads
             g == WithHead(h, b, w)
  <2>0. d = LinkAfter(a, k, 0, w)
    BY <1>9
  <2> HIDE DEF d
  <2>1. WithSize(LinkAfter(a, k, 0, w), s) = Rewired(a, a.nodes, WithHead(a.heads, BucketOf(k, a.heads), w), s)
    BY <1>4, LinkHead
  <2>2. d = Rewired(a, a.nodes, g, s)
    BY <1>1, <1>7, <1>8, <2>0, <2>1
  <2> HIDE DEF g
  <2>3. d.nodes = a.nodes /\ d.heads = g /\ d.size = s /\ SameButHash(a, d)
    BY <1>4, <2>2, RewiredFields
  <2>4. /\ g \in HeadArrays /\ DOMAIN g = DOMAIN c.heads /\ Buckets(g) = Buckets(c.heads)
        /\ \A n \in DOMAIN c.heads : g[n] = IF n = b THEN w ELSE c.heads[n]
    <3>1. h \in HeadArrays /\ b \in DOMAIN h
      BY <1>2, <1>3
    <3> HIDE DEF h
    <3>2. /\ g \in HeadArrays /\ DOMAIN g = DOMAIN h /\ Buckets(g) = Buckets(h)
          /\ \A n \in DOMAIN h : g[n] = IF n = b THEN w ELSE h[n]
      BY <1>2, <3>1, WithHeadIs DEF g
    <3> QED
      BY <3>2 DEF h
  <2>5. d \in ACache
    BY <1>1, <1>4, <2>2, <2>4, RewiredFields
  <2>6. c.heads[b] = 0
    BY <1>3, <1>9 DEF IsChain
  <2>7. SameButHash(c, d)
    BY <1>1, <2>3 DEF SameButHash
  <2>8. IsCache(d)
    <3>1. \A n \in DOMAIN d.nodes : d.nodes[n].entry \in DOMAIN d.pool
      BY <1>1, <2>3 DEF IsCache, SameButHash
    <3>2. \A n \in DOMAIN d.heads : d.heads[n] \in 0..Len(d.nodes)
      BY <1>1, <1>2, <2>3, <2>4
    <3>3. d.sorted \subseteq DOMAIN d.pool /\ d.names \subseteq DOMAIN d.pool
      BY <2>7 DEF IsCache, SameButHash
    <3>4. NodesUp(d.nodes)
      BY <1>4, <2>3
    <3> QED
      BY <2>5, <3>1, <3>2, <3>3, <3>4 DEF IsCache
  <2>9. Grown(c, d, S, k, o)
    <3>1. /\ d.nodes \in Seq(ANode) /\ Len(d.nodes) = w
          /\ d.nodes[w].entry = o /\ d.nodes[w].next = 0
          /\ \A n \in DOMAIN c.nodes : d.nodes[n].entry = c.nodes[n].entry /\ d.nodes[n].next = c.nodes[n].next
      BY <1>1, <1>4, <2>3
    <3>2. /\ d.heads \in HeadArrays /\ DOMAIN d.heads = DOMAIN c.heads /\ Buckets(d.heads) = Buckets(c.heads)
          /\ \A n \in DOMAIN c.heads : d.heads[n] = IF n = b THEN w ELSE c.heads[n]
      BY <2>3, <2>4
    <3> QED
      BY <1>3, <2>6, <3>1, <3>2 DEF Grown, b, w
  <2> QED
    BY <2>3, <2>7, <2>8, <2>9 DEF d, a, w, ch
<1>10. CASE i # 0
  <2> DEFINE q   == ch[i]
             old == a.nodes
             new == WithNext(old, q, w)
  <2>1. ChainOf(a, k) = ch
    <3>1. Ordered(a, S)
      BY <1>1, SameLinksOrdered
    <3>2. IsChain(a.nodes, c.heads[b], ChainOf(a, k))
      BY <1>1, <1>8, <3>1, KeyChain
    <3>3. 0 \notin DOMAIN c.nodes /\ 0 \notin DOMAIN a.nodes
      BY <1>1, <1>2
    <3>4. \A n \in DOMAIN c.nodes : a.nodes[n].next = c.nodes[n].next
      BY <1>1
    <3> QED
      BY <1>3, <3>2, <3>3, <3>4, ChainUnique
  <2>2. i \in DOMAIN ch /\ i > 0
    BY <1>3, <1>10
  <2>3. /\ q \in S /\ q \in DOMAIN c.nodes /\ HashAt(c, q) % Buckets(c.heads) = b
        /\ c.nodes[q].next = 0
    BY <1>3, <2>2 DEF IsChain
  <2>4. d = Rewired(a, new, a.heads, s)
    <3>1. WithSize(LinkAfter(a, k, i, w), s) = Rewired(a, WithNext(a.nodes, ChainOf(a, k)[i], w), a.heads, s)
      BY <1>4, <1>10, LinkLater
    <3> QED
      BY <1>7, <2>1, <3>1
  <2> HIDE DEF d, q
  <2>5. /\ new \in Seq(ANode) /\ Len(new) = Len(a.nodes) /\ DOMAIN new = DOMAIN a.nodes
        /\ \A m \in DOMAIN a.nodes : new[m].entry = a.nodes[m].entry
        /\ \A m \in DOMAIN a.nodes : new[m].next = IF m = q THEN w ELSE a.nodes[m].next
    <3>1. old \in Seq(ANode) /\ q \in DOMAIN old
      BY <1>1, <1>4, <2>3
    <3> HIDE DEF old
    <3>2. /\ new \in Seq(ANode) /\ Len(new) = Len(old) /\ DOMAIN new = DOMAIN old
          /\ \A m \in DOMAIN old : new[m].entry = old[m].entry
          /\ \A m \in DOMAIN old : new[m].next = IF m = q THEN w ELSE old[m].next
      BY <1>2, <3>1, WithNextIs
    <3> QED
      BY <3>2 DEF old
  <2> HIDE DEF new
  <2>6. d.nodes = new /\ d.heads = c.heads /\ d.size = s /\ SameButHash(a, d) /\ d \in ACache
    BY <1>1, <1>2, <1>4, <2>4, <2>5, RewiredFields
  <2>7. SameButHash(c, d)
    BY <1>1, <2>6 DEF SameButHash
  <2>8. NodesUp(new)
    <3>1. ASSUME NEW n \in DOMAIN new, new[n].next # 0 PROVE new[n].next \in DOMAIN new /\ n < new[n].next
      <4>1. CASE n = q
        BY <1>1, <1>2, <2>3, <2>5, <4>1
      <4>2. CASE n # q
        BY <1>4, <2>5, <3>1, <4>2 DEF NodesUp
      <4> QED
        BY <4>1, <4>2
    <3> QED
      BY <2>5, <3>1 DEF NodesUp
  <2>9. IsCache(d)
    <3>1. \A n \in DOMAIN d.nodes : d.nodes[n].entry \in DOMAIN d.pool
      BY <1>1, <2>5, <2>6 DEF IsCache, SameButHash
    <3>2. \A n \in DOMAIN d.heads : d.heads[n] \in 0..Len(d.nodes)
      <4>1. Len(d.nodes) = w /\ d.heads = c.heads
        BY <1>1, <2>5, <2>6
      <4> QED
        BY <1>2, <4>1
    <3>3. d.sorted \subseteq DOMAIN d.pool /\ d.names \subseteq DOMAIN d.pool
      BY <2>7 DEF IsCache, SameButHash
    <3> QED
      BY <2>6, <2>8, <3>1, <3>2, <3>3 DEF IsCache
  <2>10. Grown(c, d, S, k, o)
    <3>1. w # q /\ w \in DOMAIN a.nodes
      BY <1>1, <1>2, <2>3
    <3>2. /\ d.nodes \in Seq(ANode) /\ Len(d.nodes) = w
          /\ d.nodes[w].entry = o /\ d.nodes[w].next = 0
          /\ \A n \in DOMAIN c.nodes : d.nodes[n].entry = c.nodes[n].entry
          /\ \A n \in DOMAIN c.nodes : d.nodes[n].next = IF n = q THEN w ELSE c.nodes[n].next
      BY <1>1, <2>5, <2>6, <3>1
    <3>3. \E p \in S : /\ HashAt(c, p) % Buckets(c.heads) = b
                       /\ c.nodes[p].next = 0
                       /\ \A n \in DOMAIN c.nodes : d.nodes[n].next = IF n = p THEN w ELSE c.nodes[n].next
      BY <2>3, <3>2
    <3> QED
      BY <1>2, <1>3, <2>6, <3>2, <3>3 DEF Grown, b, w
  <2> QED
    BY <2>6, <2>7, <2>9, <2>10 DEF d, a, w, ch
<1> QED
  BY <1>9, <1>10

(* `heads` is an array from before: either its buckets are split into the  *)
(* present ones, or it has one bucket only, as when there is no array yet. *)
Older(heads, present) == IF Buckets(present) = 0 THEN Buckets(heads) = 1 ELSE Splits(heads, present)

(* What a step does to the walks of older arrays: no chain is damaged, and *)
(* as long as the present array keeps its size nothing is lost from them.  *)
OthersKept(c, d, new) ==
  \A heads, T : Closed(c, heads, T) /\ Older(heads, c.heads) =>
     \E U : /\ Closed(d, heads, U) /\ Older(heads, d.heads)
            /\ Buckets(d.heads) = Buckets(c.heads) =>
                 /\ T \subseteq U /\ U \subseteq T \union new
                 /\ \A m \in T : Unjumped(c, heads, T, m) => Unjumped(d, heads, U, m)

WithArray(c) == IF Buckets(c.heads) = 0 THEN [c EXCEPT !.heads = HashInit] ELSE c

Prepared(c) ==
  IF IsLoaded(WithArray(c)) /\ 2 * Buckets(WithArray(c).heads) <= MaxBuckets
  THEN Resized(WithArray(c)) ELSE WithArray(c)

(* The same nodes, of the same entries, in a sound array.                  *)
Rearranged(c, d, S) ==
  /\ IsCache(d) /\ SameButHash(c, d) /\ d.size = c.size
  /\ Len(d.nodes) = Len(c.nodes) /\ DOMAIN d.nodes = DOMAIN c.nodes /\ SameKeys(c, d)
  /\ \A n \in DOMAIN c.nodes : d.nodes[n].entry = c.nodes[n].entry
  /\ Ordered(d, S)
  /\ Buckets(d.heads) # 0 /\ Buckets(c.heads) <= Buckets(d.heads)
  /\ OthersKept(c, d, {})

LEMMA OneBucket ==
  ASSUME NEW heads, Buckets(heads) = 1, NEW present
  PROVE  Splits(heads, present)
<1>1. \A x \in Nat : x % 1 = 0
  OBVIOUS
<1> QED
  BY <1>1 DEF Splits

LEMMA WithArrayIs ==
  ASSUME NEW c, IsCache(c), NEW S, Ordered(c, S)
  PROVE  Rearranged(c, WithArray(c), S)
<1> DEFINE d == WithArray(c)
<1>1. \A heads, T : Closed(c, heads, T) => T \subseteq DOMAIN c.nodes
  BY DEF Closed
<1>2. CASE Buckets(c.heads) # 0
  <2>1. d = c
    BY <1>2 DEF WithArray
  <2>2. SameButHash(c, c) /\ SameKeys(c, c) /\ OthersKept(c, c, {}) /\ Buckets(c.heads) <= Buckets(c.heads)
    BY CacheFields DEF SameButHash, SameKeys, OthersKept
  <2> QED
    BY <1>2, <2>1, <2>2 DEF Rearranged
<1>3. CASE Buckets(c.heads) = 0
  <2> DEFINE h == HashInit
  <2>1. c \in ACache /\ c.nodes \in Seq(ANode) /\ c.size \in Nat
    BY DEF IsCache, ACache
  <2>2. d = Rewired(c, c.nodes, h, c.size)
    BY <1>3, <2>1 DEF WithArray, Rewired, ACache
  <2>3. InitialBuckets \in Nat /\ InitialBuckets > 0
    BY PersistAssumption
  <2>4. h \in [0..(InitialBuckets - 1) -> Nat] /\ \A b \in DOMAIN h : h[b] = 0
    BY <2>3 DEF HashInit, NoHeads
  <2> HIDE DEF h, d
  <2>5. h \in HeadArrays
    BY <2>3, <2>4 DEF HeadArrays
  <2>6. Buckets(h) # 0 /\ Buckets(h) \in Nat
    <3>1. Buckets(h) \in Nat /\ DOMAIN h = 0..(Buckets(h) - 1) /\ DOMAIN h = 0..(InitialBuckets - 1)
      BY <2>4, <2>5, BucketsIs
    <3>2. 0 \in 0..(InitialBuckets - 1)
      BY <2>3
    <3>3. 0 \in 0..(Buckets(h) - 1)
      BY <3>1, <3>2
    <3> QED
      BY <3>1, <3>3
  <2>7. d.nodes = c.nodes /\ d.heads = h /\ d.size = c.size /\ SameButHash(c, d) /\ d \in ACache
    BY <2>1, <2>2, <2>5, RewiredFields
  <2>8. SameKeys(c, d)
    BY <2>7 DEF SameKeys, KeyAt, HashAt, SameButHash
  <2>9. IsCache(d)
    BY <2>4, <2>7, CacheFields DEF IsCache, SameButHash
  <2>10. S = {}
    BY <1>3 DEF Ordered
  <2>11. Ordered(d, S)
    BY <2>4, <2>6, <2>7, <2>10 DEF Ordered, Closed
  <2>12. OthersKept(c, d, {})
    <3> SUFFICES ASSUME NEW heads, NEW T, Closed(c, heads, T), Older(heads, c.heads)
                 PROVE  Closed(d, heads, T) /\ Older(heads, d.heads)
      BY <1>3, <2>6, <2>7 DEF OthersKept
    <3>1. Closed(d, heads, T)
      BY <1>1, <2>7, <2>8, SameLinks
    <3>2. Buckets(heads) = 1
      BY <1>3 DEF Older
    <3> QED
      BY <3>1, <3>2, <2>6, <2>7, OneBucket DEF Older
  <2>13. Buckets(c.heads) <= Buckets(d.heads)
    BY <1>3, <2>6, <2>7
  <2> QED
    BY <2>6, <2>7, <2>8, <2>9, <2>11, <2>12, <2>13 DEF Rearranged, d
<1> QED
  BY <1>2, <1>3

LEMMA PreparedIs ==
  ASSUME NEW c, IsCache(c), NEW S, Ordered(c, S)
  PROVE  Rearranged(c, Prepared(c), S)
<1> DEFINE h == WithArray(c)
           r == Resized(h)
<1>1. /\ IsCache(h) /\ SameButHash(c, h) /\ h.size = c.size
      /\ Len(h.nodes) = Len(c.nodes) /\ DOMAIN h.nodes = DOMAIN c.nodes /\ SameKeys(c, h)
      /\ \A n \in DOMAIN c.nodes : h.nodes[n].entry = c.nodes[n].entry
      /\ Ordered(h, S)
      /\ Buckets(h.heads) # 0 /\ Buckets(c.heads) <= Buckets(h.heads)
      /\ OthersKept(c, h, {})
  BY WithArrayIs DEF Rearranged
<1>2. CASE Prepared(c) = h
  BY <1>2, WithArrayIs
<1>3. CASE Prepared(c) = r
  <2> HIDE DEF h
  <2>1. /\ IsCache(r) /\ SameButHash(h, r) /\ r.size = h.size /\ Len(r.nodes) = Len(h.nodes)
        /\ DOMAIN r.nodes = DOMAIN h.nodes /\ SameKeys(h, r)
        /\ Buckets(r.heads) = 2 * Buckets(h.heads)
        /\ \A n \in DOMAIN h.nodes : r.nodes[n].entry = h.nodes[n].entry
    BY <1>1, ResizedIs
  <2>2. Ordered(r, S)
    BY <1>1, ResizedOrdered
  <2>3. Buckets(h.heads) \in Nat /\ Buckets(r.heads) # 0 /\ Buckets(r.heads) # Buckets(h.heads) /\ Buckets(r.heads) > Buckets(h.heads)
    BY <1>1, <2>1, CacheFields
  <2>4. SameButHash(c, r) /\ SameKeys(c, r)
    BY <1>1, <2>1 DEF SameButHash, SameKeys
  <2>5. Buckets(r.heads) # Buckets(c.heads)
    <3>1. CASE Buckets(c.heads) = 0
      BY <2>3, <3>1
    <3>2. CASE Buckets(c.heads) # 0
      BY <2>3, <3>2 DEF h, WithArray
    <3> QED
      BY <3>1, <3>2
  <2>6. OthersKept(c, r, {})
    <3> SUFFICES ASSUME NEW heads, NEW T, Closed(c, heads, T), Older(heads, c.heads)
                 PROVE  \E U : Closed(r, heads, U) /\ Older(heads, r.heads)
      BY <2>5 DEF OthersKept
    <3>1. PICK V : Closed(h, heads, V) /\ Older(heads, h.heads)
      BY <1>1 DEF OthersKept
    <3>2. Splits(heads, h.heads)
      BY <1>1, <3>1 DEF Older
    <3>3. Closed(r, heads, V \union S) /\ Splits(heads, r.heads)
      BY <1>1, <3>1, <3>2, ResizedOther
    <3> QED
      BY <2>3, <3>3 DEF Older
  <2> HIDE DEF r
  <2>7. Buckets(c.heads) <= Buckets(r.heads)
    BY <1>1, <2>1, <2>3, CacheFields
  <2>8. Rearranged(c, r, S)
    BY <1>1, <2>1, <2>2, <2>3, <2>4, <2>6, <2>7 DEF Rearranged
  <2> QED
    BY <1>3, <2>8
<1>4. Prepared(c) = h \/ Prepared(c) = r
  BY DEF Prepared
<1> QED
  BY <1>2, <1>3, <1>4

(* What cache_hash_insert leaves behind.                                   *)
Inserted(c, d, S, k, o) ==
  /\ IsCache(d) /\ SameButHash(c, d) /\ SameKeys(c, d)
  /\ Buckets(d.heads) # 0 /\ Buckets(c.heads) <= Buckets(d.heads)
  /\ OthersKept(c, d, {NewNode(c)})
  /\ \/ \E x \in KeyNodes(c, S, k) :
          /\ DOMAIN d.nodes = DOMAIN c.nodes
          /\ Ordered(d, S) /\ d.size = c.size
          /\ \A n \in DOMAIN c.nodes : d.nodes[n].entry = IF n = x THEN o ELSE c.nodes[n].entry
     \/ /\ KeyNodes(c, S, k) = {}
        /\ DOMAIN d.nodes = DOMAIN c.nodes \union {NewNode(c)}
        /\ Ordered(d, S \union {NewNode(c)}) /\ d.size = Wrap(c.size + 1)
        /\ \A n \in DOMAIN c.nodes : d.nodes[n].entry = c.nodes[n].entry
        /\ d.nodes[NewNode(c)].entry = o /\ KeyAt(d, NewNode(c)) = k

LEMMA InsertIs ==
  ASSUME NEW c, IsCache(c), NEW S, Ordered(c, S), NEW k \in Keys,
         NEW o \in DOMAIN c.pool, c.pool[o].key = k
  PROVE  Inserted(c, HashInsert(c, k, o), S, k, o)
<1> DEFINE r == Prepared(c)
           i == PlaceOf(r, k)
           d == HashInsert(c, k, o)
<1>1. /\ IsCache(r) /\ SameButHash(c, r) /\ r.size = c.size
      /\ Len(r.nodes) = Len(c.nodes) /\ DOMAIN r.nodes = DOMAIN c.nodes /\ SameKeys(c, r)
      /\ \A n \in DOMAIN c.nodes : r.nodes[n].entry = c.nodes[n].entry
      /\ Ordered(r, S)
      /\ Buckets(r.heads) # 0 /\ Buckets(c.heads) <= Buckets(r.heads)
      /\ OthersKept(c, r, {})
  BY PreparedIs DEF Rearranged
<1>2. S \subseteq DOMAIN c.nodes
  BY DEF Ordered, Closed
<1>3. KeyNodes(r, S, k) = KeyNodes(c, S, k) /\ r.pool = c.pool /\ NewNode(r) = NewNode(c)
  BY <1>1, <1>2 DEF KeyNodes, SameKeys, SameButHash, NewNode
<1>4. d = IF i # 0 THEN [r EXCEPT !.nodes[ChainOf(r, k)[i]].entry = o]
          ELSE LinkAfter([r EXCEPT !.nodes = Append(@, [entry |-> o, next |-> 0]), !.size = Wrap(@ + 1)], k,
                         Len(ChainOf(r, k)),
                         Len([r EXCEPT !.nodes = Append(@, [entry |-> o, next |-> 0]), !.size = Wrap(@ + 1)].nodes))
  BY DEF HashInsert, Prepared, WithArray, Resizes
<1>5. r \in ACache /\ r.size \in Nat
  BY <1>1 DEF IsCache, ACache
<1> HIDE DEF r, d
<1>6. CASE i # 0
  <2> DEFINE x == ChainOf(r, k)[i]
  <2>1. x \in KeyNodes(r, S, k)
    BY <1>1, <1>6, PlaceIs
  <2>2. x \in S /\ KeyAt(r, x) = k /\ x \in DOMAIN r.nodes
    BY <1>1, <1>2, <2>1 DEF KeyNodes
  <2>3. d = WithEntry(r, x, o)
    BY <1>4, <1>6 DEF WithEntry
  <2> HIDE DEF x, i
  <2>4. /\ IsCache(d) /\ SameButHash(r, d) /\ d.size = r.size /\ d.heads = r.heads
        /\ DOMAIN d.nodes = DOMAIN r.nodes /\ SameKeys(r, d)
        /\ \A n \in DOMAIN r.nodes : /\ d.nodes[n].next = r.nodes[n].next
                                     /\ d.nodes[n].entry = IF n = x THEN o ELSE r.nodes[n].entry
    BY <1>1, <1>3, <2>2, <2>3, UpdateIs
  <2>5. Ordered(d, S)
    BY <1>1, <2>4, SameLinksOrdered
  <2>6. OthersKept(c, d, {NewNode(c)})
    <3> SUFFICES ASSUME NEW heads, NEW T, Closed(c, heads, T), Older(heads, c.heads)
                 PROVE  \E U : /\ Closed(d, heads, U) /\ Older(heads, d.heads)
                               /\ Buckets(d.heads) = Buckets(c.heads) =>
                                    /\ T \subseteq U /\ U \subseteq T \union {NewNode(c)}
                                    /\ \A m \in T : Unjumped(c, heads, T, m) => Unjumped(d, heads, U, m)
      BY DEF OthersKept
    <3>1. PICK U : /\ Closed(r, heads, U) /\ Older(heads, r.heads)
                   /\ Buckets(r.heads) = Buckets(c.heads) =>
                        /\ T \subseteq U /\ U \subseteq T \union {}
                        /\ \A m \in T : Unjumped(c, heads, T, m) => Unjumped(r, heads, U, m)
      BY <1>1 DEF OthersKept
    <3>2. U \subseteq DOMAIN r.nodes
      BY <3>1 DEF Closed
    <3>3. Closed(d, heads, U) /\ \A m \in U : Unjumped(r, heads, U, m) => Unjumped(d, heads, U, m)
      BY <2>4, <3>1, <3>2, SameLinks
    <3>4. Older(heads, d.heads)
      BY <2>4, <3>1
    <3> QED
      BY <2>4, <3>1, <3>3, <3>4
  <2>7. SameButHash(c, d) /\ SameKeys(c, d)
    BY <1>1, <2>4 DEF SameButHash, SameKeys
  <2>8. \A n \in DOMAIN c.nodes : d.nodes[n].entry = IF n = x THEN o ELSE c.nodes[n].entry
    BY <1>1, <2>4
  <2>9. Inserted(c, d, S, k, o)
    BY <1>1, <1>3, <2>1, <2>4, <2>5, <2>6, <2>7, <2>8 DEF Inserted
  <2> QED
    BY <2>9 DEF d
<1>7. CASE i = 0
  <2> DEFINE s == Wrap(r.size + 1)
             a == WithNode(r, o, s)
             w == NewNode(r)
  <2>1. KeyNodes(r, S, k) = {}
    BY <1>1, <1>7, PlaceIs
  <2>2. s \in Nat
    BY <1>5, WrapIs
  <2>3. [r EXCEPT !.nodes = Append(@, [entry |-> o, next |-> 0]), !.size = Wrap(@ + 1)] = a
    BY <1>5 DEF WithNode
  <2> HIDE DEF s
  <2>4. Len(a.nodes) = w
    BY <1>1, <1>3, <2>2, WithNodeIs
  <2>5. d = LinkAfter(a, k, Len(ChainOf(r, k)), w)
    BY <1>4, <1>7, <2>3, <2>4
  <2>6. IsCache(d) /\ SameButHash(r, d) /\ d.size = s /\ Grown(r, d, S, k, o)
    BY <1>1, <1>3, <2>2, <2>5, GrowIs
  <2> HIDE DEF i, a, w
  <2>7. d.pool = r.pool
    BY <2>6 DEF SameButHash
  <2>8. /\ DOMAIN d.nodes = DOMAIN r.nodes \union {NewNode(r)}
        /\ SameKeys(r, d)
        /\ KeyAt(d, NewNode(r)) = k
    BY <1>1, <2>6, <2>7, GrownNodes
  <2>9. Ordered(d, S \union {NewNode(r)})
    BY <1>1, <2>6, <2>7, GrownOrdered
  <2>10. Buckets(d.heads) = Buckets(r.heads) /\ d.nodes[NewNode(r)].entry = o
         /\ \A n \in DOMAIN r.nodes : d.nodes[n].entry = r.nodes[n].entry
    BY <2>6 DEF Grown
  <2>11. OthersKept(c, d, {NewNode(c)})
    <3> SUFFICES ASSUME NEW heads, NEW T, Closed(c, heads, T), Older(heads, c.heads)
                 PROVE  \E U : /\ Closed(d, heads, U) /\ Older(heads, d.heads)
                               /\ Buckets(d.heads) = Buckets(c.heads) =>
                                    /\ T \subseteq U /\ U \subseteq T \union {NewNode(c)}
                                    /\ \A m \in T : Unjumped(c, heads, T, m) => Unjumped(d, heads, U, m)
      BY DEF OthersKept
    <3>1. PICK U : /\ Closed(r, heads, U) /\ Older(heads, r.heads)
                   /\ Buckets(r.heads) = Buckets(c.heads) =>
                        /\ T \subseteq U /\ U \subseteq T \union {}
                        /\ \A m \in T : Unjumped(c, heads, T, m) => Unjumped(r, heads, U, m)
      BY <1>1 DEF OthersKept
    <3>2. Splits(heads, r.heads)
      BY <1>1, <3>1 DEF Older
    <3>3. /\ Closed(d, heads, U \union {NewNode(r)})
          /\ \A m \in U : Unjumped(r, heads, U, m) => Unjumped(d, heads, U \union {NewNode(r)}, m)
      BY <1>1, <2>6, <2>7, <3>1, <3>2, GrownOther
    <3>4. Older(heads, d.heads)
      BY <1>1, <2>10, <3>2 DEF Older, Splits
    <3>5. Buckets(d.heads) = Buckets(c.heads) =>
             /\ T \subseteq U \union {NewNode(r)} /\ U \union {NewNode(r)} \subseteq T \union {NewNode(c)}
             /\ \A m \in T : Unjumped(c, heads, T, m) => Unjumped(d, heads, U \union {NewNode(r)}, m)
      BY <1>3, <2>10, <3>1, <3>3
    <3> QED
      BY <3>3, <3>4, <3>5
  <2>12. SameButHash(c, d) /\ SameKeys(c, d)
    BY <1>1, <2>6, <2>8 DEF SameButHash, SameKeys
  <2>13. d.size = Wrap(c.size + 1)
    BY <1>1, <2>6 DEF s
  <2>14. \A n \in DOMAIN c.nodes : d.nodes[n].entry = c.nodes[n].entry
    BY <1>1, <2>10
  <2>15. Inserted(c, d, S, k, o)
    BY <1>1, <1>3, <2>1, <2>6, <2>8, <2>9, <2>10, <2>11, <2>12, <2>13, <2>14 DEF Inserted
  <2> QED
    BY <2>15 DEF d
<1> QED
  BY <1>6, <1>7

-----------------------------------------------------------------------------
(* From one cache to another.                                              *)

EntriesOf(c, k) == {o \in Undeleted(c) : c.pool[o].key = k}

OffsetsOf(c, list, k) == {o \in list : c.pool[o].key = k}

(* The walks of older arrays: none is damaged, and as long as the present  *)
(* array keeps its size those to keys outside K lead where they led.       *)
WalksKept(c, d, K) ==
  \A heads, T : Closed(c, heads, T) /\ Older(heads, c.heads) =>
    \E U : /\ Closed(d, heads, U) /\ Older(heads, d.heads)
           /\ Buckets(d.heads) = Buckets(c.heads) =>
                \A k \in Keys \ K :
                  /\ KeyNodes(d, U, k) = KeyNodes(c, T, k)
                  /\ \A m \in KeyNodes(c, T, k) : Unjumped(c, heads, T, m) => Unjumped(d, heads, U, m)

KeptFor(c, d, k) ==
  /\ EntriesOf(d, k) = EntriesOf(c, k)
  /\ KeyNodes(d, Linked(d), k) = KeyNodes(c, Linked(c), k)
  /\ \A n \in DOMAIN c.nodes : KeyAt(c, n) = k => d.nodes[n].entry = c.nodes[n].entry
  /\ OffsetsOf(d, d.names, k) = OffsetsOf(c, c.names, k)
  /\ OffsetsOf(c, c.sorted, k) = EntriesOf(c, k) => OffsetsOf(d, d.sorted, k) = EntriesOf(d, k)

(* A step within a call that is about the keys of K only.                  *)
Moves(c, d, K) ==
  /\ IsCache(d) /\ Ordered(d, Linked(d)) /\ d.tree = c.tree
  /\ DOMAIN c.pool \subseteq DOMAIN d.pool
  /\ \A o \in DOMAIN c.pool : d.pool[o].key = c.pool[o].key
  /\ SameKeys(c, d)
  /\ Buckets(c.heads) <= Buckets(d.heads)
  /\ WalksKept(c, d, K)
  /\ \A k \in Keys \ K : KeptFor(c, d, k)

LEMMA MovesThen ==
  ASSUME NEW c, NEW d, NEW e, NEW K, NEW L, IsCache(c), Moves(c, d, K), Moves(d, e, L)
  PROVE  Moves(c, e, K \union L)
<1>1. Buckets(c.heads) \in Nat /\ Buckets(d.heads) \in Nat /\ Buckets(e.heads) \in Nat
  BY CacheFields DEF Moves
<1>2. SameKeys(c, e)
  BY DEF Moves, SameKeys
<1>3. Buckets(c.heads) <= Buckets(d.heads) /\ Buckets(d.heads) <= Buckets(e.heads)
  BY DEF Moves
<1>4. Buckets(c.heads) <= Buckets(e.heads)
  BY <1>1, <1>3
<1>5. WalksKept(c, e, K \union L)
  <2> SUFFICES ASSUME NEW heads, NEW T, Closed(c, heads, T), Older(heads, c.heads)
               PROVE  \E U : /\ Closed(e, heads, U) /\ Older(heads, e.heads)
                             /\ Buckets(e.heads) = Buckets(c.heads) =>
                                  \A k \in Keys \ (K \union L) :
                                    /\ KeyNodes(e, U, k) = KeyNodes(c, T, k)
                                    /\ \A m \in KeyNodes(c, T, k) : Unjumped(c, heads, T, m) => Unjumped(e, heads, U, m)
    BY DEF WalksKept
  <2>1. PICK V : /\ Closed(d, heads, V) /\ Older(heads, d.heads)
                 /\ Buckets(d.heads) = Buckets(c.heads) =>
                      \A k \in Keys \ K :
                        /\ KeyNodes(d, V, k) = KeyNodes(c, T, k)
                        /\ \A m \in KeyNodes(c, T, k) : Unjumped(c, heads, T, m) => Unjumped(d, heads, V, m)
    BY DEF Moves, WalksKept
  <2>2. PICK U : /\ Closed(e, heads, U) /\ Older(heads, e.heads)
                 /\ Buckets(e.heads) = Buckets(d.heads) =>
                      \A k \in Keys \ L :
                        /\ KeyNodes(e, U, k) = KeyNodes(d, V, k)
                        /\ \A m \in KeyNodes(d, V, k) : Unjumped(d, heads, V, m) => Unjumped(e, heads, U, m)
    BY <2>1 DEF Moves, WalksKept
  <2>3. ASSUME Buckets(e.heads) = Buckets(c.heads), NEW k \in Keys \ (K \union L)
        PROVE  /\ KeyNodes(e, U, k) = KeyNodes(c, T, k)
               /\ \A m \in KeyNodes(c, T, k) : Unjumped(c, heads, T, m) => Unjumped(e, heads, U, m)
    <3>1. Buckets(d.heads) = Buckets(c.heads) /\ Buckets(e.heads) = Buckets(d.heads)
      BY <1>1, <1>3, <2>3
    <3>2. k \in Keys \ K /\ k \in Keys \ L
      BY <2>3
    <3> QED
      BY <2>1, <2>2, <3>1, <3>2
  <2> QED
    BY <2>2, <2>3
<1>6. ASSUME NEW k \in Keys \ (K \union L) PROVE KeptFor(c, e, k)
  <2>1. KeptFor(c, d, k) /\ KeptFor(d, e, k)
    BY <1>6 DEF Moves
  <2>2. \A n \in DOMAIN c.nodes : KeyAt(c, n) = k => e.nodes[n].entry = c.nodes[n].entry
    <3> TAKE n \in DOMAIN c.nodes
    <3>1. n \in DOMAIN d.nodes /\ KeyAt(d, n) = KeyAt(c, n)
      BY DEF Moves, SameKeys
    <3> QED
      BY <2>1, <3>1 DEF KeptFor
  <2> QED
    BY <2>1, <2>2 DEF KeptFor
<1>7. /\ IsCache(e) /\ Ordered(e, Linked(e)) /\ e.tree = c.tree
      /\ DOMAIN c.pool \subseteq DOMAIN e.pool
      /\ \A o \in DOMAIN c.pool : e.pool[o].key = c.pool[o].key
  BY DEF Moves
<1> QED
  BY <1>2, <1>4, <1>5, <1>6, <1>7 DEF Moves

LEMMA MovesMore ==
  ASSUME NEW c, NEW d, NEW K, NEW L, K \subseteq L, Moves(c, d, K)
  PROVE  Moves(c, d, L)
<1>1. Keys \ L \subseteq Keys \ K
  OBVIOUS
<1>2. WalksKept(c, d, L)
  <2> SUFFICES ASSUME NEW heads, NEW T, Closed(c, heads, T), Older(heads, c.heads)
               PROVE  \E U : /\ Closed(d, heads, U) /\ Older(heads, d.heads)
                             /\ Buckets(d.heads) = Buckets(c.heads) =>
                                  \A k \in Keys \ L :
                                    /\ KeyNodes(d, U, k) = KeyNodes(c, T, k)
                                    /\ \A m \in KeyNodes(c, T, k) : Unjumped(c, heads, T, m) => Unjumped(d, heads, U, m)
    BY DEF WalksKept
  <2>1. PICK U : /\ Closed(d, heads, U) /\ Older(heads, d.heads)
                 /\ Buckets(d.heads) = Buckets(c.heads) =>
                      \A k \in Keys \ K :
                        /\ KeyNodes(d, U, k) = KeyNodes(c, T, k)
                        /\ \A m \in KeyNodes(c, T, k) : Unjumped(c, heads, T, m) => Unjumped(d, heads, U, m)
    BY DEF Moves, WalksKept
  <2> QED
    BY <1>1, <2>1
<1> QED
  BY <1>1, <1>2 DEF Moves

(* A step of the hash index for the key k.                                 *)
LEMMA MovesByHash ==
  ASSUME NEW c, IsCache(c), NEW d, IsCache(d), Ordered(d, Linked(d)), SameButHash(c, d), SameKeys(c, d),
         Buckets(c.heads) <= Buckets(d.heads), NEW k \in Keys, WalksKept(c, d, {k}),
         \A j \in Keys \ {k} : KeyNodes(d, Linked(d), j) = KeyNodes(c, Linked(c), j),
         \A n \in DOMAIN c.nodes : KeyAt(c, n) # k => d.nodes[n].entry = c.nodes[n].entry
  PROVE  Moves(c, d, {k})
<1>1. d.pool = c.pool /\ d.names = c.names /\ d.sorted = c.sorted /\ d.tree = c.tree
  BY DEF SameButHash
<1>2. ASSUME NEW j \in Keys \ {k} PROVE KeptFor(c, d, j)
  <2>1. EntriesOf(d, j) = EntriesOf(c, j)
    BY <1>1 DEF EntriesOf, Undeleted
  <2>2. OffsetsOf(d, d.names, j) = OffsetsOf(c, c.names, j) /\ OffsetsOf(d, d.sorted, j) = OffsetsOf(c, c.sorted, j)
    BY <1>1 DEF OffsetsOf
  <2> QED
    BY <1>2, <2>1, <2>2 DEF KeptFor
<1> QED
  BY <1>1, <1>2 DEF Moves

(* A step beside the hash index.                                           *)
SameHash(c, d) == d.nodes = c.nodes /\ d.heads = c.heads /\ d.size = c.size /\ d.tree = c.tree

LEMMA MovesBeside ==
  ASSUME NEW c, IsCache(c), Ordered(c, Linked(c)), NEW d, IsCache(d), SameHash(c, d), NEW K,
         DOMAIN c.pool \subseteq DOMAIN d.pool,
         \A o \in DOMAIN c.pool : d.pool[o].key = c.pool[o].key,
         \A k \in Keys \ K : /\ EntriesOf(d, k) = EntriesOf(c, k)
                             /\ OffsetsOf(d, d.names, k) = OffsetsOf(c, c.names, k)
                             /\ OffsetsOf(c, c.sorted, k) = EntriesOf(c, k) => OffsetsOf(d, d.sorted, k) = EntriesOf(d, k)
  PROVE  /\ Moves(c, d, K)
         /\ Linked(d) = Linked(c)
         /\ \A k \in Keys : KeyNodes(d, Linked(d), k) = KeyNodes(c, Linked(c), k)
<1>1. d.nodes = c.nodes /\ d.heads = c.heads /\ d.tree = c.tree
  BY DEF SameHash
<1>2. SameKeys(c, d)
  <2>1. \A n \in DOMAIN c.nodes : c.nodes[n].entry \in DOMAIN c.pool
    BY CacheFields
  <2>2. \A n \in DOMAIN c.nodes : KeyAt(d, n) = KeyAt(c, n)
    BY <1>1, <2>1 DEF KeyAt
  <2> QED
    BY <1>1, <2>2 DEF SameKeys, HashAt
<1>3. Linked(d) = Linked(c)
  BY <1>1 DEF Linked
<1>4. Ordered(d, Linked(d))
  BY <1>1, <1>2, <1>3, SameLinksOrdered
<1>5. Linked(c) \subseteq DOMAIN c.nodes
  BY DEF Linked
<1>6. \A T \in SUBSET DOMAIN c.nodes : \A k \in Keys : KeyNodes(d, T, k) = KeyNodes(c, T, k)
  BY <1>2 DEF KeyNodes, SameKeys
<1>7. \A k \in Keys : KeyNodes(d, Linked(d), k) = KeyNodes(c, Linked(c), k)
  BY <1>3, <1>5, <1>6
<1>8. WalksKept(c, d, K)
  <2> SUFFICES ASSUME NEW heads, NEW T, Closed(c, heads, T), Older(heads, c.heads)
               PROVE  /\ Closed(d, heads, T) /\ Older(heads, d.heads)
                      /\ \A k \in Keys \ K :
                           /\ KeyNodes(d, T, k) = KeyNodes(c, T, k)
                           /\ \A m \in KeyNodes(c, T, k) : Unjumped(c, heads, T, m) => Unjumped(d, heads, T, m)
    BY DEF WalksKept
  <2>1. T \subseteq DOMAIN c.nodes
    BY DEF Closed
  <2>2. Closed(d, heads, T) /\ \A m \in T : Unjumped(c, heads, T, m) => Unjumped(d, heads, T, m)
    BY <1>1, <1>2, <2>1, SameLinks
  <2>3. \A k \in Keys : KeyNodes(c, T, k) \subseteq T
    BY DEF KeyNodes
  <2> QED
    BY <1>1, <1>6, <2>1, <2>2, <2>3
<1>9. ASSUME NEW k \in Keys \ K PROVE KeptFor(c, d, k)
  BY <1>1, <1>7, <1>9 DEF KeptFor
<1>10. Buckets(c.heads) <= Buckets(d.heads)
  BY <1>1, CacheFields
<1>11. Moves(c, d, K)
  BY <1>1, <1>2, <1>4, <1>8, <1>9, <1>10 DEF Moves
<1> QED
  BY <1>3, <1>7, <1>11

(* cache_hash_remove.                                                      *)
LEMMA RemoveMoves ==
  ASSUME NEW c, IsCache(c), Ordered(c, Linked(c)), NEW k \in Keys
  PROVE  LET d == HashRemove(c, k)
         IN  /\ Moves(c, d, {k}) /\ SameButHash(c, d) /\ Buckets(d.heads) = Buckets(c.heads)
             /\ \A n \in DOMAIN c.nodes : d.nodes[n].entry = c.nodes[n].entry
             /\ \/ KeyNodes(c, Linked(c), k) = {} /\ d = c
                \/ /\ d.size = Wrap(c.size - 1)
                   /\ \E x \in KeyNodes(c, Linked(c), k) :
                        KeyNodes(d, Linked(d), k) = KeyNodes(c, Linked(c), k) \ {x}
<1> DEFINE d == HashRemove(c, k)
           S == Linked(c)
<1>1. \/ KeyNodes(c, S, k) = {} /\ d = c
      \/ /\ d.size = Wrap(c.size - 1)
         /\ SameButHash(c, d)
         /\ \E nodes, heads : d = Rewired(c, nodes, heads, d.size)
         /\ \E x \in KeyNodes(c, S, k) : Unlinked(c, d, S, x)
  BY RemoveIs
<1>2. S \subseteq DOMAIN c.nodes /\ c.size \in Nat
  BY DEF Linked, IsCache, ACache
<1> HIDE DEF d, S
<1>3. CASE KeyNodes(c, S, k) = {} /\ d = c
  <2>1. SameHash(c, c) /\ SameButHash(c, c)
    BY DEF SameHash, SameButHash
  <2>2. Moves(c, c, {k})
    BY <2>1, MovesBeside
  <2> QED
    BY <1>3, <2>1, <2>2 DEF d, S
<1>4. CASE /\ d.size = Wrap(c.size - 1)
           /\ SameButHash(c, d)
           /\ \E nodes, heads : d = Rewired(c, nodes, heads, d.size)
           /\ \E x \in KeyNodes(c, S, k) : Unlinked(c, d, S, x)
  <2>1. PICK x \in KeyNodes(c, S, k) : Unlinked(c, d, S, x)
    BY <1>4
  <2>2. x \in S /\ KeyAt(c, x) = k /\ d.pool = c.pool /\ d.size \in Nat /\ Ordered(c, S)
    BY <1>2, <1>4, WrapIs DEF KeyNodes, SameButHash, S
  <2>3. IsCache(d)
    BY <1>4, <2>1, <2>2, UnlinkedIsCache
  <2>4. /\ DOMAIN d.nodes = DOMAIN c.nodes /\ SameKeys(c, d)
        /\ \A n \in DOMAIN c.nodes : d.nodes[n].entry = c.nodes[n].entry
        /\ Buckets(d.heads) = Buckets(c.heads)
    BY <2>1, <2>2, UnlinkedNodes
  <2>5. Ordered(d, S \ {x})
    BY <1>4, <2>1, <2>2, UnlinkOrdered
  <2>6. Linked(d) = S \ {x}
    BY <2>3, <2>5, OrderedIsLinked
  <2>7. \A T \in SUBSET DOMAIN c.nodes : \A j \in Keys : KeyNodes(d, T, j) = KeyNodes(c, T, j)
    BY <2>4 DEF KeyNodes, SameKeys
  <2>8. S \ {x} \subseteq DOMAIN c.nodes
    BY <1>2
  <2>9. \A j \in Keys : KeyNodes(d, Linked(d), j) = KeyNodes(c, S \ {x}, j)
    BY <2>6, <2>7, <2>8
  <2>10. \A j \in Keys \ {k} : KeyNodes(d, Linked(d), j) = KeyNodes(c, S, j)
    BY <2>2, <2>9 DEF KeyNodes
  <2>11. KeyNodes(d, Linked(d), k) = KeyNodes(c, S, k) \ {x}
    BY <2>9 DEF KeyNodes
  <2>12. WalksKept(c, d, {k})
    <3> SUFFICES ASSUME NEW heads, NEW T, Closed(c, heads, T), Older(heads, c.heads)
                 PROVE  /\ Closed(d, heads, T) /\ Older(heads, d.heads)
                        /\ \A j \in Keys \ {k} :
                             /\ KeyNodes(d, T, j) = KeyNodes(c, T, j)
                             /\ \A m \in KeyNodes(c, T, j) : Unjumped(c, heads, T, m) => Unjumped(d, heads, T, m)
      BY DEF WalksKept
    <3>1. T \in SUBSET DOMAIN c.nodes
      BY DEF Closed
    <3>2. Closed(d, heads, T) /\ \A m \in T : m # x /\ Unjumped(c, heads, T, m) => Unjumped(d, heads, T, m)
      BY <1>4, <2>1, <2>2, UnlinkOther
    <3>3. Older(heads, d.heads)
      BY <2>4 DEF Older, Splits
    <3>4. \A j \in Keys \ {k} : \A m \in KeyNodes(c, T, j) : m \in T /\ m # x
      BY <2>2 DEF KeyNodes
    <3> QED
      BY <2>7, <3>1, <3>2, <3>3, <3>4
  <2>13. Buckets(c.heads) <= Buckets(d.heads)
    BY <2>4, CacheFields
  <2>14. Ordered(d, Linked(d))
    BY <2>5, <2>6
  <2>15. Moves(c, d, {k})
    BY <1>4, <2>3, <2>4, <2>10, <2>12, <2>13, <2>14, MovesByHash DEF S
  <2> QED
    BY <1>4, <2>4, <2>11, <2>15 DEF d, S
<1> QED
  BY <1>1, <1>3, <1>4

(* cache_hash_insert.                                                      *)
IndexedAs(c, d, k, o) ==
  /\ Moves(c, d, {k}) /\ SameButHash(c, d) /\ Buckets(d.heads) # 0
  /\ \/ /\ d.size = c.size
        /\ KeyNodes(d, Linked(d), k) = KeyNodes(c, Linked(c), k)
        /\ \E x \in KeyNodes(c, Linked(c), k) : d.nodes[x].entry = o
     \/ /\ d.size = Wrap(c.size + 1)
        /\ KeyNodes(c, Linked(c), k) = {}
        /\ KeyNodes(d, Linked(d), k) = {NewNode(c)}
        /\ d.nodes[NewNode(c)].entry = o

LEMMA InsertMoves ==
  ASSUME NEW c, IsCache(c), Ordered(c, Linked(c)), NEW k \in Keys, NEW o \in DOMAIN c.pool, c.pool[o].key = k
  PROVE  IndexedAs(c, HashInsert(c, k, o), k, o)
<1> DEFINE d == HashInsert(c, k, o)
           S == Linked(c)
<1>1. Inserted(c, d, S, k, o)
  BY InsertIs
<1>2. S \subseteq DOMAIN c.nodes /\ NewNode(c) \notin DOMAIN c.nodes
  BY CacheFields DEF Linked, NewNode
<1> HIDE DEF d, S
<1>3. /\ IsCache(d) /\ SameButHash(c, d) /\ SameKeys(c, d)
      /\ Buckets(d.heads) # 0 /\ Buckets(c.heads) <= Buckets(d.heads)
      /\ OthersKept(c, d, {NewNode(c)})
  BY <1>1 DEF Inserted
<1>4. \A T \in SUBSET DOMAIN c.nodes : \A j \in Keys : KeyNodes(d, T, j) = KeyNodes(c, T, j)
  BY <1>3 DEF KeyNodes, SameKeys
<1>5. NewNode(c) \in DOMAIN d.nodes => KeyAt(d, NewNode(c)) = k
  BY <1>1, <1>2 DEF Inserted
<1>6. ASSUME NEW T \in SUBSET DOMAIN c.nodes, NEW U, T \subseteq U, U \subseteq T \union {NewNode(c)},
             U \subseteq DOMAIN d.nodes, NEW j \in Keys \ {k}
      PROVE  KeyNodes(d, U, j) = KeyNodes(c, T, j)
  <2>1. KeyNodes(d, U, j) = KeyNodes(d, T, j)
    BY <1>5, <1>6 DEF KeyNodes
  <2> QED
    BY <1>4, <2>1
<1>7. WalksKept(c, d, {k})
  <2> SUFFICES ASSUME NEW heads, NEW T, Closed(c, heads, T), Older(heads, c.heads)
               PROVE  \E U : /\ Closed(d, heads, U) /\ Older(heads, d.heads)
                             /\ Buckets(d.heads) = Buckets(c.heads) =>
                                  \A j \in Keys \ {k} :
                                    /\ KeyNodes(d, U, j) = KeyNodes(c, T, j)
                                    /\ \A m \in KeyNodes(c, T, j) : Unjumped(c, heads, T, m) => Unjumped(d, heads, U, m)
    BY DEF WalksKept
  <2>1. PICK U : /\ Closed(d, heads, U) /\ Older(heads, d.heads)
                 /\ Buckets(d.heads) = Buckets(c.heads) =>
                      /\ T \subseteq U /\ U \subseteq T \union {NewNode(c)}
                      /\ \A m \in T : Unjumped(c, heads, T, m) => Unjumped(d, heads, U, m)
    BY <1>3 DEF OthersKept
  <2>2. T \in SUBSET DOMAIN c.nodes /\ U \subseteq DOMAIN d.nodes
    BY <2>1 DEF Closed
  <2>3. ASSUME Buckets(d.heads) = Buckets(c.heads), NEW j \in Keys \ {k}
        PROVE  /\ KeyNodes(d, U, j) = KeyNodes(c, T, j)
               /\ \A m \in KeyNodes(c, T, j) : Unjumped(c, heads, T, m) => Unjumped(d, heads, U, m)
    <3>1. KeyNodes(d, U, j) = KeyNodes(c, T, j)
      BY <1>6, <2>1, <2>2, <2>3
    <3>2. KeyNodes(c, T, j) \subseteq T
      BY DEF KeyNodes
    <3> QED
      BY <2>1, <2>3, <3>1, <3>2
  <2> QED
    BY <2>1, <2>3
<1>8. CASE \E x \in KeyNodes(c, S, k) :
             /\ DOMAIN d.nodes = DOMAIN c.nodes
             /\ Ordered(d, S) /\ d.size = c.size
             /\ \A n \in DOMAIN c.nodes : d.nodes[n].entry = IF n = x THEN o ELSE c.nodes[n].entry
  <2>1. PICK x \in KeyNodes(c, S, k) :
             /\ DOMAIN d.nodes = DOMAIN c.nodes
             /\ Ordered(d, S) /\ d.size = c.size
             /\ \A n \in DOMAIN c.nodes : d.nodes[n].entry = IF n = x THEN o ELSE c.nodes[n].entry
    BY <1>8
  <2>2. Linked(d) = S
    BY <1>3, <2>1, OrderedIsLinked
  <2>3. \A j \in Keys : KeyNodes(d, Linked(d), j) = KeyNodes(c, S, j)
    BY <1>2, <1>4, <2>2
  <2>4. x \in DOMAIN c.nodes /\ KeyAt(c, x) = k
    BY <1>2 DEF KeyNodes
  <2>5. \A n \in DOMAIN c.nodes : KeyAt(c, n) # k => d.nodes[n].entry = c.nodes[n].entry
    BY <2>1, <2>4
  <2>6. Moves(c, d, {k})
    BY <1>3, <1>7, <2>1, <2>2, <2>3, <2>5, MovesByHash DEF S
  <2> QED
    BY <1>3, <2>1, <2>3, <2>4, <2>6 DEF d, S, IndexedAs
<1>9. CASE /\ KeyNodes(c, S, k) = {}
           /\ DOMAIN d.nodes = DOMAIN c.nodes \union {NewNode(c)}
           /\ Ordered(d, S \union {NewNode(c)}) /\ d.size = Wrap(c.size + 1)
           /\ \A n \in DOMAIN c.nodes : d.nodes[n].entry = c.nodes[n].entry
           /\ d.nodes[NewNode(c)].entry = o /\ KeyAt(d, NewNode(c)) = k
  <2>1. Linked(d) = S \union {NewNode(c)}
    BY <1>3, <1>9, OrderedIsLinked
  <2>2. \A j \in Keys \ {k} : KeyNodes(d, Linked(d), j) = KeyNodes(c, S, j)
    BY <1>2, <1>6, <1>9, <2>1
  <2>3. KeyNodes(d, S, k) = {}
    BY <1>2, <1>4, <1>9
  <2>4. KeyNodes(d, Linked(d), k) = {NewNode(c)}
    BY <1>9, <2>1, <2>3 DEF KeyNodes
  <2>5. Moves(c, d, {k})
    BY <1>3, <1>7, <1>9, <2>1, <2>2, MovesByHash DEF S
  <2> QED
    BY <1>3, <1>9, <2>4, <2>5 DEF d, S, IndexedAs
<1> QED
  BY <1>1, <1>8, <1>9 DEF Inserted

-----------------------------------------------------------------------------
(* What storing and deleting do beside the hash index.                     *)

Dress(c, pool, sorted, names, count, mem) ==
  [c EXCEPT !.pool = pool, !.sorted = sorted, !.names = names, !.count = count, !.mem = mem]

LEMMA DressIs ==
  ASSUME NEW c, IsCache(c), NEW pool \in Seq(AnEntry), Len(c.pool) <= Len(pool),
         NEW sorted \in SUBSET DOMAIN pool, NEW names \in SUBSET DOMAIN pool, NEW count \in Nat, NEW mem \in Nat
  PROVE  LET d == Dress(c, pool, sorted, names, count, mem)
         IN  /\ IsCache(d) /\ SameHash(c, d)
             /\ d.pool = pool /\ d.sorted = sorted /\ d.names = names /\ d.count = count /\ d.mem = mem
<1> DEFINE d == Dress(c, pool, sorted, names, count, mem)
<1>1. c \in ACache
  BY DEF IsCache
<1>2. /\ d.pool = pool /\ d.sorted = sorted /\ d.names = names /\ d.count = count /\ d.mem = mem
      /\ d.nodes = c.nodes /\ d.heads = c.heads /\ d.size = c.size /\ d.tree = c.tree
  BY <1>1 DEF Dress, ACache
<1>3. Len(pool) \in Nat /\ DOMAIN pool = 1..Len(pool) /\ Len(c.pool) \in Nat /\ DOMAIN c.pool = 1..Len(c.pool)
  BY CacheFields, LenProperties
<1>4. sorted \in SUBSET Nat /\ names \in SUBSET Nat
  BY <1>3
<1>5. d \in ACache
  BY <1>1, <1>4 DEF Dress, ACache
<1> HIDE DEF d
<1>6. \A n \in DOMAIN c.nodes : c.nodes[n].entry \in DOMAIN pool
  <2>1. DOMAIN c.pool \subseteq DOMAIN pool
    BY <1>3
  <2> QED
    BY <2>1 DEF IsCache
<1>7. NodesUp(d.nodes) /\ \A b \in DOMAIN d.heads : d.heads[b] \in 0..Len(d.nodes)
  BY <1>2 DEF IsCache
<1>8. IsCache(d)
  BY <1>2, <1>5, <1>6, <1>7 DEF IsCache
<1> QED
  BY <1>2, <1>8 DEF SameHash, d

LEMMA UndeletedIs ==
  ASSUME NEW c, IsCache(c)
  PROVE  /\ Undeleted(c) \subseteq DOMAIN c.pool
         /\ IsFiniteSet(Undeleted(c)) /\ Cardinality(Undeleted(c)) \in 0..Len(c.pool)
         /\ \A k : EntriesOf(c, k) \subseteq Undeleted(c)
         /\ \A o \in Undeleted(c) : c.pool[o].key \in Keys
<1>1. Undeleted(c) \subseteq DOMAIN c.pool
  BY DEF Undeleted
<1>2. Len(c.pool) \in Nat /\ DOMAIN c.pool = 1..Len(c.pool)
      /\ \A o \in DOMAIN c.pool : c.pool[o].key \in Keys
  BY CacheFields
<1>3. IsFiniteSet(1..Len(c.pool)) /\ Cardinality(1..Len(c.pool)) = Len(c.pool)
  <2>1. 1 \in Int /\ Len(c.pool) \in Int
    BY <1>2
  <2>2. IsFiniteSet(1..Len(c.pool))
        /\ Cardinality(1..Len(c.pool)) = IF 1 > Len(c.pool) THEN 0 ELSE Len(c.pool) - 1 + 1
    BY <2>1, FS_Interval
  <2> QED
    BY <1>2, <2>2
<1>4. IsFiniteSet(Undeleted(c)) /\ Cardinality(Undeleted(c)) <= Len(c.pool)
  BY <1>1, <1>2, <1>3, FS_Subset
<1>5. Cardinality(Undeleted(c)) \in Nat
  BY <1>4, FS_CardinalityType
<1>6. \A k : EntriesOf(c, k) \subseteq Undeleted(c)
  BY DEF EntriesOf
<1> QED
  BY <1>1, <1>2, <1>4, <1>5, <1>6

(* A list loses one of its offsets with the key.                           *)
LEMMA ListLess ==
  ASSUME NEW c, NEW list, NEW k, NEW N \in ByKeyWithout(c, list, k)
  PROVE  /\ N \subseteq list
         /\ \A j : j # k => OffsetsOf(c, N, j) = OffsetsOf(c, list, j)
         /\ \A o : OffsetsOf(c, list, k) = {o} => OffsetsOf(c, N, k) = {}
<1> DEFINE there == {o \in list : c.pool[o].key = k}
<1>1. CASE there = {}
  <2>1. N = list
    BY <1>1 DEF ByKeyWithout
  <2> QED
    BY <1>1, <2>1 DEF OffsetsOf
<1>2. CASE there # {}
  <2>1. PICK o \in there : N = list \ {o}
    BY <1>2 DEF ByKeyWithout
  <2> QED
    BY <2>1 DEF OffsetsOf
<1> QED
  BY <1>1, <1>2

(* The hash index and the namespace tree know the one entry of the key, or *)
(* know that there is none; and so does the sorted array.                  *)
Hashed(c, k) ==
  /\ \A o, p \in EntriesOf(c, k) : o = p
  /\ \A n, m \in KeyNodes(c, Linked(c), k) : n = m
  /\ {c.nodes[n].entry : n \in KeyNodes(c, Linked(c), k)} = EntriesOf(c, k)
  /\ c.tree => OffsetsOf(c, c.names, k) = EntriesOf(c, k)

InArray(c, k) == OffsetsOf(c, c.sorted, k) = EntriesOf(c, k)

LEMMA KeptOk ==
  ASSUME NEW c, NEW d, NEW K, Moves(c, d, K), NEW k \in Keys \ K
  PROVE  /\ Hashed(c, k) => Hashed(d, k)
         /\ InArray(c, k) => InArray(d, k)
<1>1. KeptFor(c, d, k) /\ d.tree = c.tree
  BY DEF Moves
<1>2. \A n \in KeyNodes(c, Linked(c), k) : d.nodes[n].entry = c.nodes[n].entry
  <2>1. \A n \in KeyNodes(c, Linked(c), k) : n \in DOMAIN c.nodes /\ KeyAt(c, n) = k
    BY DEF KeyNodes, Linked
  <2> QED
    BY <1>1, <2>1 DEF KeptFor
<1>3. {d.nodes[n].entry : n \in KeyNodes(d, Linked(d), k)} = {c.nodes[n].entry : n \in KeyNodes(c, Linked(c), k)}
  BY <1>1, <1>2 DEF KeptFor
<1>4. Hashed(c, k) => Hashed(d, k)
  BY <1>1, <1>3 DEF KeptFor, Hashed
<1>5. InArray(c, k) => InArray(d, k)
  BY <1>1 DEF KeptFor, InArray
<1> QED
  BY <1>4, <1>5

LEMMA MarkedIs ==
  ASSUME NEW c, IsCache(c), Ordered(c, Linked(c)), NEW o \in Undeleted(c)
  PROVE  LET d == Flagged(c, o)
         IN  /\ Moves(c, d, {c.pool[o].key}) /\ SameHash(c, d)
             /\ \A k \in Keys : KeyNodes(d, Linked(d), k) = KeyNodes(c, Linked(c), k)
             /\ Undeleted(d) = Undeleted(c) \ {o}
             /\ Len(d.pool) = Len(c.pool) /\ DOMAIN d.pool = DOMAIN c.pool
             /\ \A p \in DOMAIN c.pool : d.pool[p].key = c.pool[p].key
             /\ d.sorted = c.sorted /\ d.names = c.names /\ d.count = Wrap(c.count - 1)
<1> DEFINE d == Flagged(c, o)
           pool == [c.pool EXCEPT ![o].deleted = TRUE]
           k == c.pool[o].key
<1>1. /\ c \in ACache /\ c.count \in Nat /\ c.mem \in Nat
      /\ c.sorted \subseteq DOMAIN c.pool /\ c.names \subseteq DOMAIN c.pool
  BY DEF IsCache, ACache
<1>2. o \in DOMAIN c.pool /\ c.pool \in Seq(AnEntry) /\ DOMAIN c.pool = 1..Len(c.pool) /\ Len(c.pool) \in Nat
  BY CacheFields DEF Undeleted
<1>3. d = Dress(c, pool, c.sorted, c.names, Wrap(c.count - 1), Wrap(c.mem - 1))
  BY <1>1 DEF Dress, Flagged, ACache
<1>4. \A p \in DOMAIN c.pool : c.pool[p] \in AnEntry
  BY <1>2, ElementOfSeq
<1>5. \A p \in DOMAIN c.pool : /\ pool[p] \in AnEntry /\ pool[p].key = c.pool[p].key
                               /\ pool[p].deleted = IF p = o THEN TRUE ELSE c.pool[p].deleted
  BY <1>2, <1>4 DEF AnEntry
<1>6. pool \in Seq(AnEntry) /\ Len(pool) = Len(c.pool) /\ DOMAIN pool = DOMAIN c.pool
  <2>1. pool \in [1..Len(c.pool) -> AnEntry]
    BY <1>2, <1>5
  <2> HIDE DEF pool
  <2> QED
    BY <1>2, <2>1, SeqDef, LenProperties
<1> HIDE DEF d, pool
<1>7. Wrap(c.count - 1) \in Nat /\ Wrap(c.mem - 1) \in Nat
  BY <1>1, WrapIs
<1>8. /\ IsCache(d) /\ SameHash(c, d) /\ d.pool = pool /\ d.sorted = c.sorted /\ d.names = c.names
      /\ d.count = Wrap(c.count - 1)
  BY <1>1, <1>2, <1>3, <1>6, <1>7, DressIs, SMTT(30)
<1>9. Undeleted(d) = Undeleted(c) \ {o}
  BY <1>5, <1>6, <1>8 DEF Undeleted
<1>10. ASSUME NEW j \in Keys \ {k}
       PROVE  /\ EntriesOf(d, j) = EntriesOf(c, j)
              /\ OffsetsOf(d, d.names, j) = OffsetsOf(c, c.names, j)
              /\ OffsetsOf(d, d.sorted, j) = OffsetsOf(c, c.sorted, j)
  <2>1. Undeleted(c) \subseteq DOMAIN c.pool
    BY DEF Undeleted
  <2> QED
    BY <1>1, <1>5, <1>8, <1>9, <2>1 DEF EntriesOf, OffsetsOf
<1>11. \A p \in DOMAIN c.pool : d.pool[p].key = c.pool[p].key
  BY <1>5, <1>8
<1>12. DOMAIN c.pool \subseteq DOMAIN d.pool /\ Len(d.pool) = Len(c.pool) /\ DOMAIN d.pool = DOMAIN c.pool
  BY <1>6, <1>8
<1> HIDE DEF k
<1>13. Moves(c, d, {k}) /\ \A j \in Keys : KeyNodes(d, Linked(d), j) = KeyNodes(c, Linked(c), j)
  BY <1>8, <1>10, <1>11, <1>12, MovesBeside
<1> QED
  BY <1>8, <1>9, <1>11, <1>12, <1>13 DEF d, k

-----------------------------------------------------------------------------
(* Entries go.                                                             *)

Gone(c, d) == {c.pool[o].key : o \in Undeleted(c) \ Undeleted(d)}

Counted(c) == c.count = Cardinality(Undeleted(c))

Sized(c) == c.size = Cardinality(Undeleted(c))

AllHashed(c) == \A k \in Keys : Hashed(c, k)

(* What deletions do, whichever way they come about.                       *)
Loses(c, d) ==
  /\ Moves(c, d, Gone(c, d)) /\ Buckets(d.heads) = Buckets(c.heads)
  /\ Len(d.pool) = Len(c.pool) /\ Undeleted(d) \subseteq Undeleted(c) /\ d.sorted \subseteq c.sorted
  /\ \A k \in Keys : Hashed(c, k) => Hashed(d, k)
  /\ Len(c.pool) <= PoolMax /\ AllHashed(c) /\ Sized(c) => Sized(d)
  /\ Len(c.pool) <= PoolMax /\ Counted(c) => Counted(d)

LEMMA LosesNothing ==
  ASSUME NEW c, IsCache(c), Ordered(c, Linked(c))
  PROVE  Loses(c, c)
<1>1. SameHash(c, c)
  BY DEF SameHash
<1>2. Moves(c, c, Gone(c, c))
  BY <1>1, MovesBeside
<1> QED
  BY <1>2 DEF Loses

LEMMA LosesThen ==
  ASSUME NEW c, NEW d, NEW e, IsCache(c), Loses(c, d), Loses(d, e)
  PROVE  Loses(c, e)
<1>1. \A o \in Undeleted(d) : o \in DOMAIN c.pool /\ d.pool[o].key = c.pool[o].key
  <2>1. \A o \in DOMAIN c.pool : d.pool[o].key = c.pool[o].key
    BY DEF Loses, Moves
  <2>2. Undeleted(d) \subseteq Undeleted(c) /\ Undeleted(c) \subseteq DOMAIN c.pool
    BY DEF Loses, Undeleted
  <2> QED
    BY <2>1, <2>2
<1>2. Gone(c, d) \subseteq Gone(c, e) /\ Gone(d, e) \subseteq Gone(c, e)
  BY <1>1 DEF Gone, Loses
<1>3. Moves(c, e, Gone(c, d) \union Gone(d, e))
  BY MovesThen DEF Loses
<1>4. Gone(c, d) \union Gone(d, e) \subseteq Gone(c, e)
  BY <1>2
<1>5. Moves(c, e, Gone(c, e))
  BY <1>3, <1>4, MovesMore
<1> QED
  BY <1>5 DEF Loses, AllHashed

WithNames(c, N) == [c EXCEPT !.names = N]

LEMMA CountLess ==
  ASSUME NEW c, IsCache(c), Len(c.pool) <= PoolMax, NEW o \in Undeleted(c)
  PROVE  Wrap(Cardinality(Undeleted(c)) - 1) = Cardinality(Undeleted(c) \ {o})
<1>1. IsFiniteSet(Undeleted(c)) /\ Cardinality(Undeleted(c)) \in 0..Len(c.pool) /\ Len(c.pool) \in Nat
  BY UndeletedIs, CacheFields
<1>2. Cardinality(Undeleted(c) \ {o}) = Cardinality(Undeleted(c)) - 1
  BY <1>1, FS_RemoveElement
<1>3. IsFiniteSet(Undeleted(c) \ {o})
  BY <1>1, FS_RemoveElement
<1>4. Cardinality(Undeleted(c) \ {o}) \in Nat
  BY <1>3, FS_CardinalityType
<1>5. PoolMax \in Nat /\ MaxMemory \in Nat /\ Word \in Nat /\ Word > MaxMemory + PoolMax
  BY PersistAssumption
<1>6. Cardinality(Undeleted(c)) - 1 \in 0..(Word - 1)
  BY <1>1, <1>2, <1>4, <1>5
<1> QED
  BY <1>2, <1>6, WrapIs

LEMMA DroppedIs ==
  ASSUME NEW c, IsCache(c), Ordered(c, Linked(c)), NEW o \in Undeleted(c), NEW d \in Dropped(c, o)
  PROVE  /\ Loses(c, d)
         /\ Undeleted(d) = Undeleted(c) \ {o} /\ d.sorted = c.sorted
<1> DEFINE k == c.pool[o].key
           m == Flagged(c, o)
           h == HashRemove(m, k)
<1>1. PICK N \in ByKeyWithout(c, c.names, k) : d = WithNames(h, N)
  BY DEF Dropped, WithNames
<1>2. k \in Keys /\ o \in DOMAIN c.pool /\ o \in EntriesOf(c, k)
  BY UndeletedIs DEF EntriesOf
<1> HIDE DEF k
<1>3. /\ Moves(c, m, {k}) /\ SameHash(c, m)
      /\ \A j \in Keys : KeyNodes(m, Linked(m), j) = KeyNodes(c, Linked(c), j)
      /\ Undeleted(m) = Undeleted(c) \ {o}
      /\ Len(m.pool) = Len(c.pool) /\ DOMAIN m.pool = DOMAIN c.pool
      /\ \A p \in DOMAIN c.pool : m.pool[p].key = c.pool[p].key
      /\ m.sorted = c.sorted /\ m.names = c.names /\ m.count = Wrap(c.count - 1)
  BY MarkedIs DEF k
<1> HIDE DEF m
<1>4. IsCache(m) /\ Ordered(m, Linked(m))
  BY <1>3 DEF Moves
<1>5. /\ Moves(m, h, {k}) /\ SameButHash(m, h) /\ Buckets(h.heads) = Buckets(m.heads)
      /\ \A n \in DOMAIN m.nodes : h.nodes[n].entry = m.nodes[n].entry
      /\ \/ KeyNodes(m, Linked(m), k) = {} /\ h = m
         \/ /\ h.size = Wrap(m.size - 1)
            /\ \E x \in KeyNodes(m, Linked(m), k) :
                 KeyNodes(h, Linked(h), k) = KeyNodes(m, Linked(m), k) \ {x}
  BY <1>2, <1>4, RemoveMoves
<1> HIDE DEF h
<1>6. IsCache(h) /\ Ordered(h, Linked(h)) /\ h.pool = m.pool /\ h.sorted = c.sorted /\ h.names = c.names /\ h.count = m.count
  BY <1>3, <1>5 DEF Moves, SameButHash
<1>7. /\ N \subseteq c.names
      /\ \A j : j # k => OffsetsOf(c, N, j) = OffsetsOf(c, c.names, j)
      /\ \A p : OffsetsOf(c, c.names, k) = {p} => OffsetsOf(c, N, k) = {}
  BY ListLess
<1>8. c.names \subseteq DOMAIN c.pool /\ c.sorted \subseteq DOMAIN c.pool
  BY DEF IsCache
<1>9. /\ IsCache(d) /\ SameHash(h, d) /\ d.pool = m.pool /\ d.sorted = c.sorted /\ d.names = N
      /\ d.count = m.count
  <2>1. h \in ACache /\ h.pool \in Seq(AnEntry) /\ h.count \in Nat /\ h.mem \in Nat
    BY <1>6 DEF IsCache, ACache
  <2>2. d = Dress(h, h.pool, h.sorted, N, h.count, h.mem)
    BY <1>1, <2>1 DEF Dress, WithNames, ACache
  <2>3. Len(h.pool) \in Nat
    BY <1>6, CacheFields
  <2>4. h.sorted \in SUBSET DOMAIN h.pool /\ N \in SUBSET DOMAIN h.pool
    BY <1>3, <1>6, <1>7, <1>8
  <2>5. IsCache(d) /\ SameHash(h, d) /\ d.pool = h.pool /\ d.sorted = h.sorted /\ d.names = N /\ d.count = h.count
    BY <1>6, <2>1, <2>2, <2>3, <2>4, DressIs
  <2> QED
    BY <1>6, <2>5
<1>10. ASSUME NEW j \in Keys, NEW L \in SUBSET DOMAIN c.pool
       PROVE  /\ OffsetsOf(d, L, j) = OffsetsOf(c, L, j)
              /\ OffsetsOf(h, L, j) = OffsetsOf(c, L, j)
  BY <1>3, <1>6, <1>9 DEF OffsetsOf
<1>11. Undeleted(d) = Undeleted(c) \ {o} /\ Undeleted(h) = Undeleted(d)
  BY <1>3, <1>6, <1>9 DEF Undeleted
<1>12. ASSUME NEW j \in Keys \ {k}
       PROVE  /\ EntriesOf(d, j) = EntriesOf(h, j)
              /\ OffsetsOf(d, d.names, j) = OffsetsOf(h, h.names, j)
              /\ OffsetsOf(h, h.sorted, j) = EntriesOf(h, j) => OffsetsOf(d, d.sorted, j) = EntriesOf(d, j)
  <2>1. EntriesOf(d, j) = EntriesOf(h, j)
    BY <1>6, <1>9, <1>11 DEF EntriesOf
  <2>2. OffsetsOf(d, d.names, j) = OffsetsOf(h, h.names, j)
    <3>1. N \in SUBSET DOMAIN c.pool /\ c.names \in SUBSET DOMAIN c.pool
      BY <1>7, <1>8
    <3> QED
      BY <1>6, <1>7, <1>9, <1>10, <3>1
  <2>3. OffsetsOf(d, d.sorted, j) = OffsetsOf(h, h.sorted, j)
    BY <1>6, <1>8, <1>9, <1>10
  <2> QED
    BY <2>1, <2>2, <2>3
<1>13. /\ Moves(h, d, {k})
       /\ \A j \in Keys : KeyNodes(d, Linked(d), j) = KeyNodes(h, Linked(h), j)
  <2>1. DOMAIN h.pool \subseteq DOMAIN d.pool /\ \A p \in DOMAIN h.pool : d.pool[p].key = h.pool[p].key
    BY <1>6, <1>9
  <2> QED
    BY <1>6, <1>9, <1>12, <2>1, MovesBeside
<1>14. Moves(c, d, {k})
  <2>1. Moves(c, h, {k} \union {k})
    BY <1>3, <1>5, MovesThen
  <2>2. Moves(c, d, ({k} \union {k}) \union {k})
    BY <1>13, <2>1, MovesThen
  <2>3. ({k} \union {k}) \union {k} = {k}
    OBVIOUS
  <2> QED
    BY <2>2, <2>3
<1>15. Gone(c, d) = {k}
  BY <1>2, <1>11 DEF Gone, k, Undeleted
<1>16. Buckets(d.heads) = Buckets(c.heads)
  BY <1>3, <1>5, <1>9 DEF SameHash
<1>17. ASSUME Hashed(c, k) PROVE Hashed(d, k) /\ h.size = Wrap(c.size - 1)
  <2>1. EntriesOf(c, k) = {o}
    BY <1>2, <1>17 DEF Hashed
  <2>2. PICK x \in KeyNodes(c, Linked(c), k) : c.nodes[x].entry = o
    BY <1>17, <2>1 DEF Hashed
  <2>3. KeyNodes(c, Linked(c), k) = {x}
    BY <1>17, <2>2 DEF Hashed
  <2>4. KeyNodes(m, Linked(m), k) = {x}
    BY <1>2, <1>3, <2>3
  <2>5. KeyNodes(h, Linked(h), k) = {} /\ h.size = Wrap(m.size - 1)
    BY <1>5, <2>4
  <2>6. KeyNodes(d, Linked(d), k) = {}
    BY <1>2, <1>13, <2>5
  <2>7. EntriesOf(d, k) = {}
    <3>1. \A p \in Undeleted(d) : p \in Undeleted(c) /\ p # o /\ d.pool[p].key = c.pool[p].key
      BY <1>3, <1>9, <1>11 DEF Undeleted
    <3>2. \A p \in Undeleted(d) : d.pool[p].key = k => p \in EntriesOf(c, k)
      BY <3>1 DEF EntriesOf
    <3> QED
      BY <2>1, <3>1, <3>2 DEF EntriesOf
  <2>8. d.tree => OffsetsOf(d, d.names, k) = {}
    <3>1. d.tree = c.tree
      BY <1>14 DEF Moves
    <3>2. c.tree => OffsetsOf(c, c.names, k) = {o}
      BY <1>17, <2>1 DEF Hashed
    <3>3. N \in SUBSET DOMAIN c.pool
      BY <1>7, <1>8
    <3> QED
      BY <1>2, <1>7, <1>9, <1>10, <3>1, <3>2, <3>3
  <2>9. {d.nodes[n].entry : n \in KeyNodes(d, Linked(d), k)} = {}
    BY <2>6
  <2>10. Hashed(d, k)
    BY <2>6, <2>7, <2>8, <2>9 DEF Hashed
  <2> QED
    BY <1>3, <2>5, <2>10 DEF SameHash
<1>18. ASSUME NEW j \in Keys, Hashed(c, j) PROVE Hashed(d, j)
  <2>1. CASE j = k
    BY <1>17, <1>18, <2>1
  <2>2. CASE j # k
    <3>1. j \in Keys \ {k}
      BY <2>2
    <3> QED
      BY <1>14, <1>18, <3>1, KeptOk
  <2> QED
    BY <2>1, <2>2
<1>19. ASSUME Len(c.pool) <= PoolMax
       PROVE  (AllHashed(c) /\ Sized(c) => Sized(d)) /\ (Counted(c) => Counted(d))
  <2>1. AllHashed(c) => h.size = Wrap(c.size - 1)
    BY <1>2, <1>17 DEF AllHashed
  <2>2. d.size = h.size /\ d.count = Wrap(c.count - 1)
    BY <1>3, <1>9 DEF SameHash
  <2>3. Wrap(Cardinality(Undeleted(c)) - 1) = Cardinality(Undeleted(c) \ {o})
    BY <1>19, CountLess
  <2> QED
    BY <1>11, <2>1, <2>2, <2>3 DEF Counted, Sized
<1>20. Len(d.pool) = Len(c.pool) /\ Undeleted(d) \subseteq Undeleted(c) /\ d.sorted \subseteq c.sorted
  BY <1>3, <1>9, <1>11
<1>21. Loses(c, d)
  BY <1>14, <1>15, <1>16, <1>18, <1>19, <1>20 DEF Loses
<1> QED
  BY <1>9, <1>11, <1>21

KeepsArray(c, d) == \A k \in Keys : Hashed(c, k) /\ InArray(c, k) => InArray(d, k)

WithSorted(c, L) == [c EXCEPT !.sorted = L]

LEMMA LosesSorted ==
  ASSUME NEW c, IsCache(c), NEW d, Loses(c, d), NEW L \in SUBSET DOMAIN d.pool, L \subseteq d.sorted,
         \A k \in Keys \ Gone(c, d) : InArray(d, k) => OffsetsOf(d, L, k) = EntriesOf(d, k)
  PROVE  LET e == WithSorted(d, L)
         IN  /\ Loses(c, e)
             /\ Undeleted(e) = Undeleted(d)
             /\ \A k \in Keys : InArray(e, k) <=> OffsetsOf(d, L, k) = EntriesOf(d, k)
<1> DEFINE e == WithSorted(d, L)
<1>1. IsCache(d) /\ Ordered(d, Linked(d)) /\ Moves(c, d, Gone(c, d))
  BY DEF Loses, Moves
<1>2. /\ IsCache(e) /\ SameHash(d, e) /\ e.pool = d.pool /\ e.sorted = L /\ e.names = d.names
      /\ e.count = d.count
  <2>1. d \in ACache /\ d.pool \in Seq(AnEntry) /\ d.count \in Nat /\ d.mem \in Nat /\ d.names \in SUBSET DOMAIN d.pool
    BY <1>1 DEF IsCache, ACache
  <2>2. e = Dress(d, d.pool, L, d.names, d.count, d.mem)
    BY <2>1 DEF Dress, WithSorted, ACache
  <2>3. Len(d.pool) <= Len(d.pool)
    BY <1>1, CacheFields
  <2> HIDE DEF e
  <2> QED
    BY <1>1, <2>1, <2>2, <2>3, DressIs
<1> HIDE DEF e
<1>3. Undeleted(e) = Undeleted(d)
  BY <1>2 DEF Undeleted
<1>4. \A k : EntriesOf(e, k) = EntriesOf(d, k)
  BY <1>2, <1>3 DEF EntriesOf
<1>5. \A k, list : OffsetsOf(e, list, k) = OffsetsOf(d, list, k)
  BY <1>2 DEF OffsetsOf
<1>6. \A k \in Keys : InArray(e, k) <=> OffsetsOf(d, L, k) = EntriesOf(d, k)
  BY <1>2, <1>4, <1>5 DEF InArray
<1>7. \A k \in Keys \ Gone(c, d) : OffsetsOf(d, d.sorted, k) = EntriesOf(d, k) => OffsetsOf(e, e.sorted, k) = EntriesOf(e, k)
  BY <1>2, <1>4, <1>5 DEF InArray
<1>8. /\ Moves(d, e, Gone(c, d))
      /\ \A k \in Keys : KeyNodes(e, Linked(e), k) = KeyNodes(d, Linked(d), k)
  <2>1. DOMAIN d.pool \subseteq DOMAIN e.pool /\ \A o \in DOMAIN d.pool : e.pool[o].key = d.pool[o].key
    BY <1>2
  <2>2. \A k \in Keys \ Gone(c, d) : OffsetsOf(e, e.names, k) = OffsetsOf(d, d.names, k)
    BY <1>2, <1>5
  <2> QED
    BY <1>1, <1>2, <1>4, <1>7, <2>1, <2>2, MovesBeside
<1>9. Gone(c, e) = Gone(c, d)
  BY <1>3 DEF Gone
<1>10. Moves(c, e, Gone(c, e))
  <2>1. Moves(c, e, Gone(c, d) \union Gone(c, d))
    BY <1>1, <1>8, MovesThen
  <2>2. Gone(c, d) \union Gone(c, d) = Gone(c, e)
    BY <1>9
  <2> QED
    BY <2>1, <2>2
<1>11. ASSUME NEW k \in Keys, Hashed(d, k) PROVE Hashed(e, k)
  <2>1. \A n \in KeyNodes(d, Linked(d), k) : e.nodes[n].entry = d.nodes[n].entry
    BY <1>2 DEF SameHash
  <2>2. {e.nodes[n].entry : n \in KeyNodes(e, Linked(e), k)} = {d.nodes[n].entry : n \in KeyNodes(d, Linked(d), k)}
    BY <1>8, <2>1
  <2>3. e.tree = d.tree /\ OffsetsOf(e, e.names, k) = OffsetsOf(d, d.names, k)
    BY <1>2, <1>5 DEF SameHash
  <2> QED
    BY <1>4, <1>8, <1>11, <2>2, <2>3 DEF Hashed
<1>12. (Sized(d) => Sized(e)) /\ (Counted(d) => Counted(e))
  BY <1>2, <1>3 DEF Counted, Sized, SameHash
<1>13. Loses(c, e)
  <2>1. /\ Buckets(e.heads) = Buckets(c.heads) /\ Len(e.pool) = Len(c.pool)
        /\ Undeleted(e) \subseteq Undeleted(c) /\ e.sorted \subseteq c.sorted
    BY <1>2, <1>3 DEF Loses, SameHash
  <2> QED
    BY <1>10, <1>11, <1>12, <2>1 DEF Loses
<1> QED
  BY <1>3, <1>6, <1>13 DEF e

LEMMA LosesKeys ==
  ASSUME NEW c, NEW d, IsCache(c), Loses(c, d)
  PROVE  /\ IsCache(d) /\ Ordered(d, Linked(d)) /\ DOMAIN d.pool = DOMAIN c.pool
         /\ \A o \in DOMAIN c.pool : d.pool[o].key = c.pool[o].key
         /\ \A k \in Keys : \A list \in SUBSET DOMAIN c.pool : OffsetsOf(d, list, k) = OffsetsOf(c, list, k)
         /\ \A k \in Keys : EntriesOf(d, k) \subseteq EntriesOf(c, k)
<1>1. /\ IsCache(d) /\ Ordered(d, Linked(d)) /\ Len(d.pool) = Len(c.pool)
      /\ \A o \in DOMAIN c.pool : d.pool[o].key = c.pool[o].key
      /\ Undeleted(d) \subseteq Undeleted(c)
  BY DEF Loses, Moves
<1>2. DOMAIN d.pool = DOMAIN c.pool
  BY <1>1, CacheFields
<1>3. Undeleted(c) \subseteq DOMAIN c.pool
  BY DEF Undeleted
<1>4. \A k \in Keys : \A list \in SUBSET DOMAIN c.pool : OffsetsOf(d, list, k) = OffsetsOf(c, list, k)
  BY <1>1 DEF OffsetsOf
<1>5. \A k \in Keys : EntriesOf(d, k) \subseteq EntriesOf(c, k)
  BY <1>1, <1>3 DEF EntriesOf
<1> QED
  BY <1>1, <1>2, <1>4, <1>5

(* remove_entry outside eviction.                                          *)
LEMMA RemovedIs ==
  ASSUME NEW c, IsCache(c), Ordered(c, Linked(c)), NEW o \in Undeleted(c), NEW d \in Removed(c, o)
  PROVE  Loses(c, d) /\ KeepsArray(c, d) /\ Undeleted(d) = Undeleted(c) \ {o}
<1> DEFINE k == c.pool[o].key
<1>1. PICK m \in Dropped(c, o) : d \in {[m EXCEPT !.sorted = L] : L \in ByKeyWithout(c, c.sorted, k)}
  BY DEF Removed
<1>2. PICK L \in ByKeyWithout(c, c.sorted, k) : d = WithSorted(m, L)
  BY <1>1 DEF WithSorted
<1>3. Loses(c, m) /\ Undeleted(m) = Undeleted(c) \ {o} /\ m.sorted = c.sorted
  BY DroppedIs
<1>4. k \in Keys /\ o \in EntriesOf(c, k) /\ c.sorted \in SUBSET DOMAIN c.pool
  BY UndeletedIs DEF EntriesOf, IsCache
<1>5. Gone(c, m) = {k}
  BY <1>3 DEF Gone
<1> HIDE DEF k
<1>6. /\ L \in SUBSET DOMAIN c.pool /\ L \subseteq c.sorted
      /\ \A j : j # k => OffsetsOf(c, L, j) = OffsetsOf(c, c.sorted, j)
      /\ \A p : OffsetsOf(c, c.sorted, k) = {p} => OffsetsOf(c, L, k) = {}
  <2>1. /\ L \subseteq c.sorted
        /\ \A j : j # k => OffsetsOf(c, L, j) = OffsetsOf(c, c.sorted, j)
        /\ \A p : OffsetsOf(c, c.sorted, k) = {p} => OffsetsOf(c, L, k) = {}
    BY ListLess
  <2> QED
    BY <1>4, <2>1
<1>7. /\ DOMAIN m.pool = DOMAIN c.pool
      /\ \A j \in Keys : \A list \in SUBSET DOMAIN c.pool : OffsetsOf(m, list, j) = OffsetsOf(c, list, j)
      /\ \A j \in Keys : EntriesOf(m, j) \subseteq EntriesOf(c, j)
  BY <1>3, LosesKeys
<1>8. \A j \in Keys : j # k => OffsetsOf(m, L, j) = OffsetsOf(m, m.sorted, j)
  BY <1>3, <1>4, <1>6, <1>7
<1>9. \A j \in Keys \ Gone(c, m) : InArray(m, j) => OffsetsOf(m, L, j) = EntriesOf(m, j)
  BY <1>5, <1>8 DEF InArray
<1>10. /\ Loses(c, d) /\ Undeleted(d) = Undeleted(m)
       /\ \A j \in Keys : InArray(d, j) <=> OffsetsOf(m, L, j) = EntriesOf(m, j)
  BY <1>2, <1>3, <1>6, <1>7, <1>9, LosesSorted
<1>11. ASSUME NEW j \in Keys, Hashed(c, j), InArray(c, j) PROVE InArray(d, j)
  <2>1. CASE j = k
    <3>1. EntriesOf(c, k) = {o}
      BY <1>4, <1>11, <2>1 DEF Hashed
    <3>2. o \notin EntriesOf(m, k)
      BY <1>3 DEF EntriesOf
    <3>3. EntriesOf(m, k) = {}
      BY <1>4, <1>7, <3>1, <3>2
    <3>4. OffsetsOf(c, c.sorted, k) = {o}
      BY <1>11, <2>1, <3>1 DEF InArray
    <3>5. OffsetsOf(m, L, k) = {}
      BY <1>4, <1>6, <1>7, <3>4
    <3> QED
      BY <1>4, <1>10, <2>1, <3>3, <3>5
  <2>2. CASE j # k
    <3>1. Moves(c, m, {k})
      BY <1>3, <1>5 DEF Loses
    <3>2. InArray(m, j)
      BY <1>11, <2>2, <3>1, KeptOk
    <3> QED
      BY <1>5, <1>9, <1>10, <2>2, <3>2
  <2> QED
    BY <2>1, <2>2
<1> QED
  BY <1>3, <1>10, <1>11 DEF KeepsArray

(* One round of eviction: every set of candidates loses one more, until    *)
(* the new entry fits or none is left.                                     *)
EvictStep(rs) ==
  UNION {IF Fits(r.c) \/ r.left = {} THEN {r}
         ELSE {[c |-> d[2], left |-> r.left \ {d[1]}] :
                 d \in UNION {{o} \X Dropped(r.c, o) : o \in r.left}}
         : r \in rs}

EvictAt(first, f, i) == IF i = 0 THEN first ELSE EvictStep(f[i - 1])

IsEviction(first, n, f) == f = [i \in 0..n |-> EvictAt(first, f, i)]

LEMMA EvictionExists ==
  ASSUME NEW first, NEW n \in Nat
  PROVE  \E f : IsEviction(first, n, f)
<1> DEFINE Bad == {k \in Nat : ~ \E f : IsEviction(first, k, f)}
<1>1. ASSUME Bad # {} PROVE FALSE
  <2> DEFINE k == Min(Bad)
  <2>1. k \in Bad /\ \A j \in Bad : k <= j
    BY <1>1, LeastNumber
  <2> HIDE DEF k
  <2>2. CASE k = 0
    <3> DEFINE g == [i \in 0..0 |-> first]
    <3>1. IsEviction(first, 0, g)
      BY DEF IsEviction, EvictAt
    <3> QED
      BY <2>1, <2>2, <3>1
  <2>3. CASE k # 0
    <3>1. k \in Nat /\ k - 1 \in Nat /\ k - 1 \notin Bad
      BY <2>1, <2>3
    <3>2. PICK f : IsEviction(first, k - 1, f)
      BY <3>1
    <3> DEFINE g == [i \in 0..k |-> IF i = k THEN EvictAt(first, f, k) ELSE f[i]]
    <3>3. \A i \in 0..(k - 1) : g[i] = f[i] /\ f[i] = EvictAt(first, f, i)
      BY <3>1, <3>2 DEF IsEviction
    <3>4. \A i \in 0..k : EvictAt(first, g, i) = EvictAt(first, f, i)
      <4> TAKE i \in 0..k
      <4>1. i # 0 => g[i - 1] = f[i - 1]
        BY <3>1, <3>3
      <4> QED
        BY <4>1 DEF EvictAt
    <3>5. \A i \in 0..k : g[i] = EvictAt(first, g, i)
      BY <3>1, <3>3, <3>4
    <3>6. g = [i \in 0..k |-> EvictAt(first, g, i)]
      BY <3>5
    <3>7. IsEviction(first, k, g)
      BY <3>6 DEF IsEviction
    <3> QED
      BY <2>1, <3>7
  <2> QED
    BY <2>2, <2>3
<1> QED
  BY <1>1

Evicting(c, r) ==
  /\ Loses(c, r.c) /\ r.c.sorted = c.sorted
  /\ r.left \subseteq Undeleted(r.c)

LEMMA EvictStepIs ==
  ASSUME NEW c, IsCache(c), NEW rs, \A r \in rs : Evicting(c, r), NEW q \in EvictStep(rs)
  PROVE  Evicting(c, q)
<1>1. PICK r \in rs : q \in IF Fits(r.c) \/ r.left = {} THEN {r}
                            ELSE {[c |-> d[2], left |-> r.left \ {d[1]}] :
                                    d \in UNION {{o} \X Dropped(r.c, o) : o \in r.left}}
  BY DEF EvictStep
<1>2. Evicting(c, r)
  OBVIOUS
<1>3. CASE q = r
  BY <1>2, <1>3
<1>4. CASE q \in {[c |-> d[2], left |-> r.left \ {d[1]}] : d \in UNION {{o} \X Dropped(r.c, o) : o \in r.left}}
  <2>1. PICK d \in UNION {{o} \X Dropped(r.c, o) : o \in r.left} : q = [c |-> d[2], left |-> r.left \ {d[1]}]
    BY <1>4
  <2>2. PICK o \in r.left : d \in {o} \X Dropped(r.c, o)
    OBVIOUS
  <2>3. d[1] = o /\ d[2] \in Dropped(r.c, o)
    BY <2>2
  <2>4. q.c = d[2] /\ q.left = r.left \ {o}
    BY <2>1, <2>3
  <2>5. IsCache(r.c) /\ Ordered(r.c, Linked(r.c)) /\ o \in Undeleted(r.c)
    BY <1>2, <2>2 DEF Evicting, Loses, Moves
  <2>6. Loses(r.c, q.c) /\ Undeleted(q.c) = Undeleted(r.c) \ {o} /\ q.c.sorted = r.c.sorted
    BY <2>3, <2>4, <2>5, DroppedIs
  <2>7. Loses(c, q.c)
    BY <1>2, <2>6, LosesThen DEF Evicting
  <2> QED
    BY <1>2, <2>4, <2>6, <2>7 DEF Evicting
<1> QED
  BY <1>1, <1>3, <1>4

(* Every place an eviction comes to.                                       *)
LEMMA EvictedSoFarIs ==
  ASSUME NEW c, IsCache(c), Ordered(c, Linked(c))
  PROVE  \A i \in 0..Len(c.pool) : \A q \in EvictedSoFar(c)[i] : Evicting(c, q)
<1> DEFINE n == Len(c.pool)
           room == Min({c.count, Cardinality(Undeleted(c))})
           first == {[c |-> c, left |-> C] : C \in {C \in SUBSET Undeleted(c) : Cardinality(C) = room}}
           rec == CHOOSE f : f = [i \in 0..n |-> EvictAt(first, f, i)]
<1>1. Loses(c, c)
  BY LosesNothing
<1>2. EvictedSoFar(c) = rec
  BY DEF EvictedSoFar, EvictAt, EvictStep
<1> HIDE DEF room
<1>3. \A i \in 0..n : \A q \in rec[i] : Evicting(c, q)
  <2>2. n \in Nat
    BY CacheFields
  <2>3. \A r2 \in first : Evicting(c, r2)
    BY <1>1 DEF Evicting
  <2> HIDE DEF first
  <2>4. IsEviction(first, n, rec)
    <3>1. \E f : IsEviction(first, n, f)
      BY <2>2, EvictionExists
    <3> QED
      BY <3>1 DEF IsEviction
  <2> HIDE DEF rec, n
  <2>5. rec = [i \in 0..n |-> EvictAt(first, rec, i)]
    BY <2>4 DEF IsEviction
  <2>6. \A i \in 0..n : rec[i] = EvictAt(first, rec, i)
    BY <2>5
  <2>7. \A i \in 0..n : \A q \in rec[i] : Evicting(c, q)
    <3> DEFINE Bad == {i \in 0..n : ~ \A q \in rec[i] : Evicting(c, q)}
    <3>1. ASSUME Bad # {} PROVE FALSE
      <4>1. Bad \in SUBSET Nat
        BY <2>2
      <4> DEFINE i == Min(Bad)
      <4>2. i \in Bad /\ \A j \in Bad : i <= j
        BY <3>1, <4>1, LeastNumber
      <4> HIDE DEF i
      <4>3. CASE i = 0
        <5>1. rec[i] = first
          BY <2>6, <4>2, <4>3 DEF EvictAt
        <5> QED
          BY <2>3, <4>2, <5>1
      <4>4. CASE i # 0
        <5>1. i \in 0..n /\ i - 1 \in 0..n /\ i - 1 \notin Bad
          BY <2>2, <4>2, <4>4
        <5>2. \A q \in rec[i - 1] : Evicting(c, q)
          BY <5>1
        <5>3. rec[i] = EvictStep(rec[i - 1])
          BY <2>6, <4>4, <5>1 DEF EvictAt
        <5>4. \A q \in rec[i] : Evicting(c, q)
          BY <5>2, <5>3, EvictStepIs
        <5> QED
          BY <4>2, <5>4
      <4> QED
        BY <4>3, <4>4
    <3> QED
      BY <3>1
  <2> QED
    BY <2>7
<1> HIDE DEF rec
<1> QED
  BY <1>2, <1>3

(* evict_lru.                                                              *)
LEMMA EvictedIs ==
  ASSUME NEW c, IsCache(c), Ordered(c, Linked(c)), NEW e \in Evicted(c)
  PROVE  Loses(c, e) /\ KeepsArray(c, e)
<1>1. Loses(c, c) /\ KeepsArray(c, c)
  BY LosesNothing DEF KeepsArray
<1>2. CASE Fits(c)
  <2>1. e = c
    BY <1>2 DEF Evicted
  <2> QED
    BY <1>1, <2>1
<1>3. CASE ~Fits(c)
  <2>1. PICK r \in EvictedSoFar(c)[Len(c.pool)] :
          e = [r.c EXCEPT !.sorted = IF r.c = c THEN @ ELSE @ \intersect Undeleted(r.c)]
    BY <1>3 DEF Evicted
  <2>2. Len(c.pool) \in 0..Len(c.pool)
    BY CacheFields
  <2>8. Evicting(c, r)
    BY <2>1, <2>2, EvictedSoFarIs
  <2> DEFINE d == r.c
             L == IF d = c THEN d.sorted ELSE d.sorted \intersect Undeleted(d)
  <2>9. IsCache(d) /\ Loses(c, d) /\ d.sorted = c.sorted
    BY <2>8 DEF Evicting, Loses, Moves
  <2>10. e = WithSorted(d, L)
    BY <2>1, <2>9 DEF WithSorted, IsCache, ACache
  <2>11. L \in SUBSET DOMAIN d.pool /\ L \subseteq d.sorted
    BY <2>9 DEF IsCache
  <2> HIDE DEF d
  <2>12. \A k \in Keys : InArray(d, k) => OffsetsOf(d, L, k) = EntriesOf(d, k)
    BY DEF InArray, OffsetsOf, EntriesOf
  <2>13. /\ DOMAIN d.pool = DOMAIN c.pool
         /\ \A k \in Keys : \A list \in SUBSET DOMAIN c.pool : OffsetsOf(d, list, k) = OffsetsOf(c, list, k)
         /\ \A k \in Keys : EntriesOf(d, k) \subseteq EntriesOf(c, k)
    BY <2>9, LosesKeys
  <2>14. /\ Loses(c, e)
         /\ \A k \in Keys : InArray(e, k) <=> OffsetsOf(d, L, k) = EntriesOf(d, k)
    BY <2>9, <2>10, <2>11, <2>12, LosesSorted
  <2>15. ASSUME NEW k \in Keys, InArray(c, k) PROVE InArray(e, k)
    <3>1. CASE d = c
      BY <2>12, <2>14, <2>15, <3>1
    <3>2. CASE d # c
      <4>1. OffsetsOf(c, c.sorted, k) = EntriesOf(c, k) /\ c.sorted \in SUBSET DOMAIN c.pool
        BY <2>15 DEF InArray, IsCache
      <4>2. OffsetsOf(d, d.sorted, k) = EntriesOf(c, k)
        BY <2>9, <2>13, <4>1
      <4>3. OffsetsOf(d, L, k) = EntriesOf(d, k)
        BY <2>13, <3>2, <4>2 DEF OffsetsOf, EntriesOf
      <4> QED
        BY <2>14, <4>3
    <3> QED
      BY <3>1, <3>2
  <2> QED
    BY <2>14, <2>15 DEF KeepsArray
<1> QED
  BY <1>2, <1>3

(* The entry that a store replaces.                                        *)
LEMMA ReplacedIs ==
  ASSUME NEW c, IsCache(c), Ordered(c, Linked(c)), NEW k \in Keys, NEW d \in Replaced(c, k)
  PROVE  /\ Loses(c, d) /\ KeepsArray(c, d)
         /\ Gone(c, d) \subseteq {k}
         /\ Hashed(c, k) => EntriesOf(d, k) = {}
<1> DEFINE o == HashLookup(c, k)
<1>1. \/ KeyNodes(c, Linked(c), k) = {} /\ o = 0
      \/ \E x \in KeyNodes(c, Linked(c), k) : o = c.nodes[x].entry
  BY LookupIs
<1>2. \A x \in KeyNodes(c, Linked(c), k) : c.nodes[x].entry \in DOMAIN c.pool /\ c.pool[c.nodes[x].entry].key = k
  BY CacheFields DEF KeyNodes, Linked, KeyAt
<1>3. 0 \notin DOMAIN c.pool
  BY CacheFields
<1> HIDE DEF o
<1>4. CASE o # 0 /\ o \in Undeleted(c)
  <2>1. d \in Removed(c, o)
    BY <1>4 DEF Replaced, o
  <2>2. Loses(c, d) /\ KeepsArray(c, d) /\ Undeleted(d) = Undeleted(c) \ {o}
    BY <1>4, <2>1, RemovedIs
  <2>3. c.pool[o].key = k
    BY <1>1, <1>2, <1>4
  <2>4. Gone(c, d) \subseteq {k}
    BY <2>2, <2>3 DEF Gone
  <2>5. Hashed(c, k) => EntriesOf(d, k) = {}
    <3>1. o \in EntriesOf(c, k)
      BY <1>4, <2>3 DEF EntriesOf
    <3>2. EntriesOf(d, k) \subseteq EntriesOf(c, k) /\ o \notin EntriesOf(d, k)
      BY <2>2, LosesKeys DEF EntriesOf
    <3> QED
      BY <3>1, <3>2 DEF Hashed
  <2> QED
    BY <2>2, <2>4, <2>5
<1>5. CASE ~(o # 0 /\ o \in Undeleted(c))
  <2>1. d = c
    BY <1>5 DEF Replaced, o
  <2>2. Loses(c, d) /\ KeepsArray(c, d) /\ Gone(c, d) \subseteq {k}
    BY <2>1, LosesNothing DEF KeepsArray, Gone
  <2>3. ASSUME Hashed(c, k) PROVE EntriesOf(c, k) = {}
    <3>1. CASE KeyNodes(c, Linked(c), k) = {}
      BY <2>3, <3>1 DEF Hashed
    <3>2. CASE KeyNodes(c, Linked(c), k) # {}
      <4>1. PICK x \in KeyNodes(c, Linked(c), k) : o = c.nodes[x].entry
        BY <1>1, <3>2
      <4>2. o \in EntriesOf(c, k)
        BY <2>3, <4>1 DEF Hashed
      <4>3. o \in Undeleted(c) /\ o \in DOMAIN c.pool
        BY <4>2 DEF EntriesOf, Undeleted
      <4> QED
        BY <1>3, <1>5, <4>3
    <3> QED
      BY <3>1, <3>2
  <2> QED
    BY <2>1, <2>2, <2>3
<1> QED
  BY <1>4, <1>5

-----------------------------------------------------------------------------
(* An entry comes.                                                         *)

NewEntry(c) == Len(c.pool) + 1

Written(c, k, count, mem) ==
  Dress(c, Append(c.pool, [key |-> k, deleted |-> FALSE]), c.sorted, c.names, count, mem)

Wrote(c, d, k, count) ==
  /\ Moves(c, d, {k}) /\ SameHash(c, d)
  /\ \A j \in Keys : KeyNodes(d, Linked(d), j) = KeyNodes(c, Linked(c), j)
  /\ NewEntry(c) \notin DOMAIN c.pool
  /\ Len(d.pool) = NewEntry(c) /\ DOMAIN d.pool = DOMAIN c.pool \union {NewEntry(c)}
  /\ Undeleted(d) = Undeleted(c) \union {NewEntry(c)}
  /\ \A o \in DOMAIN c.pool : d.pool[o].key = c.pool[o].key
  /\ d.pool[NewEntry(c)].key = k
  /\ d.sorted = c.sorted /\ d.names = c.names /\ d.count = count

LEMMA WrittenIs ==
  ASSUME NEW c, IsCache(c), Ordered(c, Linked(c)), NEW k \in Keys, NEW count \in Nat, NEW mem \in Nat
  PROVE  Wrote(c, Written(c, k, count, mem), k, count)
<1> DEFINE entry == [key |-> k, deleted |-> FALSE]
           pool == Append(c.pool, entry)
           d == Written(c, k, count, mem)
           o == NewEntry(c)
<1>1. /\ c.pool \in Seq(AnEntry) /\ Len(c.pool) \in Nat /\ DOMAIN c.pool = 1..Len(c.pool)
      /\ c.sorted \in SUBSET DOMAIN c.pool /\ c.names \in SUBSET DOMAIN c.pool
  BY CacheFields DEF IsCache
<1>2. entry \in AnEntry /\ entry.key = k /\ entry.deleted = FALSE
  BY DEF AnEntry
<1> HIDE DEF entry
<1>3. /\ pool \in Seq(AnEntry) /\ Len(pool) = o /\ DOMAIN pool = 1..o
      /\ \A p \in 1..Len(c.pool) : pool[p] = c.pool[p]
      /\ pool[o] = entry
  BY <1>1, <1>2, AppendProperties, LenProperties DEF NewEntry
<1>4. o \notin DOMAIN c.pool /\ DOMAIN pool = DOMAIN c.pool \union {o} /\ Len(c.pool) <= Len(pool)
  BY <1>1, <1>3 DEF NewEntry
<1>5. d = Dress(c, pool, c.sorted, c.names, count, mem)
  BY DEF Written, entry
<1> HIDE DEF d, pool
<1>6. c.sorted \in SUBSET DOMAIN pool /\ c.names \in SUBSET DOMAIN pool
  BY <1>1, <1>4
<1>7. /\ IsCache(d) /\ SameHash(c, d) /\ d.pool = pool /\ d.sorted = c.sorted /\ d.names = c.names
      /\ d.count = count
  BY <1>3, <1>4, <1>5, <1>6, DressIs
<1>8. \A p \in DOMAIN c.pool : d.pool[p] = c.pool[p]
  BY <1>1, <1>3, <1>7
<1>9. d.pool[o].key = k /\ d.pool[o].deleted = FALSE
  BY <1>2, <1>3, <1>7
<1>10. Undeleted(d) = Undeleted(c) \union {o}
  BY <1>4, <1>7, <1>8, <1>9 DEF Undeleted
<1>11. ASSUME NEW j \in Keys \ {k}
       PROVE  /\ EntriesOf(d, j) = EntriesOf(c, j)
              /\ OffsetsOf(d, d.names, j) = OffsetsOf(c, c.names, j)
              /\ OffsetsOf(d, d.sorted, j) = OffsetsOf(c, c.sorted, j)
  <2>1. Undeleted(c) \subseteq DOMAIN c.pool
    BY DEF Undeleted
  <2>2. EntriesOf(d, j) = EntriesOf(c, j)
    BY <1>8, <1>9, <1>10, <2>1 DEF EntriesOf
  <2>3. OffsetsOf(d, d.names, j) = OffsetsOf(c, c.names, j) /\ OffsetsOf(d, d.sorted, j) = OffsetsOf(c, c.sorted, j)
    BY <1>1, <1>7, <1>8 DEF OffsetsOf
  <2> QED
    BY <2>2, <2>3
<1>12. DOMAIN c.pool \subseteq DOMAIN d.pool /\ \A p \in DOMAIN c.pool : d.pool[p].key = c.pool[p].key
  BY <1>4, <1>7, <1>8
<1>13. Moves(c, d, {k}) /\ \A j \in Keys : KeyNodes(d, Linked(d), j) = KeyNodes(c, Linked(c), j)
  BY <1>7, <1>11, <1>12, MovesBeside
<1> QED
  BY <1>3, <1>4, <1>7, <1>9, <1>10, <1>12, <1>13 DEF d, Wrote

LEMMA CountMore ==
  ASSUME NEW c, IsCache(c), Len(c.pool) < PoolMax
  PROVE  Wrap(Cardinality(Undeleted(c)) + 1) = Cardinality(Undeleted(c) \union {NewEntry(c)})
<1>1. /\ IsFiniteSet(Undeleted(c)) /\ Cardinality(Undeleted(c)) \in 0..Len(c.pool) /\ Len(c.pool) \in Nat
      /\ NewEntry(c) \notin Undeleted(c)
  BY UndeletedIs, CacheFields DEF NewEntry
<1>2. Cardinality(Undeleted(c) \union {NewEntry(c)}) = Cardinality(Undeleted(c)) + 1
  BY <1>1, FS_AddElement
<1>3. PoolMax \in Nat /\ MaxMemory \in Nat /\ Word \in Nat /\ Word > MaxMemory + PoolMax
  BY PersistAssumption
<1>4. Cardinality(Undeleted(c)) + 1 \in 0..(Word - 1)
  BY <1>1, <1>3
<1> QED
  BY <1>2, <1>4, WrapIs

(* cache_set after the eviction and the removal.                           *)
LEMMA StoredIs ==
  ASSUME NEW c, IsCache(c), Ordered(c, Linked(c)), NEW k \in Keys
  PROVE  LET d == Stored(c, k)
         IN  /\ Moves(c, d, {k}) /\ Buckets(d.heads) # 0
             /\ Len(d.pool) = NewEntry(c) /\ NewEntry(c) \notin DOMAIN c.pool
             /\ Undeleted(d) = Undeleted(c) \union {NewEntry(c)}
             /\ EntriesOf(d, k) = EntriesOf(c, k) \union {NewEntry(c)}
             /\ EntriesOf(c, k) = {} =>
                  /\ Hashed(c, k) => Hashed(d, k)
                  /\ InArray(c, k) => InArray(d, k)
                  /\ Hashed(c, k) /\ Sized(c) /\ Len(c.pool) < PoolMax => Sized(d)
             /\ Counted(c) /\ Len(c.pool) < PoolMax => Counted(d)
<1> DEFINE o == NewEntry(c)
           d == Stored(c, k)
           count == Wrap(c.count + 1)
           mem == Wrap(c.mem + 1)
           a == Written(c, k, count, mem)
           h == HashInsert(a, k, o)
           L == h.sorted \union {o}
           N == IF c.tree THEN h.names \union {o} ELSE h.names
<1>1. c \in ACache /\ c.count \in Nat /\ c.mem \in Nat
  BY DEF IsCache, ACache
<1>2. a = [Appended(c, k) EXCEPT !.count = Wrap(@ + 1), !.mem = Wrap(@ + 1)]
  BY <1>1 DEF Written, Appended, Dress, ACache
<1>3. d = [h EXCEPT !.sorted = @ \union {o}, !.names = IF c.tree THEN @ \union {o} ELSE @]
  BY <1>2 DEF Stored, NewEntry
<1>4. count \in Nat /\ mem \in Nat
  BY <1>1, WrapIs
<1> HIDE DEF count, mem
<1>5. /\ Moves(c, a, {k}) /\ SameHash(c, a)
      /\ \A j \in Keys : KeyNodes(a, Linked(a), j) = KeyNodes(c, Linked(c), j)
      /\ o \notin DOMAIN c.pool
      /\ Len(a.pool) = o /\ DOMAIN a.pool = DOMAIN c.pool \union {o}
      /\ Undeleted(a) = Undeleted(c) \union {o}
      /\ \A p \in DOMAIN c.pool : a.pool[p].key = c.pool[p].key
      /\ a.pool[o].key = k
      /\ a.sorted = c.sorted /\ a.names = c.names /\ a.count = count
  <2>1. Wrote(c, a, k, count)
    BY <1>4, WrittenIs
  <2> HIDE DEF a
  <2> QED
    BY <2>1 DEF Wrote, o
<1>6. k \in Keys /\ o \in DOMAIN a.pool /\ a.pool[o].key = k
  BY <1>5
<1> HIDE DEF a, o
<1>7. IsCache(a) /\ Ordered(a, Linked(a))
  BY <1>5 DEF Moves
<1>8. /\ Moves(a, h, {k}) /\ SameButHash(a, h) /\ Buckets(h.heads) # 0
      /\ \/ /\ h.size = a.size
            /\ KeyNodes(h, Linked(h), k) = KeyNodes(a, Linked(a), k)
            /\ \E x \in KeyNodes(a, Linked(a), k) : h.nodes[x].entry = o
         \/ /\ h.size = Wrap(a.size + 1)
            /\ KeyNodes(a, Linked(a), k) = {}
            /\ KeyNodes(h, Linked(h), k) = {NewNode(a)}
            /\ h.nodes[NewNode(a)].entry = o
  <2>1. IndexedAs(a, h, k, o)
    BY <1>6, <1>7, InsertMoves
  <2> QED
    BY <2>1 DEF IndexedAs
<1> HIDE DEF h
<1>9. IsCache(h) /\ Ordered(h, Linked(h)) /\ h.pool = a.pool /\ h.sorted = c.sorted /\ h.names = c.names
      /\ h.count = a.count /\ h.tree = c.tree
  BY <1>5, <1>8 DEF Moves, SameButHash, SameHash
<1>10. /\ c.sorted \in SUBSET DOMAIN c.pool /\ c.names \in SUBSET DOMAIN c.pool
       /\ L = c.sorted \union {o} /\ N = IF c.tree THEN c.names \union {o} ELSE c.names
  BY <1>9 DEF IsCache
<1>11. L \in SUBSET DOMAIN h.pool /\ N \in SUBSET DOMAIN h.pool
  BY <1>5, <1>9, <1>10
<1>12. /\ IsCache(d) /\ SameHash(h, d) /\ d.pool = a.pool /\ d.sorted = L /\ d.names = N /\ d.count = a.count
  <2>1. h \in ACache /\ h.pool \in Seq(AnEntry) /\ h.count \in Nat /\ h.mem \in Nat
    BY <1>9 DEF IsCache, ACache
  <2>2. d = Dress(h, h.pool, L, N, h.count, h.mem)
    BY <1>3, <2>1 DEF Dress, ACache
  <2>3. Len(h.pool) <= Len(h.pool)
    BY <1>9, CacheFields
  <2> HIDE DEF d, L, N
  <2>4. IsCache(d) /\ SameHash(h, d) /\ d.pool = h.pool /\ d.sorted = L /\ d.names = N /\ d.count = h.count
    BY <1>9, <1>11, <2>1, <2>2, <2>3, DressIs, SMTT(30)
  <2> QED
    BY <1>9, <2>4
<1> HIDE DEF d, L, N
<1>13. Undeleted(d) = Undeleted(c) \union {o} /\ Undeleted(h) = Undeleted(d)
  BY <1>5, <1>9, <1>12 DEF Undeleted
<1>14. ASSUME NEW j \in Keys \ {k}
       PROVE  /\ EntriesOf(d, j) = EntriesOf(h, j)
              /\ OffsetsOf(d, d.names, j) = OffsetsOf(h, h.names, j)
              /\ OffsetsOf(h, h.sorted, j) = EntriesOf(h, j) => OffsetsOf(d, d.sorted, j) = EntriesOf(d, j)
  <2>1. EntriesOf(d, j) = EntriesOf(h, j)
    BY <1>9, <1>12, <1>13 DEF EntriesOf
  <2>2. OffsetsOf(d, d.names, j) = OffsetsOf(h, h.names, j)
    BY <1>5, <1>9, <1>10, <1>12 DEF OffsetsOf
  <2>3. OffsetsOf(d, d.sorted, j) = OffsetsOf(h, h.sorted, j)
    BY <1>5, <1>9, <1>10, <1>12 DEF OffsetsOf
  <2> QED
    BY <2>1, <2>2, <2>3
<1>15. /\ Moves(h, d, {k})
       /\ \A j \in Keys : KeyNodes(d, Linked(d), j) = KeyNodes(h, Linked(h), j)
  <2>1. DOMAIN h.pool \subseteq DOMAIN d.pool /\ \A p \in DOMAIN h.pool : d.pool[p].key = h.pool[p].key
    BY <1>9, <1>12
  <2> QED
    BY <1>9, <1>12, <1>14, <2>1, MovesBeside
<1>16. Moves(c, d, {k})
  <2>1. Moves(c, h, {k} \union {k})
    BY <1>5, <1>8, MovesThen
  <2>2. Moves(c, d, ({k} \union {k}) \union {k})
    BY <1>15, <2>1, MovesThen
  <2>3. ({k} \union {k}) \union {k} = {k}
    OBVIOUS
  <2> QED
    BY <2>2, <2>3
<1>17. EntriesOf(d, k) = EntriesOf(c, k) \union {o}
  <2>1. Undeleted(c) \subseteq DOMAIN c.pool
    BY DEF Undeleted
  <2> QED
    BY <1>5, <1>12, <1>13, <2>1 DEF EntriesOf
<1>18. ASSUME EntriesOf(c, k) = {}, Hashed(c, k) PROVE Hashed(d, k) /\ h.size = Wrap(c.size + 1)
  <2>1. KeyNodes(c, Linked(c), k) = {}
    BY <1>18 DEF Hashed
  <2>2. KeyNodes(a, Linked(a), k) = {}
    BY <1>5, <2>1
  <2>3. /\ h.size = Wrap(a.size + 1) /\ KeyNodes(h, Linked(h), k) = {NewNode(a)}
        /\ h.nodes[NewNode(a)].entry = o
    BY <1>8, <2>2
  <2>4. KeyNodes(d, Linked(d), k) = {NewNode(a)} /\ d.nodes[NewNode(a)].entry = o
    BY <1>12, <1>15, <2>3 DEF SameHash
  <2>5. EntriesOf(d, k) = {o}
    BY <1>17, <1>18
  <2>6. {d.nodes[n].entry : n \in KeyNodes(d, Linked(d), k)} = {o}
    BY <2>4
  <2>7. d.tree => OffsetsOf(d, d.names, k) = {o}
    <3>1. d.tree = c.tree
      BY <1>9, <1>12 DEF SameHash
    <3>2. c.tree => OffsetsOf(c, c.names, k) = {}
      BY <1>18 DEF Hashed
    <3> QED
      BY <1>5, <1>10, <1>12, <3>1, <3>2 DEF OffsetsOf
  <2>8. Hashed(d, k)
    BY <2>4, <2>5, <2>6, <2>7 DEF Hashed
  <2> QED
    BY <1>5, <2>3, <2>8 DEF SameHash
<1>19. ASSUME EntriesOf(c, k) = {}, InArray(c, k) PROVE InArray(d, k)
  <2>1. OffsetsOf(c, c.sorted, k) = {}
    BY <1>19 DEF InArray
  <2>2. OffsetsOf(d, d.sorted, k) = {o}
    BY <1>5, <1>10, <1>12, <2>1 DEF OffsetsOf
  <2> QED
    BY <1>17, <1>19, <2>2 DEF InArray
<1>20. ASSUME Len(c.pool) < PoolMax
       PROVE  /\ EntriesOf(c, k) = {} /\ Hashed(c, k) /\ Sized(c) => Sized(d)
              /\ Counted(c) => Counted(d)
  <2>1. EntriesOf(c, k) = {} /\ Hashed(c, k) => d.size = Wrap(c.size + 1)
    BY <1>12, <1>18 DEF SameHash
  <2>3. d.count = Wrap(c.count + 1)
    BY <1>5, <1>12 DEF count
  <2>2. Wrap(Cardinality(Undeleted(c)) + 1) = Cardinality(Undeleted(c) \union {o})
    BY <1>20, CountMore DEF o
  <2> QED
    BY <1>13, <2>1, <2>2, <2>3 DEF Counted, Sized
<1>21. Buckets(d.heads) # 0 /\ Len(d.pool) = o
  BY <1>5, <1>8, <1>12 DEF SameHash
<1> QED
  BY <1>5, <1>13, <1>16, <1>17, <1>18, <1>19, <1>20, <1>21 DEF d, o

-----------------------------------------------------------------------------
(* Sessions begin and end.                                                 *)

Boot(c, heads, size, sorted, tree, names, count) ==
  [c EXCEPT !.heads = heads, !.size = size, !.sorted = sorted, !.tree = tree, !.names = names,
            !.count = count, !.mem = 0]

LEMMA BootIs ==
  ASSUME NEW c, IsCache(c), NEW heads \in HeadArrays, \A b \in DOMAIN heads : heads[b] \in 0..Len(c.nodes),
         NEW size \in Nat, NEW sorted \in SUBSET DOMAIN c.pool, NEW tree \in BOOLEAN,
         NEW names \in SUBSET DOMAIN c.pool, NEW count \in Nat
  PROVE  LET d == Boot(c, heads, size, sorted, tree, names, count)
         IN  /\ IsCache(d) /\ SameKeys(c, d)
             /\ d.pool = c.pool /\ d.nodes = c.nodes /\ d.heads = heads /\ d.size = size
             /\ d.sorted = sorted /\ d.tree = tree /\ d.names = names /\ d.count = count
<1> DEFINE d == Boot(c, heads, size, sorted, tree, names, count)
<1>1. c \in ACache /\ DOMAIN c.pool \subseteq Nat
  BY CacheFields DEF IsCache
<1>2. sorted \in SUBSET Nat /\ names \in SUBSET Nat
  BY <1>1
<1>3. /\ d \in ACache
      /\ d.pool = c.pool /\ d.nodes = c.nodes /\ d.heads = heads /\ d.size = size
      /\ d.sorted = sorted /\ d.tree = tree /\ d.names = names /\ d.count = count
  BY <1>1, <1>2 DEF Boot, ACache
<1> HIDE DEF d
<1>4. IsCache(d)
  BY <1>3 DEF IsCache
<1>5. SameKeys(c, d)
  BY <1>3 DEF SameKeys, KeyAt, HashAt
<1> QED
  BY <1>3, <1>4, <1>5 DEF d

(* No process has the cache.                                               *)
IsOff(c) ==
  /\ IsCache(c) /\ c.heads = NoHeads(0) /\ c.size = 0 /\ c.sorted = {} /\ c.tree = FALSE /\ c.names = {}

LEMMA NoHeadsIs ==
  /\ NoHeads(0) \in HeadArrays /\ DOMAIN NoHeads(0) = {} /\ Buckets(NoHeads(0)) = 0
  /\ NoHeads(1) \in HeadArrays /\ Buckets(NoHeads(1)) = 1 /\ DOMAIN NoHeads(1) = {0} /\ NoHeads(1)[0] = 0
<1>1. NoHeads(0) \in [0..(0 - 1) -> Nat] /\ NoHeads(1) \in [0..(1 - 1) -> Nat]
  BY DEF NoHeads
<1>2. NoHeads(0) \in HeadArrays /\ NoHeads(1) \in HeadArrays
  BY <1>1 DEF HeadArrays
<1>3. DOMAIN NoHeads(0) = {} /\ DOMAIN NoHeads(1) = {0} /\ NoHeads(1)[0] = 0
  BY DEF NoHeads
<1>4. Buckets(NoHeads(0)) = 0 /\ Buckets(NoHeads(1)) = 1
  BY <1>3, FS_EmptySet, FS_Singleton DEF Buckets
<1> QED
  BY <1>2, <1>3, <1>4

LEMMA OffIs ==
  ASSUME NEW c, IsCache(c)
  PROVE  LET d == Off(c)
         IN  /\ IsOff(d) /\ SameKeys(c, d) /\ d.pool = c.pool /\ d.nodes = c.nodes
<1> DEFINE d == Off(c)
           h == NoHeads(0)
           no == FALSE
           none == {}
           zero == 0
<1>1. d = Boot(c, h, zero, none, no, none, zero)
  BY DEF Off, Boot
<1>2. h \in HeadArrays /\ \A b \in DOMAIN h : h[b] \in 0..Len(c.nodes)
  BY NoHeadsIs
<1>3. zero \in Nat /\ none \in SUBSET DOMAIN c.pool /\ no \in BOOLEAN
  OBVIOUS
<1> HIDE DEF d, h, zero, none, no
<1>4. /\ IsCache(d) /\ SameKeys(c, d)
      /\ d.pool = c.pool /\ d.nodes = c.nodes /\ d.heads = h /\ d.size = zero
      /\ d.sorted = none /\ d.tree = no /\ d.names = none /\ d.count = zero
  BY <1>1, <1>2, <1>3, BootIs
<1> QED
  BY <1>4 DEF IsOff, d, h, zero, none, no

LEMMA IsOffOrdered ==
  ASSUME NEW c, IsOff(c)
  PROVE  Ordered(c, Linked(c)) /\ Linked(c) = {} /\ Buckets(c.heads) = 0
<1>1. DOMAIN c.heads = {} /\ Buckets(c.heads) = 0
  BY NoHeadsIs DEF IsOff
<1>2. Linked(c) = {}
  BY <1>1 DEF Linked
<1> QED
  BY <1>1, <1>2 DEF Ordered, Closed

OneEntry(c, k) == \A o, p \in EntriesOf(c, k) : o = p

(* The rebuild has come to the entry j.                                    *)
RebuiltTo(c, d, j) ==
  /\ IsCache(d) /\ Ordered(d, Linked(d)) /\ SameButHash(c, d)
  /\ Buckets(d.heads) = 0 => Undeleted(c) \intersect (1..j) = {}
  /\ \A k \in Keys : OneEntry(c, k) =>
       /\ \A n, m \in KeyNodes(d, Linked(d), k) : n = m
       /\ {d.nodes[n].entry : n \in KeyNodes(d, Linked(d), k)} = EntriesOf(c, k) \intersect (1..j)
  /\ (\A k \in Keys : OneEntry(c, k)) => d.size = Cardinality(Undeleted(c) \intersect (1..j))

RebuildAt(c, f, j) ==
  IF j = 0 THEN c
  ELSE IF j \in Undeleted(c) THEN HashInsert(f[j - 1], c.pool[j].key, j) ELSE f[j - 1]

IsRebuild(c, n, f) == f = [j \in 0..n |-> RebuildAt(c, f, j)]

LEMMA RebuildExists ==
  ASSUME NEW c, NEW n \in Nat
  PROVE  \E f : IsRebuild(c, n, f)
<1> DEFINE Bad == {k \in Nat : ~ \E f : IsRebuild(c, k, f)}
<1>1. ASSUME Bad # {} PROVE FALSE
  <2> DEFINE k == Min(Bad)
  <2>1. k \in Bad /\ \A j \in Bad : k <= j
    BY <1>1, LeastNumber
  <2> HIDE DEF k
  <2>2. CASE k = 0
    <3> DEFINE g == [i \in 0..0 |-> c]
    <3>1. IsRebuild(c, 0, g)
      BY DEF IsRebuild, RebuildAt
    <3> QED
      BY <2>1, <2>2, <3>1
  <2>3. CASE k # 0
    <3>1. k \in Nat /\ k - 1 \in Nat /\ k - 1 \notin Bad
      BY <2>1, <2>3
    <3>2. PICK f : IsRebuild(c, k - 1, f)
      BY <3>1
    <3> DEFINE g == [i \in 0..k |-> IF i = k THEN RebuildAt(c, f, k) ELSE f[i]]
    <3>3. \A i \in 0..(k - 1) : g[i] = f[i] /\ f[i] = RebuildAt(c, f, i)
      BY <3>1, <3>2 DEF IsRebuild
    <3>4. \A i \in 0..k : RebuildAt(c, g, i) = RebuildAt(c, f, i)
      <4> TAKE i \in 0..k
      <4>1. i # 0 => g[i - 1] = f[i - 1]
        BY <3>1, <3>3
      <4> QED
        BY <4>1 DEF RebuildAt
    <3>5. \A i \in 0..k : g[i] = RebuildAt(c, g, i)
      BY <3>1, <3>3, <3>4
    <3>6. g = [i \in 0..k |-> RebuildAt(c, g, i)]
      BY <3>5
    <3>7. IsRebuild(c, k, g)
      BY <3>6 DEF IsRebuild
    <3> QED
      BY <2>1, <3>7
  <2> QED
    BY <2>2, <2>3
<1> QED
  BY <1>1

LEMMA RebuildSkips ==
  ASSUME NEW c, NEW d, NEW j \in Nat \ {0}, RebuiltTo(c, d, j - 1), j \notin Undeleted(c)
  PROVE  RebuiltTo(c, d, j)
<1>1. Undeleted(c) \intersect (1..j) = Undeleted(c) \intersect (1..(j - 1))
  OBVIOUS
<1>2. \A k : EntriesOf(c, k) \intersect (1..j) = EntriesOf(c, k) \intersect (1..(j - 1))
  BY DEF EntriesOf
<1> QED
  BY <1>1, <1>2 DEF RebuiltTo

LEMMA RebuildTakes ==
  ASSUME NEW c, IsCache(c), Len(c.pool) <= PoolMax, NEW d, NEW j \in Nat \ {0}, RebuiltTo(c, d, j - 1),
         j \in Undeleted(c)
  PROVE  RebuiltTo(c, HashInsert(d, c.pool[j].key, j), j)
<1> DEFINE k == c.pool[j].key
           e == HashInsert(d, k, j)
<1>1. IsCache(d) /\ Ordered(d, Linked(d)) /\ SameButHash(c, d) /\ d.pool = c.pool
  BY DEF RebuiltTo, SameButHash
<1>2. k \in Keys /\ j \in DOMAIN d.pool /\ d.pool[j].key = k /\ j \in EntriesOf(c, k)
  BY <1>1, UndeletedIs DEF EntriesOf
<1> HIDE DEF k
<1>3. /\ Moves(d, e, {k}) /\ SameButHash(d, e) /\ Buckets(e.heads) # 0
      /\ \/ /\ e.size = d.size
            /\ KeyNodes(e, Linked(e), k) = KeyNodes(d, Linked(d), k)
            /\ \E x \in KeyNodes(d, Linked(d), k) : e.nodes[x].entry = j
         \/ /\ e.size = Wrap(d.size + 1)
            /\ KeyNodes(d, Linked(d), k) = {}
            /\ KeyNodes(e, Linked(e), k) = {NewNode(d)}
            /\ e.nodes[NewNode(d)].entry = j
  <2>1. IndexedAs(d, e, k, j)
    BY <1>1, <1>2, InsertMoves
  <2> HIDE DEF e
  <2> QED
    BY <2>1 DEF IndexedAs
<1> HIDE DEF e
<1>4. IsCache(e) /\ Ordered(e, Linked(e)) /\ SameButHash(c, e)
  BY <1>1, <1>3 DEF Moves, SameButHash
<1>5. ASSUME OneEntry(c, k)
      PROVE  /\ e.size = Wrap(d.size + 1)
             /\ KeyNodes(e, Linked(e), k) = {NewNode(d)}
             /\ e.nodes[NewNode(d)].entry = j
             /\ EntriesOf(c, k) = {j}
  <2>1. EntriesOf(c, k) = {j}
    BY <1>2, <1>5 DEF OneEntry
  <2>2. EntriesOf(c, k) \intersect (1..(j - 1)) = {}
    BY <2>1
  <2>3. {d.nodes[n].entry : n \in KeyNodes(d, Linked(d), k)} = {}
    BY <1>2, <1>5, <2>2 DEF RebuiltTo
  <2>4. KeyNodes(d, Linked(d), k) = {}
    BY <2>3
  <2> QED
    BY <1>3, <2>1, <2>4
<1>6. ASSUME NEW i \in Keys, OneEntry(c, i)
      PROVE  /\ \A n, m \in KeyNodes(e, Linked(e), i) : n = m
             /\ {e.nodes[n].entry : n \in KeyNodes(e, Linked(e), i)} = EntriesOf(c, i) \intersect (1..j)
  <2>1. CASE i = k
    <3>1. EntriesOf(c, i) \intersect (1..j) = {j}
      BY <1>5, <1>6, <2>1
    <3>2. {e.nodes[n].entry : n \in KeyNodes(e, Linked(e), i)} = {j}
      BY <1>5, <1>6, <2>1
    <3>3. \A n, m \in KeyNodes(e, Linked(e), i) : n = m
      BY <1>5, <1>6, <2>1
    <3> QED
      BY <3>1, <3>2, <3>3
  <2>2. CASE i # k
    <3>1. KeptFor(d, e, i)
      BY <1>3, <2>2 DEF Moves
    <3>2. KeyNodes(e, Linked(e), i) = KeyNodes(d, Linked(d), i)
      BY <3>1 DEF KeptFor
    <3>3. \A n \in KeyNodes(d, Linked(d), i) : e.nodes[n].entry = d.nodes[n].entry
      BY <3>1 DEF KeptFor, KeyNodes, Linked
    <3>4. {e.nodes[n].entry : n \in KeyNodes(e, Linked(e), i)} = {d.nodes[n].entry : n \in KeyNodes(d, Linked(d), i)}
      BY <3>2, <3>3
    <3>5. j \notin EntriesOf(c, i)
      BY <2>2 DEF EntriesOf, k
    <3>6. EntriesOf(c, i) \intersect (1..j) = EntriesOf(c, i) \intersect (1..(j - 1))
      BY <3>5
    <3> QED
      BY <1>6, <3>2, <3>4, <3>6 DEF RebuiltTo
  <2> QED
    BY <2>1, <2>2
<1>7. ASSUME \A i \in Keys : OneEntry(c, i)
      PROVE  e.size = Cardinality(Undeleted(c) \intersect (1..j))
  <2> DEFINE A == Undeleted(c) \intersect (1..(j - 1))
             B == Undeleted(c) \intersect (1..j)
  <2>1. B = A \union {j} /\ j \notin A /\ B \subseteq Undeleted(c)
    OBVIOUS
  <2>2. d.size = Cardinality(A)
    BY <1>7 DEF RebuiltTo
  <2> HIDE DEF A, B
  <2>3. IsFiniteSet(Undeleted(c)) /\ Cardinality(Undeleted(c)) \in 0..Len(c.pool) /\ Len(c.pool) \in Nat
    BY UndeletedIs, CacheFields
  <2>4. IsFiniteSet(B) /\ Cardinality(B) <= Cardinality(Undeleted(c))
    BY <2>1, <2>3, FS_Subset
  <2>5. A \subseteq B
    BY <2>1
  <2>6. IsFiniteSet(A)
    BY <2>4, <2>5, FS_Subset
  <2>7. Cardinality(B) = Cardinality(A) + 1
    BY <2>1, <2>6, FS_AddElement
  <2>8. Cardinality(B) \in Nat
    BY <2>4, FS_CardinalityType
  <2>9. PoolMax \in Nat /\ MaxMemory \in Nat /\ Word \in Nat /\ Word > MaxMemory + PoolMax
    BY PersistAssumption
  <2>10. Cardinality(A) + 1 \in 0..(Word - 1)
    BY <2>3, <2>4, <2>7, <2>8, <2>9
  <2>11. e.size = Cardinality(B)
    BY <1>2, <1>5, <1>7, <2>2, <2>7, <2>10, WrapIs
  <2> QED
    BY <2>11 DEF B
<1> QED
  BY <1>3, <1>4, <1>6, <1>7 DEF RebuiltTo, e, k

(* cache_open without index.bin.                                           *)
RebuiltOk(c, d) ==
  /\ IsCache(d) /\ Ordered(d, Linked(d)) /\ d.pool = c.pool
  /\ \A k \in Keys : InArray(d, k) /\ (OneEntry(c, k) => Hashed(d, k))
  /\ (\A k \in Keys : OneEntry(c, k)) => Sized(d)
  /\ Counted(d)
  /\ Buckets(d.heads) = 0 => NothingToSave(d)

LEMMA RebuiltIs ==
  ASSUME NEW c, IsOff(c), Len(c.pool) <= PoolMax
  PROVE  RebuiltOk(c, Rebuilt(c))
<1> DEFINE n == Len(c.pool)
           rec == CHOOSE f : f = [j \in 0..n |-> RebuildAt(c, f, j)]
           d == Rebuilt(c)
           U == Undeleted(c)
           q == Cardinality(U)
           r == rec[n]
<1>1. d = [r EXCEPT !.sorted = U, !.tree = FALSE, !.names = {}, !.count = q, !.mem = q]
  BY DEF Rebuilt, RebuildAt
<1>2. IsCache(c) /\ c.tree = FALSE /\ c.size = 0 /\ n \in Nat /\ DOMAIN c.pool = 1..n
  BY CacheFields DEF IsOff
<1>3. U \subseteq 1..n /\ q \in Nat
  BY <1>2, UndeletedIs
<1>4. IsRebuild(c, n, rec)
  <2>1. \E f : IsRebuild(c, n, f)
    BY <1>2, RebuildExists
  <2> HIDE DEF n
  <2> QED
    BY <2>1 DEF IsRebuild
<1> HIDE DEF rec
<1>5. \A j \in 0..n : rec[j] = RebuildAt(c, rec, j)
  <2>1. rec = [j \in 0..n |-> RebuildAt(c, rec, j)]
    BY <1>4 DEF IsRebuild
  <2> QED
    BY <2>1
<1>6. RebuiltTo(c, c, 0)
  <2>1. Ordered(c, Linked(c)) /\ Linked(c) = {} /\ Buckets(c.heads) = 0
    BY IsOffOrdered
  <2>2. 1..0 = {}
    OBVIOUS
  <2>3. \A k \in Keys : KeyNodes(c, Linked(c), k) = {} /\ EntriesOf(c, k) \intersect (1..0) = {}
    BY <2>1, <2>2 DEF KeyNodes
  <2>4. Cardinality(Undeleted(c) \intersect (1..0)) = 0 /\ Undeleted(c) \intersect (1..0) = {}
    BY <2>2, FS_EmptySet
  <2>5. SameButHash(c, c)
    BY DEF SameButHash
  <2> QED
    BY <1>2, <2>1, <2>3, <2>4, <2>5 DEF RebuiltTo
<1>7. \A j \in 0..n : RebuiltTo(c, rec[j], j)
  <2> DEFINE Bad == {j \in 0..n : ~ RebuiltTo(c, rec[j], j)}
  <2>1. ASSUME Bad # {} PROVE FALSE
    <3>1. Bad \in SUBSET Nat
      BY <1>2
    <3> DEFINE j == Min(Bad)
    <3>2. j \in Bad /\ \A i \in Bad : j <= i
      BY <2>1, <3>1, LeastNumber
    <3> HIDE DEF j
    <3>3. CASE j = 0
      BY <1>5, <1>6, <3>2, <3>3 DEF RebuildAt
    <3>4. CASE j # 0
      <4>1. j \in 0..n /\ j \in Nat \ {0} /\ j - 1 \in 0..n /\ j - 1 \notin Bad
        BY <1>2, <3>2, <3>4
      <4>2. RebuiltTo(c, rec[j - 1], j - 1)
        BY <4>1
      <4>3. rec[j] = IF j \in Undeleted(c) THEN HashInsert(rec[j - 1], c.pool[j].key, j) ELSE rec[j - 1]
        BY <1>5, <3>4, <4>1 DEF RebuildAt
      <4>4. CASE j \in Undeleted(c)
        <5>1. RebuiltTo(c, HashInsert(rec[j - 1], c.pool[j].key, j), j)
          BY <1>2, <4>1, <4>2, <4>4, RebuildTakes
        <5> QED
          BY <3>2, <4>3, <4>4, <5>1
      <4>5. CASE j \notin Undeleted(c)
        <5>1. RebuiltTo(c, rec[j - 1], j)
          BY <4>1, <4>2, <4>5, RebuildSkips
        <5> QED
          BY <3>2, <4>3, <4>5, <5>1
      <4> QED
        BY <4>4, <4>5
    <3> QED
      BY <3>3, <3>4
  <2> QED
    BY <2>1
<1>8. RebuiltTo(c, r, n)
  BY <1>2, <1>7
<1> HIDE DEF r, d
<1>9. IsCache(r) /\ Ordered(r, Linked(r)) /\ SameButHash(c, r) /\ r.pool = c.pool /\ r.tree = FALSE
  BY <1>2, <1>8 DEF RebuiltTo, SameButHash
<1>10. U \intersect (1..n) = U /\ \A k : EntriesOf(c, k) \intersect (1..n) = EntriesOf(c, k)
  BY <1>3 DEF EntriesOf
<1>11. /\ IsCache(d) /\ SameHash(r, d) /\ d.pool = r.pool /\ d.sorted = U /\ d.names = {} /\ d.count = q
  <2> DEFINE none == {}
  <2>1. r \in ACache /\ r.pool \in Seq(AnEntry) /\ Len(r.pool) <= Len(r.pool)
    BY <1>9, CacheFields DEF IsCache, ACache
  <2>2. d = Dress(r, r.pool, U, none, q, q)
    BY <1>1, <1>9, <2>1 DEF Dress, ACache
  <2>3. U \in SUBSET DOMAIN r.pool /\ none \in SUBSET DOMAIN r.pool
    BY <1>2, <1>3, <1>9
  <2> HIDE DEF none, U, q
  <2>4. IsCache(d) /\ SameHash(r, d) /\ d.pool = r.pool /\ d.sorted = U /\ d.names = none /\ d.count = q
    BY <1>3, <1>9, <2>1, <2>2, <2>3, DressIs
  <2> QED
    BY <2>4 DEF none
<1>12. Undeleted(d) = U /\ Undeleted(r) = U /\ d.pool = c.pool /\ d.tree = FALSE
  BY <1>9, <1>11 DEF Undeleted, SameHash
<1>13. \A k : EntriesOf(d, k) = EntriesOf(c, k) /\ EntriesOf(r, k) = EntriesOf(c, k)
  BY <1>9, <1>12 DEF EntriesOf
<1>14. \A k \in Keys : InArray(d, k)
  BY <1>11, <1>13, <1>12 DEF InArray, OffsetsOf, EntriesOf
<1>15. /\ Ordered(d, Linked(d))
       /\ \A k \in Keys : KeyNodes(d, Linked(d), k) = KeyNodes(r, Linked(r), k)
  <2>1. \A k \in Keys \ Keys : /\ EntriesOf(d, k) = EntriesOf(r, k)
                               /\ OffsetsOf(d, d.names, k) = OffsetsOf(r, r.names, k)
                               /\ OffsetsOf(r, r.sorted, k) = EntriesOf(r, k) => OffsetsOf(d, d.sorted, k) = EntriesOf(d, k)
    OBVIOUS
  <2>2. DOMAIN r.pool \subseteq DOMAIN d.pool /\ \A o \in DOMAIN r.pool : d.pool[o].key = r.pool[o].key
    BY <1>11
  <2>3. Moves(r, d, Keys) /\ \A k \in Keys : KeyNodes(d, Linked(d), k) = KeyNodes(r, Linked(r), k)
    BY <1>9, <1>11, <2>1, <2>2, MovesBeside
  <2> QED
    BY <2>3 DEF Moves
<1>16. ASSUME NEW k \in Keys, OneEntry(c, k) PROVE Hashed(d, k)
  <2>1. /\ \A x, y \in KeyNodes(r, Linked(r), k) : x = y
        /\ {r.nodes[x].entry : x \in KeyNodes(r, Linked(r), k)} = EntriesOf(c, k) \intersect (1..n)
    BY <1>8, <1>16 DEF RebuiltTo
  <2>2. \A x \in KeyNodes(r, Linked(r), k) : d.nodes[x].entry = r.nodes[x].entry
    BY <1>11 DEF SameHash
  <2>3. {d.nodes[x].entry : x \in KeyNodes(d, Linked(d), k)} = EntriesOf(d, k)
    BY <1>10, <1>13, <1>15, <2>1, <2>2
  <2> QED
    BY <1>12, <1>13, <1>15, <1>16, <2>1, <2>3 DEF Hashed, OneEntry
<1>17. ((\A k \in Keys : OneEntry(c, k)) => Sized(d)) /\ Counted(d)
  <2>1. (\A k \in Keys : OneEntry(c, k)) => r.size = Cardinality(U \intersect (1..n))
    BY <1>8 DEF RebuiltTo
  <2>2. Counted(d)
    BY <1>11, <1>12 DEF Counted
  <2> QED
    BY <1>10, <1>11, <1>12, <2>1, <2>2 DEF Sized, SameHash
<1>18. ASSUME Buckets(d.heads) = 0 PROVE NothingToSave(d)
  <2>1. Buckets(r.heads) = 0
    BY <1>11, <1>18 DEF SameHash
  <2>2. U = {}
    BY <1>8, <1>10, <2>1 DEF RebuiltTo
  <2> QED
    BY <1>11, <1>12, <1>18, <2>2 DEF NothingToSave
<1> QED
  BY <1>11, <1>12, <1>14, <1>15, <1>16, <1>17, <1>18 DEF RebuiltOk, d

-----------------------------------------------------------------------------
(* What holds of the cache and of index.bin between the calls.             *)

HeadsOf(i) == IF i.saved THEN i.hash.heads ELSE NoHeads(1)

(* A session that starts from index.bin finds the entry of the key.        *)
SavedFor(c, i, T, k) ==
  /\ \A n, m \in KeyNodes(c, T, k) : n = m
  /\ {c.nodes[n].entry : n \in KeyNodes(c, T, k)} = EntriesOf(c, k)
  /\ \A m \in KeyNodes(c, T, k) : Unjumped(c, HeadsOf(i), T, m)
  /\ OffsetsOf(c, i.sorted, k) = EntriesOf(c, k)
  /\ i.ns.tree => OffsetsOf(c, i.ns.names, k) = EntriesOf(c, k)

(* The array of buckets in index.bin leads to no wrong node, and to the    *)
(* right ones for every key outside D.                                     *)
WalksOk(c, i, D) ==
  \E T : /\ Closed(c, HeadsOf(i), T)
         /\ i.saved => \A k \in Keys \ D : SavedFor(c, i, T, k)

AnIndex(i, c) ==
  /\ i.saved \in BOOLEAN
  /\ i.saved => /\ i.hash.heads \in HeadArrays /\ Buckets(i.hash.heads) # 0 /\ i.hash.size \in Nat
                /\ i.sorted \subseteq DOMAIN c.pool
                /\ i.ns.tree \in BOOLEAN /\ i.ns.names \subseteq DOMAIN c.pool

(* In memory everything agrees about the keys outside L.                   *)
Fine(c, L) ==
  /\ \A k \in Keys \ L : Hashed(c, k) /\ InArray(c, k)
  /\ L = {} => Sized(c)

LatestOk(c, lst, L) ==
  /\ lst \in [Keys -> Nat]
  /\ \A k \in Keys : lst[k] # 0 => lst[k] \in DOMAIN c.pool /\ c.pool[lst[k]].key = k
  /\ \A k \in Keys \ L : EntriesOf(c, k) \subseteq {lst[k]}

(* Changed keys are given up, all of them when the array has grown.        *)
LEMMA WalksMove ==
  ASSUME NEW c, IsCache(c), NEW d, NEW K, Moves(c, d, K), NEW i, AnIndex(i, c), NEW D, WalksOk(c, i, D),
         Older(HeadsOf(i), c.heads), NEW E, D \subseteq E,
         IF Buckets(d.heads) = Buckets(c.heads) THEN K \subseteq E ELSE Keys \subseteq E
  PROVE  WalksOk(d, i, E) /\ Older(HeadsOf(i), d.heads) /\ AnIndex(i, d)
<1> DEFINE heads == HeadsOf(i)
<1>1. PICK T : /\ Closed(c, heads, T)
               /\ i.saved => \A k \in Keys \ D : SavedFor(c, i, T, k)
  BY DEF WalksOk
<1>2. Older(heads, c.heads) /\ WalksKept(c, d, K)
  BY DEF Moves
<1> HIDE DEF heads
<1>3. PICK U : /\ Closed(d, heads, U) /\ Older(heads, d.heads)
               /\ Buckets(d.heads) = Buckets(c.heads) =>
                    \A k \in Keys \ K :
                      /\ KeyNodes(d, U, k) = KeyNodes(c, T, k)
                      /\ \A m \in KeyNodes(c, T, k) : Unjumped(c, heads, T, m) => Unjumped(d, heads, U, m)
  BY <1>1, <1>2 DEF WalksKept
<1>4. DOMAIN c.pool \subseteq DOMAIN d.pool /\ \A o \in DOMAIN c.pool : d.pool[o].key = c.pool[o].key
  BY DEF Moves
<1>5. ASSUME NEW list \in SUBSET DOMAIN c.pool, NEW k PROVE OffsetsOf(d, list, k) = OffsetsOf(c, list, k)
  BY <1>4 DEF OffsetsOf
<1>6. AnIndex(i, d)
  BY <1>4 DEF AnIndex
<1>7. ASSUME i.saved, NEW k \in Keys \ E PROVE SavedFor(d, i, U, k)
  <2>1. Buckets(d.heads) = Buckets(c.heads) /\ k \in Keys \ K /\ k \in Keys \ D
    BY <1>7
  <2>2. SavedFor(c, i, T, k) /\ KeptFor(c, d, k)
    BY <1>1, <1>7, <2>1 DEF Moves
  <2>3. KeyNodes(d, U, k) = KeyNodes(c, T, k)
    BY <1>3, <2>1
  <2>4. \A m \in KeyNodes(c, T, k) : Unjumped(d, heads, U, m)
    BY <1>3, <2>1, <2>2 DEF SavedFor, heads
  <2>5. \A n \in KeyNodes(c, T, k) : d.nodes[n].entry = c.nodes[n].entry
    <3>1. T \subseteq DOMAIN c.nodes
      BY <1>1 DEF Closed
    <3> QED
      BY <2>2, <3>1 DEF KeptFor, KeyNodes
  <2>6. {d.nodes[n].entry : n \in KeyNodes(d, U, k)} = {c.nodes[n].entry : n \in KeyNodes(c, T, k)}
    BY <2>3, <2>5
  <2>7. EntriesOf(d, k) = EntriesOf(c, k)
    BY <2>2 DEF KeptFor
  <2>8. /\ OffsetsOf(d, i.sorted, k) = OffsetsOf(c, i.sorted, k)
        /\ OffsetsOf(d, i.ns.names, k) = OffsetsOf(c, i.ns.names, k)
    BY <1>5, <1>7 DEF AnIndex
  <2> QED
    BY <2>2, <2>3, <2>4, <2>6, <2>7, <2>8 DEF SavedFor, heads
<1> QED
  BY <1>3, <1>6, <1>7 DEF WalksOk, heads

(* Only nodes and entries matter.                                          *)
LEMMA WalksStay ==
  ASSUME NEW c, NEW d, d.nodes = c.nodes, d.pool = c.pool, NEW i, NEW D, WalksOk(c, i, D), NEW E, D \subseteq E
  PROVE  WalksOk(d, i, E)
<1>1. PICK T : /\ Closed(c, HeadsOf(i), T)
               /\ i.saved => \A k \in Keys \ D : SavedFor(c, i, T, k)
  BY DEF WalksOk
<1>2. SameKeys(c, d) /\ T \subseteq DOMAIN c.nodes
  BY <1>1 DEF SameKeys, KeyAt, HashAt, Closed
<1>3. Closed(d, HeadsOf(i), T) /\ \A m \in T : Unjumped(c, HeadsOf(i), T, m) => Unjumped(d, HeadsOf(i), T, m)
  BY <1>1, <1>2, SameLinks
<1>4. ASSUME NEW k PROVE /\ KeyNodes(d, T, k) = KeyNodes(c, T, k) /\ KeyNodes(c, T, k) \subseteq T
                         /\ EntriesOf(d, k) = EntriesOf(c, k)
                         /\ \A list : OffsetsOf(d, list, k) = OffsetsOf(c, list, k)
  BY DEF KeyNodes, KeyAt, EntriesOf, Undeleted, OffsetsOf
<1>5. ASSUME i.saved, NEW k \in Keys \ E PROVE SavedFor(d, i, T, k)
  <2>1. SavedFor(c, i, T, k)
    BY <1>1, <1>5
  <2>2. {d.nodes[n].entry : n \in KeyNodes(d, T, k)} = {c.nodes[n].entry : n \in KeyNodes(c, T, k)}
    BY <1>4
  <2> QED
    BY <1>3, <1>4, <2>1, <2>2 DEF SavedFor
<1> QED
  BY <1>3, <1>5 DEF WalksOk

(* index.bin is written.                                                   *)
LEMMA WalksSaved ==
  ASSUME NEW c, IsCache(c), Ordered(c, Linked(c)), Buckets(c.heads) # 0, NEW L, Fine(c, L)
  PROVE  /\ WalksOk(c, Image(c), L) /\ AnIndex(Image(c), c)
         /\ HeadsOf(Image(c)) = c.heads /\ Older(c.heads, c.heads)
<1> DEFINE i == Image(c)
<1>1. /\ i.saved = TRUE /\ i.hash.heads = c.heads /\ i.hash.size = c.size /\ i.sorted = c.sorted
      /\ i.ns.tree = c.tree /\ i.ns.names = c.names
  BY DEF Image, WriteHashIndex, WriteNsIndex
<1> HIDE DEF i
<1>2. HeadsOf(i) = c.heads
  BY <1>1 DEF HeadsOf
<1>3. AnIndex(i, c)
  BY <1>1 DEF AnIndex, IsCache, ACache
<1>4. ASSUME NEW k \in Keys \ L PROVE SavedFor(c, i, Linked(c), k)
  <2>1. Hashed(c, k) /\ InArray(c, k)
    BY DEF Fine
  <2>2. \A m \in KeyNodes(c, Linked(c), k) : Unjumped(c, c.heads, Linked(c), m)
    BY DEF Ordered, KeyNodes
  <2> QED
    BY <1>1, <1>2, <2>1, <2>2 DEF Hashed, InArray, SavedFor
<1>5. Closed(c, HeadsOf(i), Linked(c))
  BY <1>2 DEF Ordered
<1>6. Older(c.heads, c.heads)
  BY DEF Older, Splits
<1> QED
  BY <1>2, <1>3, <1>4, <1>5, <1>6 DEF WalksOk, i

(* cache_open with index.bin.                                              *)
LEMMA LoadedIs ==
  ASSUME NEW c, IsCache(c), NEW i, i.saved, AnIndex(i, c), NEW D, WalksOk(c, i, D), NEW h \in Nat,
         D = {} => i.hash.size = Cardinality(Undeleted(c))
  PROVE  LET d == Boot(c, i.hash.heads, i.hash.size, i.sorted, i.ns.tree, i.ns.names, h)
         IN  /\ IsCache(d) /\ Ordered(d, Linked(d)) /\ Fine(d, D)
             /\ d.pool = c.pool /\ d.nodes = c.nodes /\ d.heads = i.hash.heads /\ d.count = h
<1> DEFINE heads == i.hash.heads
           size == i.hash.size
           sorted == i.sorted
           tree == i.ns.tree
           names == i.ns.names
           d == Boot(c, heads, size, sorted, tree, names, h)
<1>1. PICK T : Closed(c, heads, T) /\ \A k \in Keys \ D : SavedFor(c, i, T, k)
  BY DEF WalksOk, HeadsOf
<1>2. /\ heads \in HeadArrays /\ Buckets(heads) # 0 /\ size \in Nat /\ sorted \in SUBSET DOMAIN c.pool
      /\ tree \in BOOLEAN /\ names \in SUBSET DOMAIN c.pool
  BY DEF AnIndex
<1>3. HeadsOf(i) = heads
  BY DEF HeadsOf
<1> HIDE DEF heads, size, sorted, tree, names, d
<1>4. \A b \in DOMAIN heads : heads[b] \in 0..Len(c.nodes)
  <2> TAKE b \in DOMAIN heads
  <2>1. heads[b] # 0 => heads[b] \in DOMAIN c.nodes
    BY <1>1 DEF Closed
  <2>2. DOMAIN c.nodes = 1..Len(c.nodes) /\ Len(c.nodes) \in Nat
    BY CacheFields
  <2> QED
    BY <2>1, <2>2
<1>5. /\ IsCache(d) /\ SameKeys(c, d)
      /\ d.pool = c.pool /\ d.nodes = c.nodes /\ d.heads = heads /\ d.size = size
      /\ d.sorted = sorted /\ d.tree = tree /\ d.names = names /\ d.count = h
  BY <1>2, <1>4, BootIs DEF d
<1>6. T \subseteq DOMAIN c.nodes
  BY <1>1 DEF Closed
<1>7. Closed(d, d.heads, T) /\ \A m \in T : Unjumped(c, heads, T, m) => Unjumped(d, d.heads, T, m)
  BY <1>1, <1>5, <1>6, SameLinks
<1>8. /\ Ordered(d, Linked(d)) /\ Linked(d) \subseteq T
      /\ \A m \in T : Unjumped(d, d.heads, T, m) => m \in Linked(d)
  BY <1>2, <1>5, <1>7, LinkedOrdered
<1>9. ASSUME NEW k PROVE /\ KeyNodes(d, T, k) = KeyNodes(c, T, k) /\ KeyNodes(c, T, k) \subseteq T
                         /\ EntriesOf(d, k) = EntriesOf(c, k)
                         /\ \A list : OffsetsOf(d, list, k) = OffsetsOf(c, list, k)
  BY <1>5 DEF KeyNodes, KeyAt, EntriesOf, Undeleted, OffsetsOf
<1>10. ASSUME NEW k \in Keys \ D, \A o, p \in EntriesOf(c, k) : o = p PROVE Hashed(d, k) /\ InArray(d, k)
  <2>1. SavedFor(c, i, T, k)
    BY <1>1
  <2>2. \A m \in KeyNodes(c, T, k) : m \in Linked(d)
    BY <1>3, <1>7, <1>8, <1>9, <2>1 DEF SavedFor
  <2>3. KeyNodes(d, Linked(d), k) = KeyNodes(c, T, k)
    BY <1>8, <1>9, <2>2 DEF KeyNodes
  <2>4. {d.nodes[n].entry : n \in KeyNodes(d, Linked(d), k)} = {c.nodes[n].entry : n \in KeyNodes(c, T, k)}
    BY <1>5, <2>3
  <2>5. OffsetsOf(c, sorted, k) = EntriesOf(c, k) /\ (tree => OffsetsOf(c, names, k) = EntriesOf(c, k))
    BY <2>1 DEF SavedFor, sorted, tree, names
  <2> QED
    BY <1>5, <1>9, <1>10, <2>1, <2>3, <2>4, <2>5 DEF SavedFor, Hashed, InArray
<1>11. ASSUME NEW k \in Keys \ D PROVE \A o, p \in EntriesOf(c, k) : o = p
  <2>1. SavedFor(c, i, T, k)
    BY <1>1
  <2> TAKE o, p \in EntriesOf(c, k)
  <2>2. PICK n \in KeyNodes(c, T, k) : c.nodes[n].entry = o
    BY <2>1 DEF SavedFor
  <2>3. PICK m \in KeyNodes(c, T, k) : c.nodes[m].entry = p
    BY <2>1 DEF SavedFor
  <2> QED
    BY <2>1, <2>2, <2>3 DEF SavedFor
<1>12. D = {} => Sized(d)
  <2>1. Undeleted(d) = Undeleted(c)
    BY <1>5 DEF Undeleted
  <2> QED
    BY <1>5, <2>1 DEF Sized, size
<1>13. Fine(d, D)
  BY <1>10, <1>11, <1>12 DEF Fine
<1> QED
  BY <1>5, <1>8, <1>13 DEF d, heads, size, sorted, tree, names

LEMMA LosesKeeps ==
  ASSUME NEW c, IsCache(c), NEW d, Loses(c, d), KeepsArray(c, d), Len(c.pool) <= PoolMax, NEW L, Fine(c, L)
  PROVE  Fine(d, L) /\ (Counted(c) => Counted(d))
<1>1. \A k \in Keys \ L : Hashed(d, k) /\ InArray(d, k)
  BY DEF Fine, Loses, KeepsArray
<1>2. L = {} => AllHashed(c) /\ Sized(c)
  BY DEF Fine, AllHashed
<1>3. (L = {} => Sized(d)) /\ (Counted(c) => Counted(d))
  BY <1>2 DEF Loses
<1> QED
  BY <1>1, <1>3 DEF Fine

LEMMA LosesLatest ==
  ASSUME NEW c, IsCache(c), NEW d, Loses(c, d), NEW lst, NEW L, LatestOk(c, lst, L)
  PROVE  LatestOk(d, lst, L)
<1>1. /\ DOMAIN d.pool = DOMAIN c.pool /\ \A o \in DOMAIN c.pool : d.pool[o].key = c.pool[o].key
      /\ \A k \in Keys : EntriesOf(d, k) \subseteq EntriesOf(c, k)
  BY LosesKeys
<1>2. \A k \in Keys \ L : EntriesOf(d, k) \subseteq {lst[k]}
  BY <1>1 DEF LatestOk
<1> QED
  BY <1>1, <1>2 DEF LatestOk

(* The key is stored, or at least its entry is written.                    *)
LEMMA LatestNew ==
  ASSUME NEW c, IsCache(c), NEW k \in Keys, NEW d, Moves(c, d, {k}), NEW L, k \notin L => EntriesOf(c, k) = {},
         Len(d.pool) = NewEntry(c), NewEntry(c) \in Undeleted(d), d.pool[NewEntry(c)].key = k,
         EntriesOf(d, k) = EntriesOf(c, k) \union {NewEntry(c)},
         NEW lst, LatestOk(c, lst, L)
  PROVE  LatestOk(d, [lst EXCEPT ![k] = NewEntry(c)], L)
<1> DEFINE new == [lst EXCEPT ![k] = NewEntry(c)]
<1>1. NewEntry(c) \in Nat /\ NewEntry(c) \in DOMAIN d.pool
  BY CacheFields DEF NewEntry, Undeleted
<1>2. new \in [Keys -> Nat] /\ new[k] = NewEntry(c) /\ \A j \in Keys \ {k} : new[j] = lst[j]
  BY <1>1 DEF LatestOk
<1> HIDE DEF new
<1>3. DOMAIN c.pool \subseteq DOMAIN d.pool /\ \A o \in DOMAIN c.pool : d.pool[o].key = c.pool[o].key
  BY DEF Moves
<1>4. ASSUME NEW j \in Keys, new[j] # 0 PROVE new[j] \in DOMAIN d.pool /\ d.pool[new[j]].key = j
  <2>1. CASE j = k
    BY <1>1, <1>2, <2>1
  <2>2. CASE j # k
    <3>1. new[j] = lst[j]
      BY <1>2, <2>2
    <3> QED
      BY <1>3, <1>4, <3>1 DEF LatestOk
  <2> QED
    BY <2>1, <2>2
<1>5. ASSUME NEW j \in Keys \ L PROVE EntriesOf(d, j) \subseteq {new[j]}
  <2>1. CASE j = k
    BY <1>2, <1>5, <2>1
  <2>2. CASE j # k
    <3>1. EntriesOf(d, j) = EntriesOf(c, j) /\ new[j] = lst[j]
      BY <1>2, <2>2 DEF Moves, KeptFor
    <3> QED
      BY <3>1 DEF LatestOk
  <2> QED
    BY <2>1, <2>2
<1> QED
  BY <1>2, <1>4, <1>5 DEF LatestOk, new

LEMMA StoredKeeps ==
  ASSUME NEW c, IsCache(c), Ordered(c, Linked(c)), NEW k \in Keys, NEW L, k \notin L => EntriesOf(c, k) = {},
         Fine(c, L), Len(c.pool) < PoolMax
  PROVE  Fine(Stored(c, k), L) /\ (Counted(c) => Counted(Stored(c, k)))
<1> DEFINE d == Stored(c, k)
<1>1. /\ Moves(c, d, {k})
      /\ EntriesOf(c, k) = {} =>
           /\ Hashed(c, k) => Hashed(d, k)
           /\ InArray(c, k) => InArray(d, k)
           /\ Hashed(c, k) /\ Sized(c) /\ Len(c.pool) < PoolMax => Sized(d)
      /\ Counted(c) /\ Len(c.pool) < PoolMax => Counted(d)
  BY StoredIs
<1> HIDE DEF d
<1>2. ASSUME NEW j \in Keys \ L PROVE Hashed(d, j) /\ InArray(d, j)
  <2>1. Hashed(c, j) /\ InArray(c, j)
    BY DEF Fine
  <2>2. CASE j = k
    BY <1>1, <1>2, <2>1, <2>2
  <2>3. CASE j # k
    <3>1. j \in Keys \ {k}
      BY <2>3
    <3> QED
      BY <1>1, <2>1, <3>1, KeptOk
  <2> QED
    BY <2>2, <2>3
<1>3. ASSUME L = {} PROVE Sized(d)
  <2>1. Hashed(c, k) /\ Sized(c)
    BY <1>3 DEF Fine
  <2> QED
    BY <1>1, <1>3, <2>1
<1> QED
  BY <1>1, <1>2, <1>3 DEF Fine, d

-----------------------------------------------------------------------------
(* The calls.                                                              *)

(* An open cache that is in order.                                         *)
InMemory(c, lst, L) ==
  /\ IsCache(c) /\ Ordered(c, Linked(c)) /\ Len(c.pool) <= PoolMax
  /\ Fine(c, L) /\ LatestOk(c, lst, L)

LEMMA LosesInMemory ==
  ASSUME NEW c, NEW lst, NEW L, InMemory(c, lst, L), NEW d, Loses(c, d), KeepsArray(c, d)
  PROVE  /\ InMemory(d, lst, L) /\ Len(d.pool) = Len(c.pool)
         /\ Moves(c, d, Gone(c, d))
         /\ NothingToSave(c) => NothingToSave(d)
         /\ Counted(c) => Counted(d)
<1>1. IsCache(c) /\ Len(c.pool) <= PoolMax /\ Fine(c, L) /\ LatestOk(c, lst, L)
  BY DEF InMemory
<1>2. Fine(d, L) /\ LatestOk(d, lst, L) /\ (Counted(c) => Counted(d))
  BY <1>1, LosesKeeps, LosesLatest
<1>3. /\ IsCache(d) /\ Ordered(d, Linked(d)) /\ Len(d.pool) = Len(c.pool) /\ Moves(c, d, Gone(c, d))
      /\ d.tree = c.tree /\ Buckets(d.heads) = Buckets(c.heads) /\ d.sorted \subseteq c.sorted
  BY DEF Loses, Moves
<1>4. NothingToSave(c) => NothingToSave(d)
  BY <1>3 DEF NothingToSave
<1> QED
  BY <1>1, <1>2, <1>3, <1>4 DEF InMemory

(* Entries went, or at least their flags are set.                          *)
Sheds(c, x) ==
  /\ Moves(c, x, Gone(c, x)) /\ Buckets(x.heads) = Buckets(c.heads)
  /\ Len(x.pool) = Len(c.pool) /\ Undeleted(x) \subseteq Undeleted(c)

LEMMA ShedsIs ==
  ASSUME NEW c, IsCache(c), NEW x, Sheds(c, x)
  PROVE  /\ Changed(c, x) = Gone(c, x) /\ Changed(c, x) \subseteq Keys /\ Moves(c, x, Changed(c, x))
         /\ \A lst, L : LatestOk(c, lst, L) => LatestOk(x, lst, L)
<1>1. /\ Moves(c, x, Gone(c, x)) /\ Len(x.pool) = Len(c.pool) /\ Undeleted(x) \subseteq Undeleted(c)
      /\ IsCache(x) /\ \A o \in DOMAIN c.pool : x.pool[o].key = c.pool[o].key
  BY DEF Sheds, Moves
<1>2. /\ Undeleted(c) \subseteq DOMAIN c.pool /\ \A o \in Undeleted(c) : c.pool[o].key \in Keys
      /\ \A k : EntriesOf(c, k) \subseteq Undeleted(c)
  BY UndeletedIs
<1>3. \A o \in Undeleted(c) : x.pool[o].key = c.pool[o].key
  BY <1>1, <1>2
<1>4. (Undeleted(c) \ Undeleted(x)) \union (Undeleted(x) \ Undeleted(c)) = Undeleted(c) \ Undeleted(x)
  BY <1>1
<1>5. Changed(c, x) = Gone(c, x)
  BY <1>3, <1>4 DEF Changed, Gone
<1>6. Gone(c, x) \subseteq Keys
  BY <1>2 DEF Gone
<1>7. DOMAIN x.pool = DOMAIN c.pool
  BY <1>1, CacheFields
<1>8. \A k : EntriesOf(x, k) \subseteq EntriesOf(c, k)
  BY <1>1, <1>3 DEF EntriesOf
<1>9. ASSUME NEW lst, NEW L, LatestOk(c, lst, L) PROVE LatestOk(x, lst, L)
  <2>1. \A k \in Keys \ L : EntriesOf(x, k) \subseteq {lst[k]}
    BY <1>8, <1>9 DEF LatestOk
  <2> QED
    BY <1>1, <1>7, <1>9, <2>1 DEF LatestOk
<1> QED
  BY <1>1, <1>5, <1>6, <1>9

LEMMA MarkSheds ==
  ASSUME NEW c, IsCache(c), NEW e, Loses(c, e), NEW o \in Undeleted(e)
  PROVE  Sheds(c, Flagged(e, o))
<1> DEFINE x == Flagged(e, o)
           k == e.pool[o].key
<1>1. /\ IsCache(e) /\ Ordered(e, Linked(e)) /\ Moves(c, e, Gone(c, e)) /\ Buckets(e.heads) = Buckets(c.heads)
      /\ Len(e.pool) = Len(c.pool) /\ Undeleted(e) \subseteq Undeleted(c)
      /\ \A p \in DOMAIN c.pool : e.pool[p].key = c.pool[p].key
  BY DEF Loses, Moves
<1>2. /\ Moves(e, x, {k}) /\ SameHash(e, x) /\ Undeleted(x) = Undeleted(e) \ {o} /\ Len(x.pool) = Len(e.pool)
  BY <1>1, MarkedIs
<1>3. o \in Undeleted(c) /\ o \in DOMAIN c.pool /\ k = c.pool[o].key
  BY <1>1 DEF Undeleted
<1> HIDE DEF x, k
<1>4. Moves(c, x, Gone(c, e) \union {k})
  BY <1>1, <1>2, MovesThen
<1>5. Gone(c, e) \union {k} \subseteq Gone(c, x)
  <2>1. o \in Undeleted(c) \ Undeleted(x) /\ Undeleted(c) \ Undeleted(e) \subseteq Undeleted(c) \ Undeleted(x)
    BY <1>2, <1>3
  <2> QED
    BY <1>3, <2>1 DEF Gone
<1>6. Moves(c, x, Gone(c, x))
  BY <1>4, <1>5, MovesMore
<1>7. Buckets(x.heads) = Buckets(c.heads) /\ Len(x.pool) = Len(c.pool) /\ Undeleted(x) \subseteq Undeleted(c)
  BY <1>1, <1>2 DEF SameHash
<1> QED
  BY <1>6, <1>7 DEF Sheds, x

LEMMA LosesSheds ==
  ASSUME NEW c, NEW d, Loses(c, d)
  PROVE  Sheds(c, d)
BY DEF Loses, Sheds

(* After the eviction and the removal of the old entry.                    *)
LEMMA MadeRoom ==
  ASSUME NEW c, NEW lst, NEW L, InMemory(c, lst, L), NEW k \in Keys,
         NEW e \in Evicted(c), NEW r \in Replaced(e, k)
  PROVE  /\ InMemory(e, lst, L) /\ Loses(c, e) /\ KeepsArray(c, e)
         /\ InMemory(r, lst, L) /\ Loses(c, r)
         /\ k \notin L => EntriesOf(r, k) = {}
<1>1. IsCache(c) /\ Ordered(c, Linked(c))
  BY DEF InMemory
<1>2. Loses(c, e) /\ KeepsArray(c, e)
  BY <1>1, EvictedIs
<1>3. InMemory(e, lst, L)
  BY <1>2, LosesInMemory
<1>4. IsCache(e) /\ Ordered(e, Linked(e)) /\ Fine(e, L)
  BY <1>3 DEF InMemory
<1>5. Loses(e, r) /\ KeepsArray(e, r) /\ (Hashed(e, k) => EntriesOf(r, k) = {})
  BY <1>4, ReplacedIs
<1>6. InMemory(r, lst, L)
  BY <1>3, <1>5, LosesInMemory
<1>7. Loses(c, r)
  BY <1>1, <1>2, <1>5, LosesThen
<1>8. k \notin L => EntriesOf(r, k) = {}
  BY <1>4, <1>5 DEF Fine
<1> QED
  BY <1>2, <1>3, <1>6, <1>7, <1>8

(* A new entry after others went.                                          *)
LEMMA ChangedBy ==
  ASSUME NEW c, IsCache(c), NEW r, Loses(c, r), NEW k \in Keys, NEW d, Moves(r, d, {k}),
         NewEntry(r) \notin DOMAIN r.pool, Undeleted(d) = Undeleted(r) \union {NewEntry(r)},
         d.pool[NewEntry(r)].key = k
  PROVE  Moves(c, d, Changed(c, d)) /\ Changed(c, d) \subseteq Keys
<1> DEFINE o == NewEntry(r)
<1>1. /\ DOMAIN r.pool = DOMAIN c.pool /\ \A p \in DOMAIN c.pool : r.pool[p].key = c.pool[p].key
      /\ Undeleted(r) \subseteq Undeleted(c) /\ Moves(c, r, Gone(c, r))
  BY LosesKeys DEF Loses
<1>2. Undeleted(c) \subseteq DOMAIN c.pool /\ \A p \in Undeleted(c) : c.pool[p].key \in Keys
  BY UndeletedIs
<1>3. \A p \in DOMAIN r.pool : d.pool[p].key = r.pool[p].key
  BY DEF Moves
<1> HIDE DEF o
<1>4. o \notin DOMAIN c.pool /\ Undeleted(d) = Undeleted(r) \union {o} /\ d.pool[o].key = k
  BY <1>1 DEF o
<1>5. (Undeleted(c) \ Undeleted(d)) \union (Undeleted(d) \ Undeleted(c)) = (Undeleted(c) \ Undeleted(r)) \union {o}
  BY <1>1, <1>2, <1>4
<1>6. \A p \in Undeleted(c) : d.pool[p].key = c.pool[p].key
  BY <1>1, <1>2, <1>3
<1>7. Changed(c, d) = Gone(c, r) \union {k}
  <2>1. Changed(c, d) = {d.pool[p].key : p \in (Undeleted(c) \ Undeleted(r)) \union {o}}
    BY <1>5 DEF Changed
  <2>2. Gone(c, r) = {d.pool[p].key : p \in Undeleted(c) \ Undeleted(r)}
    BY <1>6 DEF Gone
  <2> QED
    BY <1>4, <2>1, <2>2
<1>8. Moves(c, d, Gone(c, r) \union {k})
  BY <1>1, MovesThen
<1>9. Gone(c, r) \subseteq Keys
  BY <1>2 DEF Gone
<1> QED
  BY <1>7, <1>8, <1>9

LEMMA SetIs ==
  ASSUME NEW c, NEW lst, NEW L, InMemory(c, lst, L), Len(c.pool) < PoolMax, NEW k \in Keys,
         NEW e \in Evicted(c), NEW d, NEW new,
         IF ~Fits(e) THEN d = e /\ new = lst
         ELSE \E r \in Replaced(e, k) : d = Stored(r, k) /\ new = [lst EXCEPT ![k] = Len(r.pool) + 1]
  PROVE  /\ InMemory(d, new, L)
         /\ Moves(c, d, Changed(c, d)) /\ Changed(c, d) \subseteq Keys
         /\ Buckets(d.heads) = 0 /\ NothingToSave(c) => NothingToSave(d)
         /\ Counted(c) => Counted(d)
<1>1. IsCache(c) /\ Ordered(c, Linked(c))
  BY DEF InMemory
<1>2. CASE ~Fits(e)
  <2>1. d = e /\ new = lst
    BY <1>2
  <2>2. Loses(c, e) /\ KeepsArray(c, e)
    BY <1>1, EvictedIs
  <2>3. InMemory(e, lst, L) /\ (NothingToSave(c) => NothingToSave(e)) /\ (Counted(c) => Counted(e))
    BY <2>2, LosesInMemory
  <2>4. Moves(c, e, Changed(c, e)) /\ Changed(c, e) \subseteq Keys
    BY <1>1, <2>2, LosesSheds, ShedsIs
  <2> QED
    BY <2>1, <2>3, <2>4
<1>3. CASE Fits(e)
  <2>1. PICK r \in Replaced(e, k) : d = Stored(r, k) /\ new = [lst EXCEPT ![k] = Len(r.pool) + 1]
    BY <1>3
  <2>2. InMemory(r, lst, L) /\ Loses(c, r) /\ (k \notin L => EntriesOf(r, k) = {})
    BY MadeRoom
  <2>3. new = [lst EXCEPT ![k] = NewEntry(r)]
    BY <2>1 DEF NewEntry
  <2>4. IsCache(r) /\ Ordered(r, Linked(r)) /\ Fine(r, L) /\ LatestOk(r, lst, L)
    BY <2>2 DEF InMemory
  <2>5. Len(r.pool) = Len(c.pool) /\ (Len(c.pool) <= PoolMax /\ Counted(c) => Counted(r))
    BY <2>2 DEF Loses
  <2>6. Len(r.pool) < PoolMax /\ Len(c.pool) <= PoolMax
    BY <2>5 DEF InMemory
  <2>7. /\ Moves(r, d, {k}) /\ Buckets(d.heads) # 0
        /\ Len(d.pool) = NewEntry(r) /\ NewEntry(r) \notin DOMAIN r.pool
        /\ Undeleted(d) = Undeleted(r) \union {NewEntry(r)}
        /\ EntriesOf(d, k) = EntriesOf(r, k) \union {NewEntry(r)}
    BY <2>1, <2>4, StoredIs
  <2>8. Fine(d, L) /\ (Counted(r) => Counted(d))
    BY <2>1, <2>2, <2>4, <2>6, StoredKeeps
  <2>9. NewEntry(r) \in Undeleted(d) /\ d.pool[NewEntry(r)].key = k
    <3>1. NewEntry(r) \in EntriesOf(d, k)
      BY <2>7
    <3> QED
      BY <3>1 DEF EntriesOf
  <2>10. LatestOk(d, [lst EXCEPT ![k] = NewEntry(r)], L)
    BY <2>2, <2>4, <2>7, <2>9, LatestNew
  <2>11. Moves(c, d, Changed(c, d)) /\ Changed(c, d) \subseteq Keys
    BY <1>1, <2>2, <2>7, <2>9, ChangedBy
  <2>12. Len(d.pool) <= PoolMax
    <3>1. Len(r.pool) \in Nat /\ PoolMax \in Nat
      BY <2>4, CacheFields, PersistAssumption
    <3> QED
      BY <2>6, <2>7, <3>1 DEF NewEntry
  <2>13. IsCache(d) /\ Ordered(d, Linked(d))
    BY <2>7 DEF Moves
  <2>14. InMemory(d, new, L)
    BY <2>3, <2>8, <2>10, <2>12, <2>13 DEF InMemory
  <2> QED
    BY <2>5, <2>6, <2>7, <2>8, <2>11, <2>14
<1> QED
  BY <1>2, <1>3

LEMMA FindIs ==
  ASSUME NEW c, IsCache(c), Ordered(c, Linked(c)), NEW k \in Keys
  PROVE  /\ Find(c, k) # 0 => Find(c, k) \in EntriesOf(c, k)
         /\ Hashed(c, k) /\ Find(c, k) = 0 => EntriesOf(c, k) = {}
<1> DEFINE o == HashLookup(c, k)
<1>1. \/ KeyNodes(c, Linked(c), k) = {} /\ o = 0
      \/ \E x \in KeyNodes(c, Linked(c), k) : o = c.nodes[x].entry
  BY LookupIs
<1>2. \A x \in KeyNodes(c, Linked(c), k) : c.nodes[x].entry \in DOMAIN c.pool /\ c.pool[c.nodes[x].entry].key = k
  BY CacheFields DEF KeyNodes, Linked, KeyAt
<1>3. 0 \notin DOMAIN c.pool
  BY CacheFields
<1>4. Find(c, k) = IF o # 0 /\ o \in Undeleted(c) THEN o ELSE 0
  BY DEF Find
<1> HIDE DEF o
<1>5. o # 0 => c.pool[o].key = k
  BY <1>1, <1>2
<1>6. Find(c, k) # 0 => Find(c, k) \in EntriesOf(c, k)
  BY <1>4, <1>5 DEF EntriesOf
<1>7. ASSUME Hashed(c, k), Find(c, k) = 0 PROVE EntriesOf(c, k) = {}
  <2>1. CASE KeyNodes(c, Linked(c), k) = {}
    BY <1>7, <2>1 DEF Hashed
  <2>2. CASE KeyNodes(c, Linked(c), k) # {}
    <3>1. PICK x \in KeyNodes(c, Linked(c), k) : o = c.nodes[x].entry
      BY <1>1, <2>2
    <3>2. o \in EntriesOf(c, k)
      BY <1>7, <3>1 DEF Hashed
    <3>3. o \in Undeleted(c) /\ o \in DOMAIN c.pool
      BY <3>2 DEF EntriesOf, Undeleted
    <3> QED
      BY <1>3, <1>4, <1>7, <3>3
  <2> QED
    BY <2>1, <2>2
<1> QED
  BY <1>6, <1>7

LEMMA DelIs ==
  ASSUME NEW c, NEW lst, NEW L, InMemory(c, lst, L), NEW k \in Keys, Find(c, k) # 0, NEW d \in Removed(c, Find(c, k))
  PROVE  /\ InMemory(d, [lst EXCEPT ![k] = 0], L)
         /\ Moves(c, d, Changed(c, d)) /\ Changed(c, d) \subseteq Keys
         /\ NothingToSave(c) => NothingToSave(d)
         /\ Counted(c) => Counted(d)
<1> DEFINE o == Find(c, k)
           new == [lst EXCEPT ![k] = 0]
<1>1. IsCache(c) /\ Ordered(c, Linked(c)) /\ Fine(c, L)
  BY DEF InMemory
<1>2. o \in EntriesOf(c, k)
  BY <1>1, FindIs
<1> HIDE DEF o
<1>3. o \in Undeleted(c) /\ d \in Removed(c, o)
  BY <1>2 DEF EntriesOf, o
<1>4. Loses(c, d) /\ KeepsArray(c, d) /\ Undeleted(d) = Undeleted(c) \ {o}
  BY <1>1, <1>3, RemovedIs
<1>5. InMemory(d, lst, L) /\ (NothingToSave(c) => NothingToSave(d)) /\ (Counted(c) => Counted(d))
  BY <1>4, LosesInMemory
<1>6. Moves(c, d, Changed(c, d)) /\ Changed(c, d) \subseteq Keys
  BY <1>1, <1>4, LosesSheds, ShedsIs
<1>7. LatestOk(d, lst, L)
  BY <1>5 DEF InMemory
<1>8. new \in [Keys -> Nat] /\ new[k] = 0 /\ \A j \in Keys \ {k} : new[j] = lst[j]
  BY <1>7 DEF LatestOk
<1> HIDE DEF new
<1>9. \A j \in Keys : new[j] # 0 => new[j] \in DOMAIN d.pool /\ d.pool[new[j]].key = j
  BY <1>7, <1>8 DEF LatestOk
<1>10. ASSUME NEW j \in Keys \ L PROVE EntriesOf(d, j) \subseteq {new[j]}
  <2>1. CASE j = k
    <3>1. EntriesOf(c, k) = {o}
      BY <1>1, <1>2, <1>10, <2>1 DEF Fine, Hashed
    <3>2. EntriesOf(d, k) \subseteq EntriesOf(c, k) /\ o \notin EntriesOf(d, k)
      BY <1>1, <1>4, LosesKeys DEF EntriesOf
    <3> QED
      BY <2>1, <3>1, <3>2
  <2>2. CASE j # k
    BY <1>7, <1>8, <2>2 DEF LatestOk
  <2> QED
    BY <2>1, <2>2
<1>11. LatestOk(d, new, L)
  BY <1>8, <1>9, <1>10 DEF LatestOk
<1> QED
  BY <1>5, <1>6, <1>11 DEF InMemory, new

(* What a kill inside evict_lru finds.                                     *)
LEMMA InEvictionSheds ==
  ASSUME NEW c, IsCache(c), Ordered(c, Linked(c)), NEW x \in InEviction(c)
  PROVE  Sheds(c, x)
<1>1. PICK r \in UNION {EvictedSoFar(c)[n] : n \in 0..Len(c.pool)} :
        x \in {r.c} \union (IF Fits(r.c) THEN {} ELSE {Flagged(r.c, o) : o \in r.left})
  BY DEF InEviction
<1>2. Evicting(c, r)
  BY <1>1, EvictedSoFarIs
<1>3. Loses(c, r.c) /\ r.left \subseteq Undeleted(r.c)
  BY <1>2 DEF Evicting
<1>4. CASE x = r.c
  BY <1>3, <1>4, LosesSheds
<1>5. CASE \E o \in r.left : x = Flagged(r.c, o)
  <2>1. PICK o \in r.left : x = Flagged(r.c, o)
    BY <1>5
  <2> QED
    BY <1>3, <2>1, MarkSheds
<1> QED
  BY <1>1, <1>4, <1>5

(* ... and one inside cache_set before the new entry is allocated.         *)
LEMMA InSetSheds ==
  ASSUME NEW c, IsCache(c), Ordered(c, Linked(c)), NEW k \in Keys, NEW x \in InSet(c, k)
  PROVE  Sheds(c, x)
<1>1. CASE x \in InEviction(c)
  BY <1>1, InEvictionSheds
<1>2. CASE \E e \in Evicted(c) : x \in Replaced(e, k) \union (IF Find(e, k) = 0 THEN {} ELSE {Flagged(e, Find(e, k))})
  <2>1. PICK e \in Evicted(c) : x \in Replaced(e, k) \union (IF Find(e, k) = 0 THEN {} ELSE {Flagged(e, Find(e, k))})
    BY <1>2
  <2>2. Loses(c, e)
    BY EvictedIs
  <2>3. IsCache(e) /\ Ordered(e, Linked(e))
    BY <2>2 DEF Loses, Moves
  <2>4. CASE x \in Replaced(e, k)
    <3>1. Loses(e, x)
      BY <2>3, <2>4, ReplacedIs
    <3> QED
      BY <2>2, <3>1, LosesThen, LosesSheds
  <2>5. CASE Find(e, k) # 0 /\ x = Flagged(e, Find(e, k))
    <3>1. Find(e, k) \in Undeleted(e)
      BY <2>3, <2>5, FindIs DEF EntriesOf
    <3> QED
      BY <2>2, <2>5, <3>1, MarkSheds
  <2> QED
    BY <2>1, <2>4, <2>5
<1> QED
  BY <1>1, <1>2 DEF InSet

(* The header of a new entry is written.                                   *)
Puts(c, r, x, k) ==
  /\ Moves(c, x, Changed(c, x)) /\ Changed(c, x) \subseteq Keys
  /\ Moves(r, x, {k}) /\ Buckets(x.heads) = Buckets(c.heads)
  /\ Len(x.pool) <= PoolMax /\ Len(x.pool) = NewEntry(r)
  /\ NewEntry(r) \in Undeleted(x) /\ x.pool[NewEntry(r)].key = k
  /\ EntriesOf(x, k) = EntriesOf(r, k) \union {NewEntry(r)}

LEMMA AppendedIs ==
  ASSUME NEW c, IsCache(c), Len(c.pool) < PoolMax, NEW r, Loses(c, r), NEW k \in Keys
  PROVE  Puts(c, r, Appended(r, k), k)
<1> DEFINE x == Appended(r, k)
<1>1. IsCache(r) /\ Ordered(r, Linked(r)) /\ Len(r.pool) = Len(c.pool) /\ Buckets(r.heads) = Buckets(c.heads)
  BY DEF Loses, Moves
<1>2. r \in ACache /\ r.count \in Nat /\ r.mem \in Nat
  BY <1>1 DEF IsCache, ACache
<1>3. x = Written(r, k, r.count, r.mem)
  BY <1>2 DEF Appended, Written, Dress, ACache
<1>4. Wrote(r, Written(r, k, r.count, r.mem), k, r.count)
  BY <1>1, <1>2, WrittenIs
<1> HIDE DEF x
<1>5. Wrote(r, x, k, r.count)
  BY <1>3, <1>4
<1>6. /\ Moves(r, x, {k}) /\ SameHash(r, x)
      /\ NewEntry(r) \notin DOMAIN r.pool /\ Len(x.pool) = NewEntry(r)
      /\ Undeleted(x) = Undeleted(r) \union {NewEntry(r)}
      /\ \A o \in DOMAIN r.pool : x.pool[o].key = r.pool[o].key
      /\ x.pool[NewEntry(r)].key = k
  BY <1>5 DEF Wrote
<1>7. EntriesOf(x, k) = EntriesOf(r, k) \union {NewEntry(r)}
  <2>1. Undeleted(r) \subseteq DOMAIN r.pool
    BY DEF Undeleted
  <2> QED
    BY <1>6, <2>1 DEF EntriesOf
<1>8. Moves(c, x, Changed(c, x)) /\ Changed(c, x) \subseteq Keys
  BY <1>6, ChangedBy
<1>9. Len(x.pool) <= PoolMax
  <2>1. Len(r.pool) \in Nat /\ PoolMax \in Nat
    BY <1>1, CacheFields, PersistAssumption
  <2> QED
    BY <1>1, <1>6, <2>1 DEF NewEntry
<1>10. Buckets(x.heads) = Buckets(c.heads) /\ NewEntry(r) \in Undeleted(x)
  BY <1>1, <1>6 DEF SameHash
<1> QED
  BY <1>6, <1>7, <1>8, <1>9, <1>10 DEF x, Puts

-----------------------------------------------------------------------------
(* The sessions.                                                           *)

(* While a session has the directory open.                                 *)
Live(c, i, D, lst, L) ==
  /\ InMemory(c, lst, L)
  /\ AnIndex(i, c) /\ WalksOk(c, i, D \union L) /\ Older(HeadsOf(i), c.heads)
  /\ Buckets(c.heads) = 0 => ~i.saved /\ NothingToSave(c)

(* While none has.                                                         *)
Resting(c, i, D, lst, L) ==
  /\ IsOff(c) /\ Len(c.pool) <= PoolMax /\ LatestOk(c, lst, L)
  /\ AnIndex(i, c) /\ WalksOk(c, i, D \union L)
  /\ i.saved => D \subseteq L

(* The histories, and the counter that is saved in index.bin.              *)
Booked(c, i, D, L, h) ==
  /\ D \subseteq Keys /\ L \subseteq Keys /\ h \in Nat
  /\ i.saved /\ D = {} /\ L = {} => i.hash.size = Cardinality(Undeleted(c))

LEMMA LatestMore ==
  ASSUME NEW c, NEW lst, NEW L, LatestOk(c, lst, L), NEW M, L \subseteq M
  PROVE  LatestOk(c, lst, M)
BY DEF LatestOk

(* A step of other keys than those that are given up.                      *)
LEMMA LatestBeside ==
  ASSUME NEW c, NEW d, NEW K, Moves(c, d, K), NEW lst, NEW L, LatestOk(c, lst, L), NEW M, L \subseteq M, K \subseteq M
  PROVE  LatestOk(d, lst, M)
<1>1. DOMAIN c.pool \subseteq DOMAIN d.pool /\ \A o \in DOMAIN c.pool : d.pool[o].key = c.pool[o].key
  BY DEF Moves
<1>2. ASSUME NEW j \in Keys \ M PROVE EntriesOf(d, j) \subseteq {lst[j]}
  <2>1. EntriesOf(d, j) = EntriesOf(c, j)
    BY <1>2 DEF Moves, KeptFor
  <2> QED
    BY <1>2, <2>1 DEF LatestOk
<1> QED
  BY <1>1, <1>2 DEF LatestOk

(* The keys at risk after a step from c to d.                              *)
Raised(c, d, D) == D \union (IF Buckets(d.heads) # Buckets(c.heads) THEN Keys ELSE Changed(c, d))

LEMMA Arrived ==
  ASSUME NEW c, NEW i, NEW D, NEW lst, NEW L, Live(c, i, D, lst, L), NEW h, Booked(c, i, D, L, h),
         NEW d, Moves(c, d, Changed(c, d)), Changed(c, d) \subseteq Keys
  PROVE  /\ AnIndex(i, d) /\ WalksOk(d, i, Raised(c, d, D) \union L) /\ Older(HeadsOf(i), d.heads)
         /\ D \subseteq Raised(c, d, D) /\ Booked(d, i, Raised(c, d, D), L, h)
<1> DEFINE K == Changed(c, d)
           E == Raised(c, d, D)
           X == D \union L
           Y == E \union L
<1>1. /\ IsCache(c) /\ IsCache(d) /\ AnIndex(i, c) /\ WalksOk(c, i, X) /\ Older(HeadsOf(i), c.heads)
  BY DEF Live, InMemory, Moves
<1>2. /\ X \subseteq Y /\ D \subseteq E /\ E \subseteq Keys /\ K \subseteq E
      /\ IF Buckets(d.heads) = Buckets(c.heads) THEN K \subseteq Y ELSE Keys \subseteq Y
  BY DEF Booked, Raised
<1>3. Moves(c, d, K)
  OBVIOUS
<1>4. K = {} => Undeleted(d) = Undeleted(c)
  BY DEF Changed
<1> HIDE DEF K, E, X, Y
<1>5. WalksOk(d, i, Y) /\ Older(HeadsOf(i), d.heads) /\ AnIndex(i, d)
  BY <1>1, <1>2, <1>3, WalksMove
<1>6. Booked(d, i, E, L, h)
  <2>1. D \subseteq Keys /\ L \subseteq Keys /\ h \in Nat
    BY DEF Booked
  <2>2. ASSUME i.saved, E = {}, L = {} PROVE i.hash.size = Cardinality(Undeleted(d))
    <3>1. D = {} /\ K = {}
      BY <1>2, <2>2
    <3> QED
      BY <1>4, <2>2, <3>1 DEF Booked
  <2> QED
    BY <1>2, <2>1, <2>2 DEF Booked
<1> QED
  BY <1>2, <1>5, <1>6 DEF E, Y

(* A session changes the cache.                                            *)
LEMMA LiveMoves ==
  ASSUME NEW c, NEW i, NEW D, NEW lst, NEW L, Live(c, i, D, lst, L), NEW h, Booked(c, i, D, L, h),
         NEW d, Moves(c, d, Changed(c, d)), Changed(c, d) \subseteq Keys,
         NEW new, InMemory(d, new, L), Buckets(d.heads) = 0 /\ NothingToSave(c) => NothingToSave(d)
  PROVE  /\ Live(d, i, Raised(c, d, D), new, L)
         /\ Booked(d, i, Raised(c, d, D), L, h)
<1> DEFINE E == Raised(c, d, D)
<1>1. IsCache(c) /\ IsCache(d) /\ (Buckets(c.heads) = 0 => ~i.saved /\ NothingToSave(c))
  BY DEF Live, InMemory
<1>2. AnIndex(i, d) /\ WalksOk(d, i, E \union L) /\ Older(HeadsOf(i), d.heads) /\ Booked(d, i, E, L, h)
  BY Arrived
<1> HIDE DEF E
<1>3. Buckets(d.heads) = 0 => Buckets(c.heads) = 0
  <2>1. Buckets(c.heads) \in Nat /\ Buckets(d.heads) \in Nat /\ Buckets(c.heads) <= Buckets(d.heads)
    BY <1>1, CacheFields DEF Moves
  <2> QED
    BY <2>1
<1>4. Live(d, i, E, new, L)
  BY <1>1, <1>2, <1>3 DEF Live
<1> QED
  BY <1>2, <1>4 DEF E

(* The process lets go of the directory; M takes in what it did not save.  *)
LEMMA LiveStops ==
  ASSUME NEW c, NEW i, NEW D, NEW lst, NEW L, IsCache(c), Len(c.pool) <= PoolMax, AnIndex(i, c),
         NEW X, WalksOk(c, i, X), X \subseteq D \union L, LatestOk(c, lst, L), i.saved => D \subseteq L
  PROVE  Resting(Off(c), i, D, lst, L) /\ Undeleted(Off(c)) = Undeleted(c)
<1> DEFINE d == Off(c)
           Y == D \union L
<1>1. IsOff(d) /\ d.pool = c.pool /\ d.nodes = c.nodes
  BY OffIs
<1>2. X \subseteq Y
  OBVIOUS
<1> HIDE DEF d, Y
<1>3. WalksOk(d, i, Y)
  BY <1>1, <1>2, WalksStay
<1>4. LatestOk(d, lst, L) /\ AnIndex(i, d) /\ Undeleted(d) = Undeleted(c)
  BY <1>1 DEF LatestOk, AnIndex, EntriesOf, Undeleted
<1> QED
  BY <1>1, <1>3, <1>4 DEF Resting, d, Y

(* The session ends in the state x, E being at risk, and what is in W is   *)
(* lost whatever index.bin says.                                           *)
Left(i, E, L, W) == (IF i.saved THEN L \union E ELSE L) \union W

Ended(x, i, E, lst, L, W, h) ==
  /\ Resting(Off(x), i, E, lst, Left(i, E, L, W))
  /\ Booked(Off(x), i, E, Left(i, E, L, W), h)
  /\ Undeleted(Off(x)) = Undeleted(x)

LEMMA LiveEnds ==
  ASSUME NEW x, NEW i, NEW E, NEW L, NEW h, Booked(x, i, E, L, h), IsCache(x), Len(x.pool) <= PoolMax,
         AnIndex(i, x), WalksOk(x, i, E \union L), NEW W \in SUBSET Keys,
         NEW lst, LatestOk(x, lst, Left(i, E, L, W))
  PROVE  Ended(x, i, E, lst, L, W, h)
<1> DEFINE M == Left(i, E, L, W)
           X == E \union L
<1>1. /\ X \subseteq E \union M /\ (i.saved => E \subseteq M) /\ L \subseteq M
      /\ E \subseteq Keys /\ M \subseteq Keys /\ h \in Nat
  BY DEF Booked, Left
<1>2. WalksOk(x, i, X)
  OBVIOUS
<1> HIDE DEF M, X
<1>3. Resting(Off(x), i, E, lst, M) /\ Undeleted(Off(x)) = Undeleted(x)
  BY <1>1, <1>2, LiveStops DEF M
<1>4. M = {} => L = {}
  BY <1>1
<1>5. Booked(Off(x), i, E, M, h)
  BY <1>1, <1>3, <1>4 DEF Booked
<1> QED
  BY <1>3, <1>5 DEF Ended, M

(* index.bin is written.                                                   *)
LEMMA LiveSaves ==
  ASSUME NEW c, NEW i, NEW D, NEW lst, NEW L, Live(c, i, D, lst, L), NEW h, Booked(c, i, D, L, h),
         ~NothingToSave(c)
  PROVE  Live(c, Image(c), {}, lst, L) /\ Booked(c, Image(c), {}, L, h)
<1> DEFINE j == Image(c)
           none == {}
<1>1. InMemory(c, lst, L) /\ Buckets(c.heads) # 0
  BY DEF Live
<1>2. IsCache(c) /\ Ordered(c, Linked(c)) /\ Fine(c, L)
  BY <1>1 DEF InMemory
<1>3. WalksOk(c, j, L) /\ AnIndex(j, c) /\ HeadsOf(j) = c.heads /\ Older(c.heads, c.heads)
  BY <1>1, <1>2, WalksSaved
<1>4. none \union L = L
  OBVIOUS
<1>5. Live(c, j, none, lst, L)
  BY <1>1, <1>3, <1>4 DEF Live
<1>6. j.saved /\ j.hash.size = c.size
  BY DEF Image, WriteHashIndex
<1>7. L = {} => c.size = Cardinality(Undeleted(c))
  BY <1>2 DEF Fine, Sized
<1>8. Booked(c, j, none, L, h)
  BY <1>6, <1>7 DEF Booked
<1> QED
  BY <1>5, <1>8

(* The process dies while the array of buckets has the size it had.        *)
LEMMA LiveBreaks ==
  ASSUME NEW c, NEW i, NEW D, NEW lst, NEW L, Live(c, i, D, lst, L), NEW h, Booked(c, i, D, L, h),
         NEW x, Moves(c, x, Changed(c, x)), Changed(c, x) \subseteq Keys, Len(x.pool) <= PoolMax,
         NEW W \in SUBSET Keys, NEW new, LatestOk(x, new, Left(i, Raised(c, x, D), L, W))
  PROVE  Ended(x, i, Raised(c, x, D), new, L, W, h)
<1> DEFINE E == Raised(c, x, D)
<1>1. AnIndex(i, x) /\ WalksOk(x, i, E \union L) /\ Booked(x, i, E, L, h)
  BY Arrived
<1>2. IsCache(x)
  BY DEF Moves
<1> HIDE DEF E
<1> QED
  BY <1>1, <1>2, LiveEnds DEF E

LEMMA LiveSheds ==
  ASSUME NEW c, NEW i, NEW D, NEW lst, NEW L, Live(c, i, D, lst, L), NEW h, Booked(c, i, D, L, h),
         NEW x, Sheds(c, x)
  PROVE  /\ Ended(x, i, Raised(c, x, D), lst, L, {}, h)
         /\ Changed(c, x) \subseteq Keys /\ Buckets(x.heads) = Buckets(c.heads)
<1> DEFINE M == Left(i, Raised(c, x, D), L, {})
           none == {}
<1>1. IsCache(c) /\ Len(c.pool) <= PoolMax /\ LatestOk(c, lst, L)
  BY DEF Live, InMemory
<1>2. Moves(c, x, Changed(c, x)) /\ Changed(c, x) \subseteq Keys /\ LatestOk(x, lst, L)
  BY <1>1, ShedsIs
<1>3. L \subseteq M
  BY DEF Left
<1> HIDE DEF M
<1>4. LatestOk(x, lst, M)
  BY <1>2, <1>3, LatestMore
<1>5. Len(x.pool) <= PoolMax /\ Buckets(x.heads) = Buckets(c.heads) /\ none \in SUBSET Keys
  BY <1>1 DEF Sheds
<1>6. Ended(x, i, Raised(c, x, D), lst, L, none, h)
  <2>1. LatestOk(x, lst, Left(i, Raised(c, x, D), L, none))
    BY <1>4 DEF M
  <2> HIDE DEF none
  <2> QED
    BY <1>2, <1>5, <2>1, LiveBreaks
<1> QED
  BY <1>2, <1>5, <1>6

(* ... in cache_set, when the key of the new entry is not written yet,     *)
LEMMA LiveHeader ==
  ASSUME NEW c, NEW i, NEW D, NEW lst, NEW L, Live(c, i, D, lst, L), NEW h, Booked(c, i, D, L, h), NEW k \in Keys,
         Len(c.pool) < PoolMax, NEW e \in Evicted(c), NEW r \in Replaced(e, k), NEW x, x = Appended(r, Nameless)
  PROVE  /\ Ended(x, i, Raised(c, x, D), lst, L, {Nameless}, h)
         /\ Changed(c, x) \subseteq Keys /\ Buckets(x.heads) = Buckets(c.heads)
<1> DEFINE W == {Nameless}
           M == Left(i, Raised(c, x, D), L, W)
<1>1. InMemory(c, lst, L) /\ IsCache(c) /\ Nameless \in Keys /\ W \in SUBSET Keys
  BY PersistAssumption DEF Live, InMemory
<1>2. Loses(c, r) /\ LatestOk(r, lst, L)
  BY <1>1, MadeRoom DEF InMemory
<1>3. /\ Moves(c, x, Changed(c, x)) /\ Changed(c, x) \subseteq Keys
      /\ Moves(r, x, W) /\ Buckets(x.heads) = Buckets(c.heads) /\ Len(x.pool) <= PoolMax
  <2>1. Puts(c, r, Appended(r, Nameless), Nameless)
    BY <1>1, <1>2, AppendedIs
  <2> QED
    BY <2>1 DEF Puts
<1>4. L \subseteq M /\ W \subseteq M
  BY DEF Left
<1> HIDE DEF M, W
<1>5. LatestOk(x, lst, M)
  BY <1>2, <1>3, <1>4, LatestBeside
<1>6. Ended(x, i, Raised(c, x, D), lst, L, W, h)
  BY <1>1, <1>3, <1>5, LiveBreaks DEF M
<1> QED
  BY <1>3, <1>6 DEF W

(* The entry x and its key k are written, and the value perhaps is.        *)
ValueEnds(c, x, i, D, new, L, h) ==
  /\ Ended(x, i, Raised(c, x, D), new, L, {}, h)
  /\ Changed(c, x) \subseteq Keys /\ Buckets(x.heads) = Buckets(c.heads)
  /\ Moves(c, x, Changed(c, x)) /\ Len(x.pool) <= PoolMax
  /\ \A M : L \subseteq M => LatestOk(x, new, M)

(* ... when it is written, but perhaps not the value,                      *)
LEMMA LiveValue ==
  ASSUME NEW c, NEW i, NEW D, NEW lst, NEW L, Live(c, i, D, lst, L), NEW h, Booked(c, i, D, L, h), NEW k \in Keys,
         Len(c.pool) < PoolMax, NEW e \in Evicted(c), NEW r \in Replaced(e, k), NEW x, x = Appended(r, k),
         NEW new, new = [lst EXCEPT ![k] = Len(r.pool) + 1]
  PROVE  ValueEnds(c, x, i, D, new, L, h)
<1> DEFINE W == {}
<1>1. InMemory(c, lst, L) /\ IsCache(c) /\ W \in SUBSET Keys
  BY DEF Live, InMemory
<1>2. Loses(c, r) /\ IsCache(r) /\ LatestOk(r, lst, L) /\ (k \notin L => EntriesOf(r, k) = {})
  BY <1>1, MadeRoom DEF InMemory
<1>3. /\ Moves(c, x, Changed(c, x)) /\ Changed(c, x) \subseteq Keys
      /\ Moves(r, x, {k}) /\ Buckets(x.heads) = Buckets(c.heads)
      /\ Len(x.pool) <= PoolMax /\ Len(x.pool) = NewEntry(r)
      /\ NewEntry(r) \in Undeleted(x) /\ x.pool[NewEntry(r)].key = k
      /\ EntriesOf(x, k) = EntriesOf(r, k) \union {NewEntry(r)}
  <2>1. Puts(c, r, Appended(r, k), k)
    BY <1>1, <1>2, AppendedIs
  <2> QED
    BY <2>1 DEF Puts
<1>4. new = [lst EXCEPT ![k] = NewEntry(r)]
  BY DEF NewEntry
<1> HIDE DEF W
<1>5. LatestOk(x, new, L)
  <2>1. /\ IsCache(r) /\ Len(x.pool) = NewEntry(r)
        /\ Moves(r, x, {k}) /\ LatestOk(r, lst, L) /\ NewEntry(r) \in Undeleted(x)
        /\ x.pool[NewEntry(r)].key = k /\ EntriesOf(x, k) = EntriesOf(r, k) \union {NewEntry(r)}
        /\ (k \notin L => EntriesOf(r, k) = {})
    BY <1>2, <1>3
  <2>2. LatestOk(x, [lst EXCEPT ![k] = NewEntry(r)], L)
    BY <2>1, LatestNew
  <2> QED
    BY <1>4, <2>2
<1>6. ASSUME NEW M, L \subseteq M PROVE LatestOk(x, new, M)
  BY <1>5, <1>6, LatestMore
<1>7. L \subseteq Left(i, Raised(c, x, D), L, W)
  BY DEF Left
<1>8. Ended(x, i, Raised(c, x, D), new, L, W, h)
  <2>1. LatestOk(x, new, Left(i, Raised(c, x, D), L, W))
    BY <1>6, <1>7
  <2> QED
    BY <1>1, <1>3, <2>1, LiveBreaks
<1> QED
  BY <1>3, <1>6, <1>8 DEF W, ValueEnds

(* ... and when the nodes are being dealt out to a larger array.           *)
LEMMA LiveHalves ==
  ASSUME NEW c, NEW i, NEW D, NEW lst, NEW L, Live(c, i, D, lst, L), NEW h, Booked(c, i, D, L, h),
         NEW a, Moves(c, a, Changed(c, a)), Changed(c, a) \subseteq Keys, Len(a.pool) <= PoolMax,
         NEW new, \A M : L \subseteq M => LatestOk(a, new, M), NEW x \in HalfResized(a)
  PROVE  Ended(x, i, Keys, new, L, {}, h) /\ Changed(c, x) \subseteq Keys
<1> DEFINE S == Linked(a)
           W == {}
           Y == Keys \union L
<1>1. IsCache(a) /\ Ordered(a, S)
  BY DEF Moves
<1>2. Buckets(a.heads) # 0
  <2>1. PICK b \in DOMAIN a.heads : TRUE
    BY DEF HalfResized
  <2>2. Buckets(a.heads) \in Nat /\ DOMAIN a.heads = 0..(Buckets(a.heads) - 1)
    BY <1>1, CacheFields
  <2> QED
    BY <2>1, <2>2
<1>3. AnIndex(i, a) /\ WalksOk(a, i, Raised(c, a, D) \union L) /\ Older(HeadsOf(i), a.heads)
  BY Arrived
<1> HIDE DEF S
<1>4. IsCache(x) /\ x.pool = a.pool
  BY <1>1, <1>2, HalfIs
<1>5. PICK T : Closed(a, HeadsOf(i), T)
  BY <1>3 DEF WalksOk
<1>6. Splits(HeadsOf(i), a.heads)
  BY <1>2, <1>3 DEF Older
<1>7. Closed(x, HeadsOf(i), T \union S)
  BY <1>1, <1>2, <1>5, <1>6, HalfOther
<1>8. WalksOk(x, i, Y)
  <2>1. Keys \ Y = {}
    OBVIOUS
  <2> HIDE DEF Y
  <2> QED
    BY <1>7, <2>1 DEF WalksOk
<1>9. AnIndex(i, x)
  BY <1>3, <1>4 DEF AnIndex
<1>10. L \subseteq Left(i, Keys, L, W) /\ W \in SUBSET Keys
  BY DEF Left
<1> HIDE DEF W, Y
<1>11. LatestOk(x, new, Left(i, Keys, L, W))
  <2>1. LatestOk(a, new, Left(i, Keys, L, W))
    BY <1>10
  <2> QED
    BY <1>4, <2>1 DEF LatestOk, EntriesOf, Undeleted
<1>12. Booked(x, i, Keys, L, h)
  <2>1. Keys # {}
    BY PersistAssumption
  <2> QED
    BY <2>1 DEF Booked
<1>13. Len(x.pool) <= PoolMax
  BY <1>4
<1>14. Ended(x, i, Keys, new, L, W, h)
  BY <1>4, <1>8, <1>9, <1>10, <1>11, <1>12, <1>13, LiveEnds DEF Y
<1>15. Changed(c, x) = Changed(c, a)
  BY <1>4 DEF Changed, Undeleted
<1> QED
  BY <1>14, <1>15 DEF W

(* cache_open.                                                             *)
LEMMA LiveFirst ==
  ASSUME NEW c, NEW i, NEW D, NEW lst, NEW L, Resting(c, i, D, lst, L), NEW h, Booked(c, i, D, L, h),
         ~i.saved, c.pool = <<>>, c.nodes = <<>>
  PROVE  Live(Empty, i, D, lst, L) /\ Booked(Empty, i, D, L, h) /\ Counted(Empty)
<1> DEFINE d == Empty
           X == D \union L
           none == {}
<1>1. HashInit \in HeadArrays /\ Buckets(HashInit) # 0 /\ \A b \in DOMAIN HashInit : HashInit[b] = 0
  <2>1. InitialBuckets \in Nat /\ InitialBuckets > 0
    BY PersistAssumption
  <2>2. HashInit \in [0..(InitialBuckets - 1) -> Nat] /\ \A b \in DOMAIN HashInit : HashInit[b] = 0
    BY <2>1 DEF HashInit, NoHeads
  <2>3. HashInit \in HeadArrays
    BY <2>1, <2>2 DEF HeadArrays
  <2>4. DOMAIN HashInit = 0..(Buckets(HashInit) - 1) /\ Buckets(HashInit) \in Nat
    BY <2>3, BucketsIs
  <2>5. 0 \in DOMAIN HashInit
    BY <2>1, <2>2
  <2> QED
    BY <2>2, <2>3, <2>4, <2>5
<1>2. /\ d.pool = <<>> /\ d.nodes = <<>> /\ d.heads = HashInit /\ d.size = 0 /\ d.sorted = {}
      /\ d.tree = TRUE /\ d.names = {} /\ d.count = 0 /\ d.mem = 0
  BY DEF Empty
<1>3. <<>> \in Seq(AnEntry) /\ <<>> \in Seq(ANode) /\ DOMAIN <<>> = none /\ Len(<<>>) = 0
  OBVIOUS
<1>4. IsCache(d)
  <2>1. NodesUp(d.nodes)
    BY <1>2, <1>3 DEF NodesUp
  <2>2. d \in ACache
    BY <1>1, <1>3 DEF ACache, Empty
  <2> QED
    BY <1>1, <1>2, <1>3, <2>1, <2>2 DEF IsCache
<1>5. Closed(d, d.heads, none)
  BY <1>1, <1>2 DEF Closed
<1>6. Undeleted(d) = {} /\ \A k : EntriesOf(d, k) = {}
  BY <1>2, <1>3 DEF Undeleted, EntriesOf
<1> HIDE DEF d, X, none
<1>7. Ordered(d, Linked(d)) /\ Linked(d) \subseteq none
  BY <1>4, <1>5, LinkedOrdered
<1>8. Fine(d, L)
  <2>1. Linked(d) = {}
    BY <1>7 DEF none
  <2>2. \A k \in Keys : Hashed(d, k) /\ InArray(d, k)
    BY <1>2, <1>6, <2>1 DEF Hashed, InArray, KeyNodes, OffsetsOf
  <2>3. Sized(d)
    BY <1>2, <1>6, FS_EmptySet DEF Sized
  <2> QED
    BY <2>2, <2>3 DEF Fine
<1>9. WalksOk(d, i, X) /\ AnIndex(i, d) /\ LatestOk(d, lst, L)
  <2>1. WalksOk(c, i, X) /\ AnIndex(i, c) /\ LatestOk(c, lst, L)
    BY DEF Resting, X
  <2>2. X \subseteq X
    OBVIOUS
  <2>3. WalksOk(d, i, X)
    BY <1>2, <2>1, <2>2, WalksStay
  <2> QED
    BY <1>2, <2>1, <2>3 DEF AnIndex, LatestOk, EntriesOf, Undeleted
<1>10. Older(HeadsOf(i), d.heads)
  <2>1. Buckets(HeadsOf(i)) = 1
    BY NoHeadsIs DEF HeadsOf
  <2> QED
    BY <2>1, OneBucket DEF Older
<1>11. Len(d.pool) <= PoolMax
  BY <1>2, <1>3, PersistAssumption
<1>12. Live(d, i, D, lst, L)
  BY <1>1, <1>2, <1>4, <1>7, <1>8, <1>9, <1>10, <1>11 DEF Live, InMemory, X
<1>13. Booked(d, i, D, L, h) /\ Counted(d)
  BY <1>2, <1>6, FS_EmptySet DEF Booked, Counted
<1> QED
  BY <1>12, <1>13 DEF d

LEMMA LiveLoaded ==
  ASSUME NEW c, NEW i, NEW D, NEW lst, NEW L, Resting(c, i, D, lst, L), NEW h, Booked(c, i, D, L, h), i.saved
  PROVE  LET d == Boot(c, i.hash.heads, i.hash.size, i.sorted, i.ns.tree, i.ns.names, h)
         IN  /\ Live(d, i, D, lst, L) /\ Booked(d, i, D, L, h)
             /\ d.count = h /\ Undeleted(d) = Undeleted(c)
<1> DEFINE d == Boot(c, i.hash.heads, i.hash.size, i.sorted, i.ns.tree, i.ns.names, h)
           X == D \union L
<1>1. /\ IsCache(c) /\ Len(c.pool) <= PoolMax /\ LatestOk(c, lst, L) /\ AnIndex(i, c) /\ WalksOk(c, i, X)
  BY DEF Resting, IsOff
<1>2. X = L /\ h \in Nat /\ (L = {} => D = {}) /\ X \subseteq X
  BY DEF Resting, Booked
<1>3. L = {} => i.hash.size = Cardinality(Undeleted(c))
  BY <1>2 DEF Booked
<1> HIDE DEF d, X
<1>4. /\ IsCache(d) /\ Ordered(d, Linked(d)) /\ Fine(d, L)
      /\ d.pool = c.pool /\ d.nodes = c.nodes /\ d.heads = i.hash.heads /\ d.count = h
  <2>1. WalksOk(c, i, L)
    BY <1>1, <1>2
  <2> QED
    BY <1>1, <1>2, <1>3, <2>1, LoadedIs DEF d
<1>5. WalksOk(d, i, X)
  BY <1>1, <1>2, <1>4, WalksStay
<1>6. AnIndex(i, d) /\ LatestOk(d, lst, L) /\ Undeleted(d) = Undeleted(c)
  BY <1>1, <1>4 DEF AnIndex, LatestOk, EntriesOf, Undeleted
<1>7. HeadsOf(i) = d.heads /\ Buckets(d.heads) # 0 /\ Older(d.heads, d.heads)
  BY <1>1, <1>4 DEF HeadsOf, AnIndex, Older, Splits
<1>8. Live(d, i, D, lst, L)
  BY <1>1, <1>4, <1>5, <1>6, <1>7 DEF Live, InMemory, X
<1>9. Booked(d, i, D, L, h)
  BY <1>6 DEF Booked
<1> QED
  BY <1>4, <1>6, <1>8, <1>9 DEF d

LEMMA LiveRebuilt ==
  ASSUME NEW c, NEW i, NEW D, NEW lst, NEW L, Resting(c, i, D, lst, L), NEW h, Booked(c, i, D, L, h), ~i.saved
  PROVE  Live(Rebuilt(c), i, D, lst, L) /\ Booked(Rebuilt(c), i, D, L, h) /\ Counted(Rebuilt(c))
<1> DEFINE d == Rebuilt(c)
<1>1. IsOff(c) /\ Len(c.pool) <= PoolMax /\ LatestOk(c, lst, L) /\ AnIndex(i, c)
  BY DEF Resting
<1>2. RebuiltOk(c, d)
  BY <1>1, RebuiltIs
<1> HIDE DEF d
<1>3. \A k \in Keys \ L : OneEntry(c, k)
  BY <1>1 DEF LatestOk, OneEntry
<1>4. /\ IsCache(d) /\ Ordered(d, Linked(d)) /\ d.pool = c.pool /\ Fine(d, L) /\ Counted(d)
      /\ Buckets(d.heads) = 0 => NothingToSave(d)
  <2>1. \A k \in Keys \ L : Hashed(d, k) /\ InArray(d, k)
    BY <1>2, <1>3 DEF RebuiltOk
  <2>2. ASSUME L = {} PROVE Sized(d)
    <3>1. \A k \in Keys : OneEntry(c, k)
      BY <1>3, <2>2
    <3> QED
      BY <1>2, <3>1 DEF RebuiltOk
  <2> QED
    BY <1>2, <2>1, <2>2 DEF RebuiltOk, Fine
<1>5. AnIndex(i, d) /\ LatestOk(d, lst, L)
  BY <1>1, <1>4 DEF AnIndex, LatestOk, EntriesOf, Undeleted
<1>6. HeadsOf(i) = NoHeads(1) /\ Buckets(HeadsOf(i)) = 1
  BY NoHeadsIs DEF HeadsOf
<1>7. Older(HeadsOf(i), d.heads)
  BY <1>6, OneBucket DEF Older
<1>8. WalksOk(d, i, D \union L)
  <2>1. Closed(d, HeadsOf(i), {})
    BY <1>6, NoHeadsIs DEF Closed
  <2> QED
    BY <2>1 DEF WalksOk
<1>9. Live(d, i, D, lst, L)
  BY <1>1, <1>4, <1>5, <1>7, <1>8 DEF Live, InMemory
<1>10. Booked(d, i, D, L, h)
  BY DEF Booked
<1> QED
  BY <1>4, <1>9, <1>10 DEF d

(* Every node the buckets lead to has an entry of its own, and every       *)
(* readable entry has a node.                                              *)
LEMMA LinkedCounted ==
  ASSUME NEW c, IsCache(c), AllHashed(c)
  PROVE  Cardinality(Linked(c)) = Cardinality(Undeleted(c))
<1> DEFINE S == Linked(c)
           U == Undeleted(c)
           f == [n \in S |-> c.nodes[n].entry]
<1>1. IsFiniteSet(U) /\ \A o \in U : c.pool[o].key \in Keys
  BY UndeletedIs
<1>2. S \subseteq DOMAIN c.nodes
  BY DEF Linked
<1> HIDE DEF S, U
<1>3. ASSUME NEW n \in S
      PROVE  /\ KeyAt(c, n) \in Keys /\ n \in KeyNodes(c, S, KeyAt(c, n))
             /\ f[n] \in EntriesOf(c, KeyAt(c, n)) /\ f[n] \in U
  <2>1. KeyAt(c, n) \in Keys /\ n \in KeyNodes(c, S, KeyAt(c, n))
    BY <1>2, <1>3, CacheFields DEF KeyNodes
  <2>2. Hashed(c, KeyAt(c, n))
    BY <2>1 DEF AllHashed
  <2>3. f[n] \in EntriesOf(c, KeyAt(c, n))
    BY <2>1, <2>2 DEF Hashed, S
  <2> QED
    BY <2>1, <2>3 DEF EntriesOf, U
<1>4. f \in [S -> U]
  BY <1>3
<1>5. ASSUME NEW n \in S, NEW m \in S, f[n] = f[m] PROVE n = m
  <2>1. KeyAt(c, m) = KeyAt(c, n)
    BY <1>5 DEF KeyAt
  <2>2. KeyAt(c, n) \in Keys /\ n \in KeyNodes(c, S, KeyAt(c, n)) /\ m \in KeyNodes(c, S, KeyAt(c, n))
    BY <1>3, <2>1
  <2>3. Hashed(c, KeyAt(c, n))
    BY <2>2 DEF AllHashed
  <2> QED
    BY <2>2, <2>3 DEF Hashed, S
<1>6. ASSUME NEW o \in U PROVE \E n \in S : f[n] = o
  <2> DEFINE k == c.pool[o].key
  <2>1. k \in Keys /\ o \in EntriesOf(c, k)
    BY <1>1 DEF EntriesOf, U
  <2> HIDE DEF k
  <2>2. Hashed(c, k)
    BY <2>1 DEF AllHashed
  <2>3. PICK n \in KeyNodes(c, S, k) : c.nodes[n].entry = o
    BY <2>1, <2>2 DEF Hashed, S
  <2>4. n \in S
    BY <2>3 DEF KeyNodes
  <2> QED
    BY <2>3, <2>4
<1>7. ExistsBijection(S, U)
  <2> HIDE DEF f
  <2>1. f \in Bijection(S, U)
    BY <1>4, <1>5, <1>6 DEF Bijection, Injection, Surjection, IsInjective
  <2> QED
    BY <2>1 DEF ExistsBijection
<1>8. IsFiniteSet(S)
  <2>1. Len(c.nodes) \in Nat /\ DOMAIN c.nodes = 1..Len(c.nodes)
    BY CacheFields
  <2>2. IsFiniteSet(1..Len(c.nodes))
    BY <2>1, FS_Interval
  <2> QED
    BY <1>2, <2>1, <2>2, FS_Subset
<1>9. Cardinality(U) = Cardinality(S)
  BY <1>7, <1>8, FS_Bijection
<1> QED
  BY <1>9 DEF S, U

-----------------------------------------------------------------------------
(* The invariant.                                                          *)

InPhase ==
  IF open THEN Live(cache, index, AtRisk, latest, lost) ELSE Resting(cache, index, AtRisk, latest, lost)

NeverOpened == ~open /\ ~index.saved /\ cache.pool = <<>> /\ cache.nodes = <<>>

Tallied ==
  IF open THEN ~uncounted => Counted(cache)
  ELSE ~uncounted /\ index.saved => header = Cardinality(Undeleted(cache))

Persisted ==
  /\ open \in BOOLEAN /\ grown \in BOOLEAN /\ uncounted \in BOOLEAN /\ sessions \in Nat /\ dirty \subseteq Keys
  /\ InPhase
  /\ Booked(cache, index, AtRisk, lost, header)
  /\ Tallied
  /\ sessions = 0 => NeverOpened

LEMMA PersistedInit == Init => Persisted
<1> SUFFICES ASSUME Init PROVE Persisted
  OBVIOUS
<1> DEFINE c == Off(Empty)
           none == {}
           zero == [k \in Keys |-> 0]
<1>1. /\ cache = c /\ open = FALSE /\ header = 0 /\ index = NoIndex /\ sessions = 0 /\ latest = zero
      /\ dirty = none /\ lost = none /\ AtRisk = none /\ grown = FALSE /\ uncounted = FALSE
  BY DEF Init, AtRisk
<1>2. /\ c.pool = <<>> /\ c.nodes = <<>> /\ c.heads = NoHeads(0) /\ c.size = 0 /\ c.sorted = {}
      /\ c.tree = FALSE /\ c.names = {} /\ c.count = 0 /\ c.mem = 0
  BY DEF Off, Empty
<1>3. <<>> \in Seq(AnEntry) /\ <<>> \in Seq(ANode) /\ DOMAIN <<>> = none /\ Len(<<>>) = 0
  OBVIOUS
<1>4. NoHeads(0) \in HeadArrays /\ DOMAIN NoHeads(0) = {} /\ NoHeads(1)[0] = 0 /\ DOMAIN NoHeads(1) = {0}
  BY NoHeadsIs
<1>5. c \in ACache
  BY <1>3, <1>4 DEF ACache, Off, Empty
<1> HIDE DEF c
<1>6. IsOff(c)
  <2>1. NodesUp(c.nodes)
    BY <1>2, <1>3 DEF NodesUp
  <2> QED
    BY <1>2, <1>3, <1>4, <1>5, <2>1 DEF IsCache, IsOff
<1>7. ~index.saved /\ index.saved \in BOOLEAN
  BY <1>1 DEF NoIndex
<1>8. WalksOk(c, index, none)
  <2>1. Closed(c, HeadsOf(index), {})
    BY <1>4, <1>7 DEF Closed, HeadsOf
  <2> QED
    BY <1>7, <2>1 DEF WalksOk
<1>9. LatestOk(c, latest, none)
  <2>1. latest \in [Keys -> Nat] /\ \A k \in Keys : latest[k] = 0
    BY <1>1
  <2>2. \A k : EntriesOf(c, k) = {}
    BY <1>2, <1>3 DEF EntriesOf, Undeleted
  <2> QED
    BY <2>1, <2>2 DEF LatestOk
<1>10. none \union none = none
  OBVIOUS
<1>11. InPhase
  BY <1>1, <1>2, <1>3, <1>6, <1>7, <1>8, <1>9, <1>10, PersistAssumption DEF InPhase, Resting, AnIndex
<1>12. Booked(cache, index, AtRisk, lost, header)
  BY <1>1, <1>7 DEF Booked
<1>13. Tallied
  BY <1>1, <1>7 DEF Tallied
<1> QED
  BY <1>1, <1>2, <1>7, <1>11, <1>12, <1>13 DEF Persisted, NeverOpened

LEMMA OpenKeeps ==
  ASSUME Persisted, Open
  PROVE  Persisted'
<1> DEFINE D == AtRisk
<1>1. /\ ~open /\ open' = TRUE /\ sessions \in Nat /\ sessions' = sessions + 1
      /\ header' = header /\ index' = index /\ latest' = latest /\ dirty' = dirty /\ grown' = grown /\ lost' = lost
      /\ uncounted' = (index.saved /\ uncounted) /\ index.saved \in BOOLEAN
      /\ grown \in BOOLEAN /\ uncounted \in BOOLEAN /\ dirty \subseteq Keys
  BY DEF Persisted, Open, InPhase, Resting, AnIndex
<1>2. /\ Resting(cache, index, D, latest, lost) /\ Booked(cache, index, D, lost, header)
      /\ ~uncounted /\ index.saved => header = Cardinality(Undeleted(cache))
  BY <1>1 DEF Persisted, InPhase, Tallied
<1>3. AtRisk' = D
  BY <1>1 DEF AtRisk
<1> HIDE DEF D
<1>4. /\ Live(cache', index, D, latest, lost) /\ Booked(cache', index, D, lost, header)
      /\ ~(index.saved /\ uncounted) => Counted(cache')
  <2>1. CASE sessions = 0
    <3>1. cache' = Empty /\ ~index.saved /\ cache.pool = <<>> /\ cache.nodes = <<>>
      BY <2>1 DEF Open, Persisted, NeverOpened
    <3>2. Live(Empty, index, D, latest, lost) /\ Booked(Empty, index, D, lost, header) /\ Counted(Empty)
      BY <1>2, <3>1, LiveFirst
    <3> QED
      BY <3>1, <3>2
  <2>2. CASE sessions # 0 /\ index.saved
    <3> DEFINE d == Boot(cache, index.hash.heads, index.hash.size, index.sorted, index.ns.tree, index.ns.names, header)
    <3>1. cache' = d
      BY <2>2 DEF Open, Loaded, Boot
    <3>2. /\ Live(d, index, D, latest, lost) /\ Booked(d, index, D, lost, header)
          /\ d.count = header /\ Undeleted(d) = Undeleted(cache)
      BY <1>2, <2>2, LiveLoaded
    <3> HIDE DEF d
    <3> QED
      BY <1>2, <2>2, <3>1, <3>2 DEF Counted
  <2>3. CASE sessions # 0 /\ ~index.saved
    <3>1. cache' = Rebuilt(cache)
      BY <2>3 DEF Open
    <3>2. Live(Rebuilt(cache), index, D, latest, lost) /\ Booked(Rebuilt(cache), index, D, lost, header) /\ Counted(Rebuilt(cache))
      BY <1>2, <2>3, LiveRebuilt
    <3> QED
      BY <3>1, <3>2
  <2> QED
    BY <2>1, <2>2, <2>3
<1>5. sessions' \in Nat /\ sessions' # 0 /\ uncounted' \in BOOLEAN
  BY <1>1
<1>6. InPhase'
  BY <1>1, <1>3, <1>4 DEF InPhase
<1>7. Booked(cache, index, AtRisk, lost, header)'
  BY <1>1, <1>3, <1>4
<1>8. Tallied'
  BY <1>1, <1>4 DEF Tallied
<1> QED
  BY <1>1, <1>5, <1>6, <1>7, <1>8 DEF Persisted

(* What every step of an open session starts from.                         *)
LEMMA Working ==
  ASSUME Persisted, open
  PROVE  /\ Live(cache, index, AtRisk, latest, lost) /\ Booked(cache, index, AtRisk, lost, header)
         /\ InMemory(cache, latest, lost) /\ IsCache(cache) /\ Ordered(cache, Linked(cache))
         /\ ~uncounted => Counted(cache)
         /\ sessions \in Nat /\ sessions # 0 /\ dirty \subseteq Keys
         /\ grown \in BOOLEAN /\ uncounted \in BOOLEAN /\ header \in Nat
BY DEF Persisted, InPhase, NeverOpened, Tallied, Live, InMemory, Booked

(* A call that leaves the session open.                                    *)
LEMMA NotedKeeps ==
  ASSUME Persisted, open, Noted, open' = open, header' = header, index' = index, sessions' = sessions,
         InMemory(cache', latest', lost),
         Moves(cache, cache', Changed(cache, cache')), Changed(cache, cache') \subseteq Keys,
         Buckets(cache'.heads) = 0 /\ NothingToSave(cache) => NothingToSave(cache'),
         Counted(cache) => Counted(cache')
  PROVE  Persisted'
<1> DEFINE D == AtRisk
           d == cache'
           new == latest'
<1>1. /\ Live(cache, index, D, latest, lost) /\ Booked(cache, index, D, lost, header)
      /\ ~uncounted => Counted(cache)
      /\ sessions \in Nat /\ sessions # 0 /\ dirty \subseteq Keys
      /\ grown \in BOOLEAN /\ uncounted \in BOOLEAN
  BY Working
<1>2. /\ dirty' = dirty \union Changed(cache, d)
      /\ grown' = (grown \/ Buckets(d.heads) # Buckets(cache.heads))
      /\ lost' = lost /\ uncounted' = uncounted
  BY DEF Noted
<1>3. AtRisk' = Raised(cache, d, D) /\ dirty' \subseteq Keys /\ grown' \in BOOLEAN
  BY <1>1, <1>2 DEF AtRisk, Raised
<1>4. InMemory(d, new, lost) /\ Moves(cache, d, Changed(cache, d)) /\ Changed(cache, d) \subseteq Keys
      /\ (Buckets(d.heads) = 0 /\ NothingToSave(cache) => NothingToSave(d))
  OBVIOUS
<1> HIDE DEF D, d, new
<1>5. Live(d, index, Raised(cache, d, D), new, lost) /\ Booked(d, index, Raised(cache, d, D), lost, header)
  BY <1>1, <1>4, LiveMoves
<1>6. InPhase'
  BY <1>2, <1>3, <1>5 DEF InPhase, d, new
<1>7. Booked(cache, index, AtRisk, lost, header)'
  BY <1>2, <1>3, <1>5 DEF d
<1>8. Tallied'
  BY <1>1, <1>2 DEF Tallied
<1> QED
  BY <1>1, <1>2, <1>3, <1>6, <1>7, <1>8 DEF Persisted

LEMMA SetKeeps ==
  ASSUME Persisted, NEW k \in Keys, Set(k)
  PROVE  Persisted'
<1>1. /\ open /\ Len(cache.pool) < PoolMax /\ Noted
      /\ open' = open /\ header' = header /\ index' = index /\ sessions' = sessions
  BY DEF Set
<1>2. InMemory(cache, latest, lost)
  BY <1>1, Working
<1>3. PICK e \in Evicted(cache) :
        IF ~Fits(e) THEN cache' = e /\ latest' = latest
        ELSE \E r \in Replaced(e, k) : cache' = Stored(r, k) /\ latest' = [latest EXCEPT ![k] = Len(r.pool) + 1]
  BY DEF Set
<1>4. /\ InMemory(cache', latest', lost)
      /\ Moves(cache, cache', Changed(cache, cache')) /\ Changed(cache, cache') \subseteq Keys
      /\ Buckets(cache'.heads) = 0 /\ NothingToSave(cache) => NothingToSave(cache')
      /\ Counted(cache) => Counted(cache')
  BY <1>1, <1>2, <1>3, SetIs
<1> QED
  BY <1>1, <1>4, NotedKeeps

LEMMA DelKeeps ==
  ASSUME Persisted, NEW k \in Keys, Del(k)
  PROVE  Persisted'
<1>1. /\ open /\ Find(cache, k) # 0 /\ cache' \in Removed(cache, Find(cache, k))
      /\ latest' = [latest EXCEPT ![k] = 0] /\ Noted
      /\ open' = open /\ header' = header /\ index' = index /\ sessions' = sessions
  BY DEF Del
<1>2. InMemory(cache, latest, lost)
  BY <1>1, Working
<1>3. /\ InMemory(cache', [latest EXCEPT ![k] = 0], lost)
      /\ Moves(cache, cache', Changed(cache, cache')) /\ Changed(cache, cache') \subseteq Keys
      /\ NothingToSave(cache) => NothingToSave(cache')
      /\ Counted(cache) => Counted(cache')
  BY <1>1, <1>2, DelIs
<1>4. InMemory(cache', latest', lost)
  BY <1>1, <1>3
<1> QED
  BY <1>1, <1>3, <1>4, NotedKeeps

(* cache_index_save, when it succeeds.                                     *)
LEMMA SaveKeeps ==
  ASSUME Persisted, open, SaveIndex(cache)
  PROVE  /\ Live(cache, index', AtRisk', latest, lost)
         /\ Booked(cache, index', AtRisk', lost, header)
         /\ index'.saved => AtRisk' = {}
         /\ dirty' \subseteq Keys /\ grown' \in BOOLEAN
<1>1. /\ Live(cache, index, AtRisk, latest, lost) /\ Booked(cache, index, AtRisk, lost, header)
      /\ dirty \subseteq Keys /\ grown \in BOOLEAN
  BY Working
<1>2. CASE NothingToSave(cache)
  <2>1. index' = index /\ dirty' = dirty /\ grown' = grown
    BY <1>2 DEF SaveIndex
  <2>2. AtRisk' = AtRisk
    BY <2>1 DEF AtRisk
  <2>3. ~index.saved
    BY <1>1, <1>2 DEF Live, NothingToSave
  <2> QED
    BY <1>1, <2>1, <2>2, <2>3
<1>3. CASE ~NothingToSave(cache)
  <2> DEFINE i == Image(cache)
             none == {}
  <2>1. index' = i /\ dirty' = none /\ grown' = FALSE
    BY <1>3 DEF SaveIndex
  <2>2. AtRisk' = none
    BY <2>1 DEF AtRisk
  <2>3. Live(cache, i, none, latest, lost) /\ Booked(cache, i, none, lost, header)
    BY <1>1, <1>3, LiveSaves
  <2> HIDE DEF i
  <2> QED
    BY <2>1, <2>2, <2>3
<1> QED
  BY <1>2, <1>3

LEMMA SyncKeeps ==
  ASSUME Persisted, Sync
  PROVE  Persisted'
<1>1. /\ open /\ header' = cache.count /\ uncounted' = uncounted
      /\ cache' = cache /\ open' = open /\ sessions' = sessions /\ latest' = latest /\ lost' = lost
  BY DEF Sync
<1>2. /\ Live(cache, index, AtRisk, latest, lost) /\ Booked(cache, index, AtRisk, lost, header)
      /\ IsCache(cache) /\ (~uncounted => Counted(cache))
      /\ sessions \in Nat /\ sessions # 0 /\ dirty \subseteq Keys /\ grown \in BOOLEAN /\ uncounted \in BOOLEAN
  BY <1>1, Working
<1>3. /\ Live(cache, index', AtRisk', latest, lost) /\ Booked(cache, index', AtRisk', lost, header)
      /\ dirty' \subseteq Keys /\ grown' \in BOOLEAN
  <2>1. CASE SaveIndex(cache)
    BY <1>1, <2>1, SaveKeeps
  <2>2. CASE index' = index /\ dirty' = dirty /\ grown' = grown
    <3>1. AtRisk' = AtRisk
      BY <2>2 DEF AtRisk
    <3> QED
      BY <1>2, <2>2, <3>1
  <2> QED
    BY <2>1, <2>2 DEF Sync
<1>4. InPhase'
  BY <1>1, <1>3 DEF InPhase
<1>5. Booked(cache, index, AtRisk, lost, header)'
  <2>1. cache.count \in Nat
    BY <1>2 DEF IsCache, ACache
  <2> QED
    BY <1>1, <1>3, <2>1 DEF Booked
<1>6. Tallied'
  BY <1>1, <1>2 DEF Tallied
<1> QED
  BY <1>1, <1>2, <1>3, <1>4, <1>5, <1>6 DEF Persisted

(* The session is over, in a way that leaves index.bin and the histories   *)
(* as they are now.                                                        *)
LEMMA EndKeeps ==
  ASSUME Persisted, open, NEW x, NEW W, Ended(x, index', AtRisk', latest', lost, W, header'),
         open' = FALSE, cache' = Off(x), sessions' = sessions, lost' = Left(index', AtRisk', lost, W),
         dirty' \subseteq Keys, grown' \in BOOLEAN, uncounted' \in BOOLEAN,
         ~uncounted' => header' = Cardinality(Undeleted(x))
  PROVE  Persisted'
<1>1. sessions \in Nat /\ sessions # 0
  BY Working
<1>2. /\ Resting(Off(x), index', AtRisk', latest', lost') /\ Booked(Off(x), index', AtRisk', lost', header')
      /\ Undeleted(Off(x)) = Undeleted(x)
  BY DEF Ended
<1>3. InPhase'
  BY <1>2 DEF InPhase
<1>4. Booked(cache, index, AtRisk, lost, header)'
  BY <1>2
<1>5. Tallied'
  BY <1>2 DEF Tallied
<1> QED
  BY <1>1, <1>3, <1>4, <1>5 DEF Persisted

(* cache_close and the kill inside it.                                     *)
LEMMA ClosingEnds ==
  ASSUME NEW c, NEW i, NEW D, NEW lst, NEW L, Live(c, i, D, lst, L), NEW h, Booked(c, i, D, L, h), NEW g \in Nat
  PROVE  Ended(c, i, D, lst, L, {}, g)
<1> DEFINE none == {}
<1>1. IsCache(c) /\ Len(c.pool) <= PoolMax /\ AnIndex(i, c) /\ WalksOk(c, i, D \union L) /\ LatestOk(c, lst, L)
  BY DEF Live, InMemory
<1>2. Booked(c, i, D, L, g)
  BY DEF Booked
<1>3. L \subseteq Left(i, D, L, none) /\ none \in SUBSET Keys
  BY DEF Left
<1> HIDE DEF none
<1>4. LatestOk(c, lst, Left(i, D, L, none))
  BY <1>1, <1>3, LatestMore
<1>5. Ended(c, i, D, lst, L, none, g)
  BY <1>1, <1>2, <1>3, <1>4, LiveEnds
<1> QED
  BY <1>5 DEF none

LEMMA CloseKeeps ==
  ASSUME Persisted, Close
  PROVE  Persisted'
<1>1. /\ open /\ open' = FALSE /\ header' = cache.count /\ cache' = Off(cache)
      /\ sessions' = sessions /\ latest' = latest /\ uncounted' = uncounted
  BY DEF Close
<1>2. /\ Live(cache, index, AtRisk, latest, lost) /\ Booked(cache, index, AtRisk, lost, header)
      /\ IsCache(cache) /\ (~uncounted => Counted(cache))
      /\ dirty \subseteq Keys /\ grown \in BOOLEAN /\ uncounted \in BOOLEAN
  BY <1>1, Working
<1>3. /\ Live(cache, index', AtRisk', latest, lost) /\ Booked(cache, index', AtRisk', lost, header)
      /\ lost' = Left(index', AtRisk', lost, {}) /\ dirty' \subseteq Keys /\ grown' \in BOOLEAN
  <2>1. CASE SaveIndex(cache) /\ lost' = lost
    <3>1. /\ Live(cache, index', AtRisk', latest, lost) /\ Booked(cache, index', AtRisk', lost, header)
          /\ index'.saved => AtRisk' = {}
          /\ dirty' \subseteq Keys /\ grown' \in BOOLEAN
      BY <1>1, <2>1, SaveKeeps
    <3> QED
      BY <2>1, <3>1 DEF Left
  <2>2. CASE lost' = LostWith(AtRisk) /\ index' = index /\ dirty' = dirty /\ grown' = grown
    <3>1. AtRisk' = AtRisk
      BY <2>2 DEF AtRisk
    <3> QED
      BY <1>2, <2>2, <3>1 DEF Left, LostWith
  <2> QED
    BY <2>1, <2>2 DEF Close
<1>4. cache.count \in Nat
  BY <1>2 DEF IsCache, ACache
<1>5. Ended(cache, index', AtRisk', latest', lost, {}, header')
  <2> DEFINE i == index'
             D == AtRisk'
             g == header'
  <2>1. Live(cache, i, D, latest, lost) /\ Booked(cache, i, D, lost, header) /\ g \in Nat
    BY <1>1, <1>3, <1>4
  <2> HIDE DEF i, D, g
  <2>2. Ended(cache, i, D, latest, lost, {}, g)
    BY <2>1, ClosingEnds
  <2> QED
    BY <1>1, <2>2 DEF i, D, g
<1>6. ~uncounted' => header' = Cardinality(Undeleted(cache))
  BY <1>1, <1>2 DEF Counted
<1> QED
  BY <1>1, <1>2, <1>3, <1>5, <1>6, EndKeeps

LEMMA KillInCloseKeeps ==
  ASSUME Persisted, KillInClose
  PROVE  Persisted'
<1>1. /\ open /\ open' = FALSE /\ header' = header /\ cache' = Off(cache) /\ SaveIndex(cache)
      /\ sessions' = sessions /\ latest' = latest /\ lost' = lost
      /\ uncounted' = (header # Cardinality(Undeleted(cache)))
  BY DEF KillInClose
<1>2. /\ Live(cache, index', AtRisk', latest, lost) /\ Booked(cache, index', AtRisk', lost, header)
      /\ index'.saved => AtRisk' = {}
      /\ dirty' \subseteq Keys /\ grown' \in BOOLEAN
  BY <1>1, SaveKeeps
<1>3. lost' = Left(index', AtRisk', lost, {})
  BY <1>1, <1>2 DEF Left
<1>4. Ended(cache, index', AtRisk', latest', lost, {}, header')
  <2> DEFINE i == index'
             D == AtRisk'
  <2>1. Live(cache, i, D, latest, lost) /\ Booked(cache, i, D, lost, header) /\ header \in Nat
    BY <1>1, <1>2, Working
  <2> HIDE DEF i, D
  <2>2. Ended(cache, i, D, latest, lost, {}, header)
    BY <2>1, ClosingEnds
  <2> QED
    BY <1>1, <2>2 DEF i, D
<1>5. uncounted' \in BOOLEAN /\ (~uncounted' => header' = Cardinality(Undeleted(cache)))
  BY <1>1
<1> QED
  BY <1>1, <1>2, <1>3, <1>4, <1>5, EndKeeps

(* The process dies in the state x.                                        *)
LEMMA DiesKeeps ==
  ASSUME Persisted, open, NEW x, NEW half, NEW resizing \in BOOLEAN, Dies(x, half, resizing),
         Changed(cache, x) \subseteq Keys, ~resizing => Buckets(x.heads) = Buckets(cache.heads),
         NEW E, E = (IF resizing THEN Keys ELSE Raised(cache, x, AtRisk)),
         NEW W, W = half \intersect {Nameless},
         NEW new, latest' = new, Ended(x, index, E, new, lost, W, header)
  PROVE  Persisted'
<1>1. /\ open' = FALSE /\ cache' = Off(x) /\ dirty' = dirty \union Changed(cache, x)
      /\ grown' = (grown \/ resizing) /\ lost' = LostWith(AtRisk') \union W
      /\ uncounted' = (header # Cardinality(Undeleted(x)))
      /\ header' = header /\ index' = index /\ sessions' = sessions
  BY DEF Dies
<1>2. dirty \subseteq Keys /\ grown \in BOOLEAN
  BY Working
<1>3. AtRisk' = E /\ dirty' \subseteq Keys /\ grown' \in BOOLEAN /\ uncounted' \in BOOLEAN
  <2>1. CASE resizing
    BY <1>1, <1>2, <2>1 DEF AtRisk
  <2>2. CASE ~resizing
    <3>1. E = AtRisk \union Changed(cache, x)
      BY <2>2 DEF Raised
    <3>2. grown' = grown
      BY <1>1, <1>2, <2>2
    <3> QED
      BY <1>1, <1>2, <3>1, <3>2 DEF AtRisk
  <2> QED
    BY <2>1, <2>2
<1>4. lost' = Left(index', AtRisk', lost, W)
  BY <1>1 DEF Left, LostWith
<1>5. Ended(x, index', AtRisk', latest', lost, W, header')
  BY <1>1, <1>3
<1>6. ~uncounted' => header' = Cardinality(Undeleted(x))
  BY <1>1
<1> QED
  BY <1>1, <1>3, <1>4, <1>5, <1>6, EndKeeps

(* ... having done nothing yet but take entries out.                       *)
LEMMA ShedsKeeps ==
  ASSUME Persisted, open, NEW x, Sheds(cache, x), Dies(x, {}, FALSE), latest' = latest
  PROVE  Persisted'
<1> DEFINE none == {}
           no == FALSE
<1>1. Live(cache, index, AtRisk, latest, lost) /\ Booked(cache, index, AtRisk, lost, header)
  BY Working
<1>2. /\ Ended(x, index, Raised(cache, x, AtRisk), latest, lost, {}, header)
      /\ Changed(cache, x) \subseteq Keys /\ Buckets(x.heads) = Buckets(cache.heads)
  BY <1>1, LiveSheds
<1>3. none = none \intersect {Nameless} /\ no \in BOOLEAN /\ Raised(cache, x, AtRisk) = (IF no THEN Keys ELSE Raised(cache, x, AtRisk))
  OBVIOUS
<1>4. Dies(x, none, no) /\ Ended(x, index, Raised(cache, x, AtRisk), latest, lost, none, header)
  BY <1>2
<1> HIDE DEF none, no
<1> QED
  BY <1>2, <1>3, <1>4, DiesKeeps

LEMMA KillKeeps ==
  ASSUME Persisted, Kill
  PROVE  Persisted'
<1>1. open /\ Dies(cache, {}, FALSE) /\ latest' = latest
  BY DEF Kill
<1>2. Loses(cache, cache)
  BY <1>1, Working, LosesNothing
<1>3. Sheds(cache, cache)
  BY <1>2, LosesSheds
<1> QED
  BY <1>1, <1>3, ShedsKeeps

LEMMA KillInSetKeeps ==
  ASSUME Persisted, NEW k \in Keys, KillInSet(k)
  PROVE  Persisted'
<1>1. open /\ latest' = latest
  BY DEF KillInSet
<1>2. PICK x \in InSet(cache, k) : Dies(x, {}, FALSE)
  BY DEF KillInSet
<1>3. Sheds(cache, x)
  BY <1>1, <1>2, Working, InSetSheds
<1> QED
  BY <1>1, <1>2, <1>3, ShedsKeeps

LEMMA KillInDelKeeps ==
  ASSUME Persisted, NEW k \in Keys, KillInDel(k)
  PROVE  Persisted'
<1>1. open /\ latest' = latest /\ Find(cache, k) # 0 /\ Dies(Flagged(cache, Find(cache, k)), {}, FALSE)
  BY DEF KillInDel
<1>2. IsCache(cache) /\ Ordered(cache, Linked(cache))
  BY <1>1, Working
<1>3. Find(cache, k) \in Undeleted(cache) /\ Loses(cache, cache)
  BY <1>1, <1>2, FindIs, LosesNothing DEF EntriesOf
<1>4. Sheds(cache, Flagged(cache, Find(cache, k)))
  BY <1>2, <1>3, MarkSheds
<1> QED
  BY <1>1, <1>4, ShedsKeeps

LEMMA KillInHeaderKeeps ==
  ASSUME Persisted, NEW k \in Keys, KillInHeader(k)
  PROVE  Persisted'
<1> DEFINE half == {Nameless}
           no == FALSE
<1>1. open /\ latest' = latest /\ Len(cache.pool) < PoolMax
  BY DEF KillInHeader
<1>2. PICK e \in Evicted(cache) : \E r \in Replaced(e, k) : Dies(Appended(r, Nameless), half, no)
  BY DEF KillInHeader
<1>3. PICK r \in Replaced(e, k) : Dies(Appended(r, Nameless), half, no)
  BY <1>2
<1>4. PICK x : x = Appended(r, Nameless)
  OBVIOUS
<1>5. Live(cache, index, AtRisk, latest, lost) /\ Booked(cache, index, AtRisk, lost, header)
  BY <1>1, Working
<1>6. /\ Ended(x, index, Raised(cache, x, AtRisk), latest, lost, half, header)
      /\ Changed(cache, x) \subseteq Keys /\ Buckets(x.heads) = Buckets(cache.heads)
  BY <1>1, <1>4, <1>5, LiveHeader
<1>7. /\ half = half \intersect {Nameless} /\ no \in BOOLEAN
      /\ Raised(cache, x, AtRisk) = (IF no THEN Keys ELSE Raised(cache, x, AtRisk))
  OBVIOUS
<1>8. Dies(x, half, no)
  BY <1>3, <1>4
<1> HIDE DEF half, no
<1> QED
  BY <1>1, <1>6, <1>7, <1>8, DiesKeeps

LEMMA KillInValueKeeps ==
  ASSUME Persisted, NEW k \in Keys \ {Nameless}, KillInValue(k)
  PROVE  Persisted'
<1>1. open /\ Len(cache.pool) < PoolMax
  BY DEF KillInValue
<1>2. PICK e \in Evicted(cache) :
        \E r \in Replaced(e, k) :
          /\ latest' = [latest EXCEPT ![k] = Len(r.pool) + 1]
          /\ \/ \E half \in SUBSET {k} : Dies(Appended(r, k), half, FALSE)
             \/ \E x \in HalfResized(Appended(r, k)) : Dies(x, {}, TRUE)
  BY DEF KillInValue
<1>3. PICK r \in Replaced(e, k) :
        /\ latest' = [latest EXCEPT ![k] = Len(r.pool) + 1]
        /\ \/ \E half \in SUBSET {k} : Dies(Appended(r, k), half, FALSE)
           \/ \E x \in HalfResized(Appended(r, k)) : Dies(x, {}, TRUE)
  BY <1>2
<1>4. PICK a : a = Appended(r, k)
  OBVIOUS
<1>5. PICK new : new = [latest EXCEPT ![k] = Len(r.pool) + 1]
  OBVIOUS
<1>6. Live(cache, index, AtRisk, latest, lost) /\ Booked(cache, index, AtRisk, lost, header)
  BY <1>1, Working
<1>15. k \in Keys
  OBVIOUS
<1>7. /\ Ended(a, index, Raised(cache, a, AtRisk), new, lost, {}, header)
      /\ Changed(cache, a) \subseteq Keys /\ Buckets(a.heads) = Buckets(cache.heads)
      /\ Moves(cache, a, Changed(cache, a)) /\ Len(a.pool) <= PoolMax
      /\ \A M : lost \subseteq M => LatestOk(a, new, M)
  <2>1. ValueEnds(cache, a, index, AtRisk, new, lost, header)
    BY <1>1, <1>4, <1>5, <1>6, <1>15, LiveValue
  <2> QED
    BY <2>1 DEF ValueEnds
<1>8. latest' = new
  BY <1>3, <1>5
<1>9. CASE \E half \in SUBSET {k} : Dies(a, half, FALSE)
  <2> DEFINE none == {}
             no == FALSE
  <2>1. PICK half \in SUBSET {k} : Dies(a, half, no)
    BY <1>9
  <2>2. /\ none = half \intersect {Nameless} /\ no \in BOOLEAN
        /\ Raised(cache, a, AtRisk) = (IF no THEN Keys ELSE Raised(cache, a, AtRisk))
    OBVIOUS
  <2>3. Ended(a, index, Raised(cache, a, AtRisk), new, lost, none, header)
    BY <1>7
  <2> HIDE DEF none, no
  <2> QED
    BY <1>1, <1>7, <1>8, <2>1, <2>2, <2>3, DiesKeeps
<1>10. CASE \E x \in HalfResized(a) : Dies(x, {}, TRUE)
  <2> DEFINE none == {}
             yes == TRUE
  <2>1. PICK x \in HalfResized(a) : Dies(x, none, yes)
    BY <1>10
  <2>2. Ended(x, index, Keys, new, lost, none, header) /\ Changed(cache, x) \subseteq Keys
    <3>1. /\ Moves(cache, a, Changed(cache, a)) /\ Changed(cache, a) \subseteq Keys /\ Len(a.pool) <= PoolMax
          /\ (\A M : lost \subseteq M => LatestOk(a, new, M))
      BY <1>7
    <3>2. Ended(x, index, Keys, new, lost, {}, header) /\ Changed(cache, x) \subseteq Keys
      BY <1>6, <2>1, <3>1, LiveHalves
    <3> QED
      BY <3>2 DEF none
  <2>3. /\ none = none \intersect {Nameless} /\ yes \in BOOLEAN /\ yes
        /\ Keys = (IF yes THEN Keys ELSE Raised(cache, x, AtRisk))
    OBVIOUS
  <2> HIDE DEF none, yes
  <2> QED
    BY <1>1, <1>8, <2>1, <2>2, <2>3, DiesKeeps
<1> QED
  BY <1>3, <1>4, <1>9, <1>10

LEMMA PersistedInductive == Persisted /\ [Next]_vars => Persisted'
<1> SUFFICES ASSUME Persisted, [Next]_vars PROVE Persisted'
  OBVIOUS
<1>1. CASE Open
  BY <1>1, OpenKeeps
<1>2. CASE Sync
  BY <1>2, SyncKeeps
<1>3. CASE Close
  BY <1>3, CloseKeeps
<1>4. CASE KillInClose
  BY <1>4, KillInCloseKeeps
<1>5. CASE Kill
  BY <1>5, KillKeeps
<1>6. ASSUME NEW k \in Keys \ {Nameless}, Set(k) PROVE Persisted'
  BY <1>6, SetKeeps
<1>7. ASSUME NEW k \in Keys \ {Nameless}, Del(k) PROVE Persisted'
  BY <1>7, DelKeeps
<1>8. ASSUME NEW k \in Keys \ {Nameless}, KillInSet(k) PROVE Persisted'
  BY <1>8, KillInSetKeeps
<1>9. ASSUME NEW k \in Keys \ {Nameless}, KillInHeader(k) PROVE Persisted'
  BY <1>9, KillInHeaderKeeps
<1>10. ASSUME NEW k \in Keys \ {Nameless}, KillInValue(k) PROVE Persisted'
  BY <1>10, KillInValueKeeps
<1>11. ASSUME NEW k \in Keys \ {Nameless}, KillInDel(k) PROVE Persisted'
  BY <1>11, KillInDelKeeps
<1>12. CASE UNCHANGED vars
  BY <1>12 DEF vars, Persisted, InPhase, NeverOpened, Tallied, AtRisk
<1> QED
  BY <1>1, <1>2, <1>3, <1>4, <1>5, <1>6, <1>7, <1>8, <1>9, <1>10, <1>11, <1>12 DEF Next

-----------------------------------------------------------------------------
(* Theorems.                                                               *)

(* The inductive invariant holds in every reachable state: what is in      *)
(* memory, the nodes and entries in cache.bin and the array of buckets in  *)
(* index.bin, however much older, fit together, whatever failed to be      *)
(* saved and wherever a session was killed: between two calls, inside the  *)
(* making of room, the writing of an entry, the doubling of the array or   *)
(* cache_close.                                                            *)
THEOREM DirectoryConsistent == Spec => []Persisted
<1> QED
  BY PersistedInit, PersistedInductive, PTL DEF Spec

(* Every bucket chain is finite and holds only keys of its bucket, also    *)
(* after cache_open took an index.bin whose bucket array is older than the *)
(* nodes of cache.bin: the loops of hash_index.c over a chain end, for any *)
(* keys, hashes, table sizes and any number of sessions and kills, one     *)
(* that left the nodes half dealt out to a larger array included.          *)
THEOREM ChainsAlwaysSound == Spec => []ChainsSound
<1>1. Persisted => ChainsSound
  <2> SUFFICES ASSUME Persisted, NEW b \in DOMAIN cache.heads
               PROVE  LET ch == Chain(cache.nodes, cache.heads[b])
                      IN  /\ Len(ch) <= Len(cache.nodes)
                          /\ \A i \in DOMAIN ch : HashOf[KeyAt(cache, ch[i])] % Buckets(cache.heads) = b
    BY DEF ChainsSound
  <2>1. IsCache(cache) /\ Ordered(cache, Linked(cache))
    BY IsOffOrdered DEF Persisted, InPhase, Live, InMemory, Resting, IsOff
  <2>2. Closed(cache, cache.heads, Linked(cache))
    BY <2>1 DEF Ordered
  <2>3. LET ch == Chain(cache.nodes, cache.heads[b])
        IN  /\ IsChain(cache.nodes, cache.heads[b], ch)
            /\ \A i \in DOMAIN ch : HashAt(cache, ch[i]) % Buckets(cache.heads) = b
    BY <2>1, <2>2, ChainClosed
  <2> QED
    BY <2>3 DEF IsChain, HashAt
<1> QED
  BY <1>1, DirectoryConsistent, PTL

(* A key that is not at risk is read as its last store left it: no session *)
(* loses it, takes an older entry for it, or finds it after it was         *)
(* deleted, over kills at any place of the calls.  At risk are the keys    *)
(* changed after index.bin was last written, every key once the array was  *)
(* doubled after that, and a key whose value was being written.            *)
THEOREM ReadsAlwaysKept == Spec => []ReadsKept
<1>1. Persisted => ReadsKept
  <2> SUFFICES ASSUME Persisted, open, NEW k \in Keys \ lost PROVE Find(cache, k) = Expected(k)
    BY DEF ReadsKept
  <2>1. InMemory(cache, latest, lost) /\ IsCache(cache) /\ Ordered(cache, Linked(cache))
    BY Working
  <2>2. Hashed(cache, k) /\ EntriesOf(cache, k) \subseteq {latest[k]}
    BY <2>1 DEF InMemory, Fine, LatestOk
  <2>3. /\ Find(cache, k) # 0 => Find(cache, k) \in EntriesOf(cache, k)
        /\ Find(cache, k) = 0 => EntriesOf(cache, k) = {}
    BY <2>1, <2>2, FindIs
  <2>4. latest[k] # 0 /\ latest[k] \in Undeleted(cache) => latest[k] \in EntriesOf(cache, k)
    BY <2>1 DEF InMemory, LatestOk, EntriesOf
  <2>5. EntriesOf(cache, k) \subseteq Undeleted(cache)
    BY DEF EntriesOf
  <2> QED
    BY <2>2, <2>3, <2>4, <2>5 DEF Expected
<1> QED
  BY <1>1, DirectoryConsistent, PTL

(* What such a key reads is in the sorted array, and in the namespace tree *)
(* when there is one: prefix search and iteration do not miss it.          *)
THEOREM ListedAlwaysKept == Spec => []ListedKept
<1>1. Persisted => ListedKept
  <2> SUFFICES ASSUME Persisted, open, NEW k \in Keys \ lost, Find(cache, k) # 0
               PROVE  Find(cache, k) \in cache.sorted /\ (cache.tree => Find(cache, k) \in cache.names)
    BY DEF ListedKept
  <2>1. InMemory(cache, latest, lost) /\ IsCache(cache) /\ Ordered(cache, Linked(cache))
    BY Working
  <2>2. Hashed(cache, k) /\ InArray(cache, k)
    BY <2>1 DEF InMemory, Fine
  <2>3. Find(cache, k) \in EntriesOf(cache, k)
    BY <2>1, FindIs
  <2> QED
    BY <2>2, <2>3 DEF Hashed, InArray, OffsetsOf
<1> QED
  BY <1>1, DirectoryConsistent, PTL

(* While no key is at risk hash.size is the number of nodes in the chains, *)
(* and unless a kill left another number in the header of cache.bin        *)
(* entry_count is the number of entries: cache_open reads the two from     *)
(* different files, written one after the other.                           *)
THEOREM CountersAlwaysKept == Spec => []CountersKept
<1>1. Persisted => CountersKept
  <2> SUFFICES ASSUME Persisted, open
               PROVE  /\ lost = {} => cache.size = Cardinality(Linked(cache))
                      /\ ~uncounted => cache.count = Cardinality(Undeleted(cache))
    BY DEF CountersKept
  <2>1. IsCache(cache) /\ Fine(cache, lost) /\ (~uncounted => Counted(cache))
    BY Working DEF InMemory
  <2>2. ASSUME lost = {} PROVE cache.size = Cardinality(Linked(cache))
    <3>1. AllHashed(cache) /\ Sized(cache)
      BY <2>1, <2>2 DEF Fine, AllHashed
    <3>2. Cardinality(Linked(cache)) = Cardinality(Undeleted(cache))
      BY <2>1, <3>1, LinkedCounted
    <3> QED
      BY <3>1, <3>2 DEF Sized
  <2> QED
    BY <2>1, <2>2 DEF Counted
<1> QED
  BY <1>1, DirectoryConsistent, PTL
=============================================================================
