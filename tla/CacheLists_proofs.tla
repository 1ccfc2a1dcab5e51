------------------------- MODULE CacheLists_proofs -------------------------
(***************************************************************************)
(* Proofs about CacheLists for any keys, namespaces, values and tags and   *)
(* any number of entries.                                                  *)
(*                                                                         *)
(* The invariant, Sound, says of each list what it promises about the      *)
(* entries that can be read: the index finds them, the sorted array, the   *)
(* tree and the tags list them.  Of entries that cannot be read any more   *)
(* it says only that a list that still has them has them once, so a        *)
(* removal by key may take whichever entry of the key it meets, provided   *)
(* that none of them can be read (Gone).  The loops are recursive          *)
(* functions; LoopExists and LoopStays are what every proof about one of   *)
(* them uses.                                                              *)
(***************************************************************************)
EXTENDS CacheLists, SequenceTheorems, NaturalsInduction, WellFoundedInduction, FiniteSetTheorems, TLAPS

-----------------------------------------------------------------------------
(* The invariant.                                                          *)

Entries == [key : Keys, value : Values, deleted : BOOLEAN, expired : BOOLEAN]

(* The entries of a pool that can be read.                                 *)
Live(P) == {o \in DOMAIN P : ~P[o].deleted /\ ~P[o].expired}

HashOk(h, P) ==
  /\ h \in [Keys -> Nat]
  /\ \A k \in Keys : h[k] # 0 => h[k] \in DOMAIN P /\ P[h[k]].key = k
  /\ \A o \in Live(P) : h[P[o].key] = o

(* No entry is listed twice.                                               *)
ListOk(s, P) == s \in Seq(DOMAIN P) /\ IsInjective(s)

InKeyOrder(s, P) == \A i, j \in DOMAIN s : i <= j => P[s[i]].key <= P[s[j]].key

SortedOk(s, dirty, P) ==
  /\ ListOk(s, P)
  /\ Live(P) \subseteq ToSet(s)
  /\ dirty \in BOOLEAN
  /\ ~dirty => InKeyOrder(s, P)

Nodes == [up : Nat, path : Seq(Names), offsets : Seq(Nat)]

(* The root comes first, and the path of a node is that of the one above   *)
(* it with one name more.                                                  *)
TreeOk(t) ==
  /\ t \in Seq(Nodes)
  /\ 1 \in DOMAIN t /\ t[1].path = <<>>
  /\ \A n \in DOMAIN t : n # 1 =>
       /\ t[n].up \in DOMAIN t
       /\ \E name \in Names : t[n].path = Append(t[t[n].up].path, name)

(* Every entry is in one node at most, in one with the path of its key,    *)
(* and one that can be read is in one.                                     *)
Filed(t, P) ==
  /\ \A n \in DOMAIN t : ListOk(t[n].offsets, P)
  /\ \A n, m \in DOMAIN t : \A o \in ToSet(t[n].offsets) : o \in ToSet(t[m].offsets) => n = m
  /\ \A n \in DOMAIN t : \A o \in ToSet(t[n].offsets) : t[n].path = PathOf[P[o].key]
  /\ \A o \in Live(P) : \E n \in DOMAIN t : o \in ToSet(t[n].offsets)

(* A tag lists entries that have it, and all of those that can be read.    *)
TagsOk(tags, P) ==
  /\ DOMAIN tags = Tags
  /\ \A t \in Tags : /\ ListOk(tags[t], P)
                     /\ \A o \in ToSet(tags[t]) : t \in Tokens[P[o].value]
                     /\ \A o \in Live(P) : t \in Tokens[P[o].value] => o \in ToSet(tags[t])

IsCache(c) == DOMAIN c = {"pool", "hash", "sorted", "dirty", "nodes", "tags"}

CacheOk(c) ==
  /\ IsCache(c)
  /\ c.pool \in Seq(Entries)
  /\ HashOk(c.hash, c.pool)
  /\ SortedOk(c.sorted, c.dirty, c.pool)
  /\ TreeOk(c.nodes) /\ Filed(c.nodes, c.pool)
  /\ TagsOk(c.tags, c.pool)

(* What an iterator at i has returned lies behind it, and what is due and  *)
(* was not returned lies before it.                                        *)
Iterated(s, i, returned, expected, P) ==
  /\ returned \in Seq(DOMAIN P) /\ IsInjective(returned)
  /\ ToSet(returned) \subseteq {s[j] : j \in {j \in DOMAIN s : j <= i}}
  /\ expected \subseteq Live(P)
  /\ expected \subseteq ToSet(returned) \union {s[j] : j \in {j \in DOMAIN s : j > i}}

Sound ==
  /\ CacheOk(cache)
  /\ iter \in Nat /\ calm \in BOOLEAN
  /\ calm => Iterated(cache.sorted, iter, seen, due, cache.pool)

-----------------------------------------------------------------------------
(* Loops.                                                                  *)

(* A nonempty set of numbers has a least member, and Min is it.            *)
LEMMA LeastNumber ==
  ASSUME NEW S \in SUBSET Nat, S # {}
  PROVE  Min(S) \in S /\ \A k \in S : Min(S) <= k
<1>1. PICK m \in S : \A k \in S : ~(<<k, m>> \in OpToRel(<, Nat))
  BY NatLessThanWellFounded, WFMin
<1>2. ASSUME NEW k \in S PROVE m <= k
  <2>1. k \in Nat /\ m \in Nat
    OBVIOUS
  <2>2. <<k, m>> \in OpToRel(<, Nat) <=> k < m
    BY <2>1 DEF OpToRel
  <2>3. ~(k < m)
    BY <1>1, <2>2
  <2> QED
    BY <2>1, <2>3
<1>3. \E x \in S : \A y \in S : x <= y
  BY <1>2
<1> QED
  BY <1>3, Zenon DEF Min

(* What holds before a loop and is kept by every turn holds after it.      *)
LEMMA LoopStays ==
  ASSUME NEW D, NEW n \in Nat, NEW f, f[0] \in D, \A i \in 1..n : f[i - 1] \in D => f[i] \in D
  PROVE  \A i \in 0..n : f[i] \in D
<1> DEFINE Bad == {i \in 0..n : f[i] \notin D}
<1>1. ASSUME Bad # {} PROVE FALSE
  <2>1. Bad \in SUBSET Nat
    OBVIOUS
  <2> DEFINE k == Min(Bad)
  <2>2. k \in Bad /\ \A i \in Bad : k <= i
    BY <1>1, <2>1, LeastNumber
  <2> HIDE DEF k
  <2>3. k # 0
    BY <2>2
  <2>4. k \in 1..n /\ k - 1 \in 0..n /\ k - 1 \notin Bad
    BY <2>2, <2>3
  <2> QED
    BY <2>2, <2>4
<1> QED
  BY <1>1

Turns(n, D) == [(1..n) \X D -> D]

IsLoop(f, n, D, base, G) ==
  f \in [0..n -> D] /\ f[0] = base /\ \A i \in 1..n : f[i] = G[<<i, f[i - 1]>>]

(* A loop of n turns with states in D has a history.                       *)
LEMMA LoopExists ==
  ASSUME NEW n \in Nat, NEW D, NEW base \in D, NEW G \in Turns(n, D)
  PROVE  \E f : IsLoop(f, n, D, base, G)
<1> USE DEF Turns
<1> DEFINE Is(m, f) == /\ f \in [0..m -> D] /\ f[0] = base
                       /\ \A i \in 1..m : f[i] = G[<<i, f[i - 1]>>]
           Bad == {m \in 0..n : ~ \E f : Is(m, f)}
<1>1. ASSUME Bad # {} PROVE FALSE
  <2>1. Bad \in SUBSET Nat
    OBVIOUS
  <2> DEFINE k == Min(Bad)
  <2>2. k \in Bad /\ \A i \in Bad : k <= i
    BY <1>1, <2>1, LeastNumber
  <2> HIDE DEF k
  <2>3. CASE k = 0
    <3> DEFINE g == [i \in 0..0 |-> base]
    <3>1. Is(0, g)
      OBVIOUS
    <3> QED
      BY <2>2, <2>3, <3>1
  <2>4. CASE k # 0
    <3>1. k \in 1..n /\ k - 1 \in 0..n /\ k - 1 \notin Bad
      BY <2>2, <2>4
    <3>2. PICK f : Is(k - 1, f)
      BY <3>1
    <3> DEFINE g == [i \in 0..k |-> IF i = k THEN G[<<k, f[k - 1]>>] ELSE f[i]]
    <3>3. f[k - 1] \in D /\ \A i \in 0..(k - 1) : f[i] \in D
      BY <3>1, <3>2
    <3>4. G[<<k, f[k - 1]>>] \in D
      BY <3>1, <3>3
    <3>5. g \in [0..k -> D] /\ g[0] = base
      BY <3>1, <3>2, <3>3, <3>4
    <3>6. \A i \in 1..k : g[i] = G[<<i, g[i - 1]>>]
      <4> TAKE i \in 1..k
      <4>1. i - 1 \in 0..(k - 1) /\ i - 1 # k /\ i - 1 \in 0..k
        BY <3>1
      <4>2. g[i - 1] = f[i - 1]
        BY <4>1
      <4>3. CASE i = k
        BY <4>2, <4>3
      <4>4. CASE i # k
        BY <3>1, <3>2, <4>2, <4>4
      <4> QED
        BY <4>3, <4>4
    <3> QED
      BY <2>2, <3>5, <3>6
  <2> QED
    BY <2>3, <2>4
<1>2. \E f : Is(n, f)
  BY <1>1
<1> QED
  BY <1>2 DEF IsLoop

(* The history of a loop is a solution of its recursive definition.        *)
LEMMA LoopValues ==
  ASSUME NEW n \in Nat, NEW D, NEW base \in D, NEW G \in Turns(n, D), NEW f, IsLoop(f, n, D, base, G)
  PROVE  /\ f = [i \in 0..n |-> f[i]] /\ f[0] = base
         /\ \A i \in 1..n : <<i, f[i - 1]>> \in (1..n) \X D /\ f[i] = G[<<i, f[i - 1]>>]
<1>1. f \in [0..n -> D] /\ f[0] = base /\ \A i \in 1..n : f[i] = G[<<i, f[i - 1]>>]
  BY DEF IsLoop
<1>2. \A i \in 1..n : i - 1 \in 0..n
  OBVIOUS
<1>3. \A i \in 1..n : f[i - 1] \in D
  BY <1>1, <1>2
<1> QED
  BY <1>1, <1>3

(* Induction over the turns of a loop.                                     *)
LEMMA Counting ==
  ASSUME NEW n \in Nat, NEW Good, 0 \in Good, \A i \in 1..n : i - 1 \in Good => i \in Good
  PROVE  \A i \in 0..n : i \in Good
<1> DEFINE f == [i \in 0..n |-> i]
<1>1. f[0] \in Good
  OBVIOUS
<1>2. \A i \in 1..n : f[i - 1] = i - 1 /\ f[i] = i
  OBVIOUS
<1>3. \A i \in 1..n : f[i - 1] \in Good => f[i] \in Good
  BY <1>2
<1>4. \A i \in 0..n : f[i] = i
  OBVIOUS
<1> HIDE DEF f
<1>5. \A i \in 0..n : f[i] \in Good
  BY <1>1, <1>3, LoopStays
<1> QED
  BY <1>4, <1>5


-----------------------------------------------------------------------------
(* Sequences and sets of numbers.                                          *)

(* A sequence with one member more at its end.                             *)
IsAppended(t, S, s, x) ==
  /\ t \in Seq(S) /\ ToSet(t) = ToSet(s) \union {x}
  /\ (IsInjective(s) /\ x \notin ToSet(s)) => IsInjective(t)

LEMMA AppendedIs ==
  ASSUME NEW S, NEW s \in Seq(S), NEW x \in S
  PROVE  IsAppended(Append(s, x), S, s, x)
<1> DEFINE n == Len(s)
           t == Append(s, x)
<1>1. n \in Nat /\ DOMAIN s = 1..n /\ t \in Seq(S) /\ DOMAIN t = 1..(n + 1) /\ t[n + 1] = x
      /\ \A i \in 1..n : t[i] = s[i]
  OBVIOUS
<1> HIDE DEF n, t
<1>2. ToSet(t) = {t[i] : i \in 1..(n + 1)} /\ ToSet(s) = {s[i] : i \in 1..n}
  BY <1>1 DEF ToSet
<1>3. ToSet(t) = ToSet(s) \union {x}
  <2>1. ToSet(t) \subseteq ToSet(s) \union {x}
    BY <1>1, <1>2
  <2>2. ToSet(s) \subseteq ToSet(t)
    BY <1>1, <1>2
  <2>3. x \in ToSet(t)
    BY <1>1, <1>2
  <2> QED
    BY <2>1, <2>2, <2>3
<1>4. ASSUME IsInjective(s), x \notin ToSet(s) PROVE IsInjective(t)
  <2>1. \A i, j \in 1..n : s[i] = s[j] => i = j
    BY <1>1, <1>4 DEF IsInjective
  <2>2. \A i \in 1..n : s[i] # x
    BY <1>2, <1>4
  <2>3. \A i, j \in 1..(n + 1) : t[i] = t[j] => i = j
    BY <1>1, <2>1, <2>2
  <2> QED
    BY <1>1, <2>3 DEF IsInjective
<1> QED
  BY <1>1, <1>3, <1>4 DEF t, IsAppended

(* What is left of a list, in its order.                                   *)
InOrder(r, s, m) ==
  \A i, j \in DOMAIN r : i < j => \E a, b \in 1..m : a < b /\ r[i] = s[a] /\ r[j] = s[b]

IsOnly(r, S, s, T) ==
  /\ r \in Seq(S) /\ IsInjective(r) /\ ToSet(r) = ToSet(s) \intersect T
  /\ InOrder(r, s, Len(s))

(* A turn of the loop of Only.                                             *)
Taken(r, x, T) == IF x \in T THEN Append(r, x) ELSE r

(* Only keeps the members asked for, in their order.                       *)
LEMMA OnlyIs ==
  ASSUME NEW S, NEW s \in Seq(S), IsInjective(s), NEW T
  PROVE  IsOnly(Only(s, T), S, s, T)
<1> DEFINE n == Len(s)
           D == Seq(S)
           base == <<>>
           rec == CHOOSE f : f = [i \in 0..n |-> IF i = 0 THEN base ELSE Taken(f[i - 1], s[i], T)]
           G == [x \in (1..n) \X D |-> Taken(x[2], s[x[1]], T)]
<1>1. n \in Nat /\ DOMAIN s = 1..n /\ \A i \in 1..n : s[i] \in S
  OBVIOUS
<1>2. \A i, j \in 1..n : s[i] = s[j] => i = j
  BY <1>1 DEF IsInjective
<1>18. Only(s, T) = rec[n]
  BY DEF Only, Taken
<1>19. Len(s) = n
  OBVIOUS
<1> HIDE DEF n
<1>3. base \in D /\ base = <<>>
  OBVIOUS
<1>4. \A r \in D, i \in 1..n : Taken(r, s[i], T) \in D
  BY <1>1 DEF Taken
<1> HIDE DEF D, base
<1>5. G \in Turns(n, D)
  BY <1>4 DEF Turns
<1>6. \A x \in (1..n) \X D : G[x] = Taken(x[2], s[x[1]], T)
  OBVIOUS
<1> HIDE DEF G
<1>7. PICK f : IsLoop(f, n, D, base, G)
  BY <1>1, <1>3, <1>5, LoopExists
<1>8. f = [i \in 0..n |-> IF i = 0 THEN base ELSE Taken(f[i - 1], s[i], T)]
  <2>1. /\ f = [i \in 0..n |-> f[i]] /\ f[0] = base
        /\ \A i \in 1..n : <<i, f[i - 1]>> \in (1..n) \X D /\ f[i] = G[<<i, f[i - 1]>>]
    BY <1>1, <1>3, <1>5, <1>7, LoopValues
  <2>2. \A i \in 1..n : G[<<i, f[i - 1]>>] = Taken(f[i - 1], s[i], T)
    BY <1>6, <2>1
  <2>3. \A i \in 1..n : f[i] = Taken(f[i - 1], s[i], T)
    BY <2>1, <2>2
  <2>4. n \in Nat /\ f[0] = base
    BY <1>1, <2>1
  <2>5. \A i \in 0..n : f[i] = IF i = 0 THEN base ELSE Taken(f[i - 1], s[i], T)
    BY <2>3, <2>4
  <2> QED
    BY <2>1, <2>5
<1>9. rec = [i \in 0..n |-> IF i = 0 THEN base ELSE Taken(rec[i - 1], s[i], T)]
  BY <1>8
<1> HIDE DEF rec
<1>10. rec[0] = base /\ \A i \in 1..n : rec[i] = Taken(rec[i - 1], s[i], T)
  BY <1>1, <1>9
<1>11. rec[n] \in D
  <2>1. \A i \in 1..n : rec[i - 1] \in D => rec[i] \in D
    BY <1>4, <1>10
  <2>2. n \in Nat /\ rec[0] \in D
    BY <1>1, <1>3, <1>10
  <2>3. \A i \in 0..n : rec[i] \in D
    BY <2>1, <2>2, LoopStays
  <2> QED
    BY <2>2, <2>3
<1> DEFINE Part(i) == {s[j] : j \in 1..i}
           Good == {i \in 0..n : /\ rec[i] \in Seq(S) /\ IsInjective(rec[i]) /\ ToSet(rec[i]) = Part(i) \intersect T
                                 /\ InOrder(rec[i], s, i)}
<1>12. 0 \in Good
  <2>1. Part(0) = {}
    OBVIOUS
  <2>2. rec[0] = <<>> /\ 0 \in 0..n
    BY <1>1, <1>3, <1>10
  <2>3. ToSet(<<>>) = {} /\ IsInjective(<<>>) /\ <<>> \in Seq(S) /\ InOrder(<<>>, s, 0)
    BY DEF ToSet, IsInjective, InOrder
  <2> HIDE DEF Part
  <2> QED
    BY <2>1, <2>2, <2>3
<1>13. ASSUME NEW i \in 1..n, i - 1 \in Good
       PROVE  i \in Good
  <2> DEFINE a == rec[i - 1]
             b == rec[i]
  <2>1. a \in Seq(S) /\ IsInjective(a) /\ ToSet(a) = Part(i - 1) \intersect T /\ InOrder(a, s, i - 1)
    BY <1>13
  <2>2. b = IF s[i] \in T THEN Append(a, s[i]) ELSE a
    BY <1>10 DEF Taken
  <2>3. Part(i) = Part(i - 1) \union {s[i]} /\ i \in Nat /\ i \in 0..n
    BY <1>1
  <2>4. s[i] \notin Part(i - 1)
    <3>1. \A j \in 1..(i - 1) : j \in 1..n /\ j # i
      BY <1>1
    <3> QED
      BY <1>2, <3>1
  <2>5. s[i] \in S
    BY <1>1
  <2>6. \A x \in Part(i - 1) : \E u \in 1..(i - 1) : x = s[u]
    OBVIOUS
  <2>7. \A k \in DOMAIN a : \E u \in 1..(i - 1) : a[k] = s[u]
    <3>1. \A k \in DOMAIN a : a[k] \in ToSet(a)
      BY DEF ToSet
    <3> HIDE DEF a, Part
    <3> QED
      BY <2>1, <2>6, <3>1
  <2>8. \A u \in 1..(i - 1) : u \in 1..i /\ u < i /\ i \in 1..i
    BY <1>1
  <2> HIDE DEF a, b, Part
  <2>9. CASE s[i] \in T
    <3>1. IsAppended(Append(a, s[i]), S, a, s[i])
      BY <2>1, <2>5, AppendedIs
    <3>2. b = Append(a, s[i])
      BY <2>2, <2>9
    <3>3. b \in Seq(S) /\ IsInjective(b) /\ ToSet(b) = ToSet(a) \union {s[i]}
      BY <2>1, <2>4, <2>9, <3>1, <3>2 DEF IsAppended
    <3>4. ToSet(b) = Part(i) \intersect T
      BY <2>1, <2>3, <2>9, <3>3
    <3>5. Len(a) \in Nat /\ DOMAIN a = 1..Len(a) /\ DOMAIN b = 1..(Len(a) + 1)
          /\ b[Len(a) + 1] = s[i] /\ \A k \in 1..Len(a) : b[k] = a[k]
      BY <2>1, <2>5, <3>2
    <3>6. InOrder(b, s, i)
      <4> SUFFICES ASSUME NEW k \in DOMAIN b, NEW l \in DOMAIN b, k < l
                   PROVE  \E u, v \in 1..i : u < v /\ b[k] = s[u] /\ b[l] = s[v]
        BY DEF InOrder
      <4>1. k \in DOMAIN a /\ b[k] = a[k]
        BY <3>5
      <4>2. CASE l = Len(a) + 1
        <5>1. PICK u \in 1..(i - 1) : a[k] = s[u]
          BY <2>7, <4>1
        <5>2. u \in 1..i /\ u < i /\ i \in 1..i
          BY <2>8
        <5> QED
          BY <3>5, <4>1, <4>2, <5>1, <5>2
      <4>3. CASE l # Len(a) + 1
        <5>1. l \in DOMAIN a /\ b[l] = a[l]
          BY <3>5, <4>3
        <5>2. PICK u, v \in 1..(i - 1) : u < v /\ a[k] = s[u] /\ a[l] = s[v]
          BY <2>1, <4>1, <5>1 DEF InOrder
        <5> QED
          BY <2>8, <4>1, <5>1, <5>2
      <4> QED
        BY <4>2, <4>3
    <3> QED
      BY <2>3, <3>3, <3>4, <3>6 DEF b
  <2>10. CASE s[i] \notin T
    <3>1. b = a
      BY <2>2, <2>10
    <3>2. ToSet(b) = Part(i) \intersect T
      BY <2>1, <2>3, <2>10, <3>1
    <3>3. InOrder(b, s, i)
      BY <2>1, <2>8, <3>1 DEF InOrder
    <3> QED
      BY <2>1, <2>3, <3>1, <3>2, <3>3 DEF b
  <2> QED
    BY <2>9, <2>10
<1> HIDE DEF Good
<1>14. \A i \in 0..n : i \in Good
  BY <1>1, <1>12, <1>13, Counting
<1>15. /\ rec[n] \in Seq(S) /\ IsInjective(rec[n]) /\ ToSet(rec[n]) = Part(n) \intersect T
       /\ InOrder(rec[n], s, n)
  <2>1. n \in Good
    BY <1>1, <1>14
  <2> QED
    BY <2>1 DEF Good
<1>16. Part(n) = ToSet(s)
  BY <1>1 DEF ToSet
<1>17. rec[n] = Only(s, T) /\ Len(s) = n
  BY <1>18, <1>19 DEF base
<1> HIDE DEF Part
<1> QED
  BY <1>15, <1>16, <1>17 DEF IsOnly

(* The last member moves to the place of the one that is removed.          *)
LEMMA SwapIs ==
  ASSUME NEW S, NEW s \in Seq(S), IsInjective(s), NEW i \in DOMAIN s
  PROVE  /\ SwapWithLast(s, i) \in Seq(S)
         /\ IsInjective(SwapWithLast(s, i))
         /\ ToSet(SwapWithLast(s, i)) = ToSet(s) \ {s[i]}
<1> DEFINE n == Len(s)
           e == [s EXCEPT ![i] = Last(s)]
           r == SwapWithLast(s, i)
<1>1. n \in Nat /\ DOMAIN s = 1..n /\ i \in 1..n /\ Last(s) = s[n] /\ \A j \in 1..n : s[j] \in S
  BY DEF Last
<1>2. \A j, k \in 1..n : s[j] = s[k] => j = k
  BY <1>1 DEF IsInjective
<1> HIDE DEF n
<1>3. e \in Seq(S) /\ Len(e) = n /\ \A j \in 1..n : e[j] = IF j = i THEN s[n] ELSE s[j]
  <2>1. n \in 1..n
    BY <1>1
  <2>2. s[n] \in S
    BY <1>1, <2>1
  <2> QED
    BY <1>1, <2>2 DEF n
<1>4. r = SubSeq(e, 1, n - 1)
  BY <1>3 DEF SwapWithLast, Front
<1> HIDE DEF e, r
<1>5. r \in Seq(S) /\ DOMAIN r = 1..(n - 1) /\ \A j \in 1..(n - 1) : r[j] = e[j]
  BY <1>1, <1>3, <1>4
<1>6. \A j \in 1..(n - 1) : j \in 1..n /\ j # n
  BY <1>1
<1>7. IsInjective(r)
  <2>1. \A j, k \in 1..(n - 1) : e[j] = e[k] => j = k
    BY <1>1, <1>2, <1>3, <1>6
  <2> QED
    BY <1>5, <2>1 DEF IsInjective
<1>8. ToSet(r) = {e[j] : j \in 1..(n - 1)} /\ ToSet(s) = {s[j] : j \in 1..n}
  BY <1>1, <1>5 DEF ToSet
<1>9. \A j \in 1..(n - 1) : \E k \in 1..n : k # i /\ e[j] = s[k]
  BY <1>1, <1>3, <1>6
<1>10. \A k \in 1..n : k # i => \E j \in 1..(n - 1) : e[j] = s[k]
  <2> SUFFICES ASSUME NEW k \in 1..n, k # i
               PROVE  \E j \in 1..(n - 1) : e[j] = s[k]
    OBVIOUS
  <2>1. CASE k = n
    <3>1. i \in 1..(n - 1)
      BY <1>1, <2>1
    <3> QED
      BY <1>1, <1>3, <2>1, <3>1
  <2>2. CASE k # n
    <3>1. k \in 1..(n - 1)
      BY <1>1, <2>2
    <3> QED
      BY <1>3, <3>1
  <2> QED
    BY <2>1, <2>2
<1>11. ToSet(r) = ToSet(s) \ {s[i]}
  <2>1. ToSet(r) \subseteq ToSet(s) \ {s[i]}
    BY <1>1, <1>2, <1>8, <1>9
  <2>2. ToSet(s) \ {s[i]} \subseteq ToSet(r)
    BY <1>8, <1>10
  <2> QED
    BY <2>1, <2>2
<1> QED
  BY <1>5, <1>7, <1>11 DEF r

(* A list has as many members as places.                                   *)
LEMMA ListLength ==
  ASSUME NEW S, NEW ls \in Seq(S), IsInjective(ls)
  PROVE  IsFiniteSet(ToSet(ls)) /\ Cardinality(ToSet(ls)) = Len(ls)
<1> DEFINE n == Len(ls)
           T == ToSet(ls)
<1>1. n \in Nat /\ DOMAIN ls = 1..n /\ ls = [i \in 1..n |-> ls[i]]
  OBVIOUS
<1> HIDE DEF n
<1>2. \A i \in 1..n : ls[i] \in T
  BY <1>1 DEF ToSet
<1>3. \A t \in T : \E i \in 1..n : ls[i] = t
  BY <1>1 DEF ToSet
<1> HIDE DEF T
<1>4. ls \in Bijection(1..n, T)
  BY <1>1, <1>2, <1>3 DEF Bijection, Injection, Surjection, IsInjective
<1>5. ExistsBijection(1..n, T)
  BY <1>4 DEF ExistsBijection
<1>6. IsFiniteSet(1..n) /\ Cardinality(1..n) = n
  <2>1. 1 \in Int /\ n \in Int
    BY <1>1
  <2>2. IsFiniteSet(1..n) /\ Cardinality(1..n) = IF 1 > n THEN 0 ELSE n - 1 + 1
    BY <2>1, FS_Interval
  <2> QED
    BY <1>1, <2>2
<1>7. IsFiniteSet(T) /\ Cardinality(T) = n
  BY <1>5, <1>6, FS_Bijection
<1> QED
  BY <1>7 DEF n, T

(* The greater of two numbers.                                             *)
LEMMA MaxOfTwo ==
  ASSUME NEW a \in Int, NEW b \in Int
  PROVE  Max({a, b}) = IF a >= b THEN a ELSE b
<1>1. \E x \in {a, b} : \A y \in {a, b} : x >= y
  OBVIOUS
<1> DEFINE m == CHOOSE x \in {a, b} : \A y \in {a, b} : x >= y
<1>2. m \in {a, b} /\ \A y \in {a, b} : m >= y
  BY <1>1
<1>3. Max({a, b}) = m
  BY DEF Max
<1> HIDE DEF m
<1> QED
  BY <1>2, <1>3

(* A finite set of numbers has a bound.                                    *)
LEMMA BoundedNumbers ==
  ASSUME NEW S \in SUBSET Nat, IsFiniteSet(S)
  PROVE  \E b \in Nat : \A x \in S : x <= b
<1>1. PICK n \in Nat : ExistsBijection(1..n, S)
  BY FS_NatBijection
<1>2. PICK f : f \in [1..n -> S] /\ \A x \in S : \E i \in 1..n : f[i] = x
  BY <1>1 DEF ExistsBijection, Bijection, Surjection, Injection
<1> DEFINE Good == {i \in 0..n : \E b \in Nat : \A j \in 1..i : f[j] <= b}
<1>3. 0 \in Good
  OBVIOUS
<1>4. ASSUME NEW i \in 1..n, i - 1 \in Good
      PROVE  i \in Good
  <2>1. PICK b \in Nat : \A j \in 1..(i - 1) : f[j] <= b
    BY <1>4
  <2>2. f[i] \in Nat
    BY <1>2
  <2>3. \A j \in 1..(i - 1) : f[j] \in Nat
    <3>1. \A j \in 1..(i - 1) : j \in 1..n
      OBVIOUS
    <3> QED
      BY <1>2, <3>1
  <2>4. \A j \in 1..i : f[j] <= b + f[i]
    <3> TAKE j \in 1..i
    <3>1. CASE j = i
      BY <2>2, <3>1
    <3>2. CASE j # i
      <4>1. j \in 1..(i - 1)
        BY <3>2
      <4> QED
        BY <2>1, <2>2, <2>3, <4>1
    <3> QED
      BY <3>1, <3>2
  <2>5. b + f[i] \in Nat /\ i \in 0..n
    BY <2>2
  <2> QED
    BY <2>4, <2>5
<1> HIDE DEF Good
<1>5. n \in Good
  <2>1. \A i \in 0..n : i \in Good
    BY <1>3, <1>4, Counting
  <2> QED
    BY <2>1
<1>6. PICK b \in Nat : \A j \in 1..n : f[j] <= b
  BY <1>5 DEF Good
<1> QED
  BY <1>2, <1>6

(* A finite nonempty set of numbers has a greatest member, and Max is it.  *)
LEMMA GreatestNumber ==
  ASSUME NEW S \in SUBSET Nat, IsFiniteSet(S), S # {}
  PROVE  Max(S) \in S /\ \A x \in S : x <= Max(S)
<1> DEFINE U == {b \in Nat : \A x \in S : x <= b}
           m == Min(U)
<1>1. U # {} /\ U \in SUBSET Nat
  BY BoundedNumbers
<1>2. m \in U /\ \A b \in U : m <= b
  BY <1>1, LeastNumber
<1>3. m \in Nat /\ \A x \in S : x <= m
  BY <1>2
<1> HIDE DEF m
<1>4. m \in S
  <2> SUFFICES ASSUME m \notin S PROVE FALSE
    OBVIOUS
  <2>1. \A x \in S : x \in Nat /\ x < m
    BY <1>3
  <2>2. m - 1 \in Nat
    <3>1. PICK x \in S : TRUE
      OBVIOUS
    <3> QED
      BY <1>3, <2>1, <3>1
  <2>3. m - 1 \in U
    BY <1>3, <2>1, <2>2
  <2> QED
    BY <1>2, <1>3, <2>3
<1>5. \E x \in S : \A y \in S : x >= y
  BY <1>3, <1>4
<1>6. Max(S) \in S /\ \A y \in S : Max(S) >= y
  BY <1>5, Zenon DEF Max
<1> QED
  BY <1>6

(* Neighbours in order make a sequence in order.                           *)
LEMMA Monotone ==
  ASSUME NEW n \in Nat, NEW f, \A i \in 1..n : f[i] \in Int, \A i \in 1..(n - 1) : f[i] <= f[i + 1]
  PROVE  \A i, j \in 1..n : i <= j => f[i] <= f[j]
<1> DEFINE Good == {m \in 0..n : \A i \in 1..m : f[i] <= f[m]}
<1>1. 0 \in Good
  OBVIOUS
<1>2. ASSUME NEW m \in 1..n, m - 1 \in Good
      PROVE  m \in Good
  <2> SUFFICES ASSUME NEW i \in 1..m PROVE f[i] <= f[m]
    OBVIOUS
  <2>1. CASE i = m
    BY <2>1
  <2>2. CASE i # m
    <3>1. i \in 1..(m - 1) /\ m - 1 \in 1..(n - 1) /\ i \in 1..n /\ m - 1 \in 1..n /\ (m - 1) + 1 = m
      BY <2>2
    <3>2. f[i] <= f[m - 1]
      BY <1>2, <3>1
    <3>3. f[m - 1] <= f[m]
      BY <3>1
    <3>4. f[i] \in Int /\ f[m - 1] \in Int /\ f[m] \in Int
      BY <3>1
    <3> QED
      BY <3>2, <3>3, <3>4
  <2> QED
    BY <2>1, <2>2
<1> HIDE DEF Good
<1>3. \A m \in 0..n : m \in Good
  BY <1>1, <1>2, Counting
<1>4. \A j \in 1..n : j \in Good
  BY <1>3
<1> QED
  BY <1>4 DEF Good

(* A key is its rank.                                                      *)
LEMMA KeysAreNumbers == \A k \in Keys : k \in Nat /\ k \in Int
<1>1. Keys \subseteq Nat
  BY Zenon, ListsAssumption
<1> QED
  BY <1>1

-----------------------------------------------------------------------------
(* The sorted array.                                                       *)

(* e is c with its array in order.                                         *)
IsSortedOf(e, c) ==
  /\ IsCache(e)
  /\ e.pool = c.pool /\ e.hash = c.hash /\ e.nodes = c.nodes /\ e.tags = c.tags
  /\ e.dirty = FALSE
  /\ SortedOk(e.sorted, e.dirty, e.pool)
  /\ ToSet(e.sorted) = ToSet(c.sorted)

(* A permutation of a list is a list of the same members.                  *)
LEMMA PermutedIs ==
  ASSUME NEW P, NEW s, ListOk(s, P), NEW t \in SetToSeqs(ToSet(s))
  PROVE  ListOk(t, P) /\ ToSet(t) = ToSet(s) /\ DOMAIN t = 1..Len(t) /\ Len(t) \in Nat
<1> DEFINE T == ToSet(s)
           m == Cardinality(T)
<1>1. IsFiniteSet(T) /\ m \in Nat
  <2>1. IsFiniteSet(T) /\ m = Len(s)
    BY ListLength DEF ListOk
  <2> QED
    BY <2>1 DEF ListOk
<1>2. t \in [1..m -> T] /\ \A i, j \in 1..m : i # j => t[i] # t[j]
  BY DEF SetToSeqs
<1>3. T \subseteq DOMAIN P
  BY DEF ListOk, ToSet
<1> HIDE DEF T, m
<1>4. IsFiniteSet(1..m) /\ Cardinality(1..m) = m
  <2>1. 1 \in Int /\ m \in Int
    BY <1>1
  <2>2. IsFiniteSet(1..m) /\ Cardinality(1..m) = IF 1 > m THEN 0 ELSE m - 1 + 1
    BY <2>1, FS_Interval
  <2> QED
    BY <1>1, <2>2
<1>5. t \in Injection(1..m, T)
  BY <1>2 DEF Injection, IsInjective
<1>6. t \in Surjection(1..m, T)
  BY <1>1, <1>4, <1>5, FS_Injection DEF m
<1>7. \A x \in T : \E i \in 1..m : t[i] = x
  BY <1>6 DEF Surjection
<1>8. Len(t) = m /\ t \in Seq(DOMAIN P) /\ DOMAIN t = 1..m
  BY <1>1, <1>2, <1>3
<1>9. IsInjective(t)
  BY <1>2, <1>8 DEF IsInjective
<1>10. ToSet(t) = T
  BY <1>2, <1>7, <1>8 DEF ToSet
<1> QED
  BY <1>1, <1>8, <1>9, <1>10 DEF ListOk, T

(* cache_sorted_ensure_sorted puts the array in order and changes nothing  *)
(* else.                                                                   *)
LEMMA EnsureSortedIs ==
  ASSUME NEW c, IsCache(c), c.pool \in Seq(Entries), SortedOk(c.sorted, c.dirty, c.pool), NEW e \in EnsureSorted(c)
  PROVE  IsSortedOf(e, c)
<1>1. CASE ~c.dirty
  <2>1. e = c
    BY <1>1 DEF EnsureSorted
  <2>2. c.dirty = FALSE
    BY <1>1 DEF SortedOk
  <2> QED
    BY <2>1, <2>2 DEF IsSortedOf
<1>2. CASE c.dirty
  <2>1. PICK s \in SetToSeqs(ToSet(c.sorted)) : Ascending(c, s) /\ e = [c EXCEPT !.sorted = s, !.dirty = FALSE]
    BY <1>2 DEF EnsureSorted
  <2>2. /\ IsCache(e) /\ e.pool = c.pool /\ e.hash = c.hash /\ e.nodes = c.nodes /\ e.tags = c.tags
        /\ e.sorted = s /\ e.dirty = FALSE
    BY <2>1 DEF IsCache
  <2>3. ListOk(s, c.pool) /\ ToSet(s) = ToSet(c.sorted) /\ DOMAIN s = 1..Len(s) /\ Len(s) \in Nat
    BY PermutedIs DEF SortedOk
  <2>4. InKeyOrder(s, c.pool)
    <3> DEFINE f == [i \in 1..Len(s) |-> c.pool[s[i]].key]
    <3>1. \A i \in 1..Len(s) : f[i] = c.pool[s[i]].key /\ f[i] \in Int
      <4> SUFFICES ASSUME NEW i \in 1..Len(s) PROVE f[i] \in Int
        OBVIOUS
      <4>1. s[i] \in DOMAIN c.pool
        BY <2>3 DEF ListOk
      <4>2. c.pool[s[i]] \in Entries
        BY <4>1
      <4>3. c.pool[s[i]].key \in Keys
        BY <4>2 DEF Entries
      <4> QED
        BY <4>3, KeysAreNumbers
    <3>2. \A i \in 1..(Len(s) - 1) : f[i] <= f[i + 1]
      <4> TAKE i \in 1..(Len(s) - 1)
      <4>1. i \in 1..Len(s) /\ i + 1 \in 1..Len(s)
        BY <2>3
      <4> QED
        BY <2>1, <4>1 DEF Ascending, KeyOf
    <3>3. \A i \in 1..Len(s) : f[i] \in Int
      BY <3>1
    <3> HIDE DEF f
    <3>4. \A i, j \in 1..Len(s) : i <= j => f[i] <= f[j]
      BY <2>3, <3>2, <3>3, Monotone
    <3> QED
      BY <2>3, <3>1, <3>4 DEF InKeyOrder
  <2> QED
    BY <2>2, <2>3, <2>4 DEF IsSortedOf, SortedOk
<1> QED
  BY <1>1, <1>2

(* An array in order, and the keys in it.                                  *)
IsArray(c) == c.pool \in Seq(Entries) /\ ListOk(c.sorted, c.pool) /\ InKeyOrder(c.sorted, c.pool)

LEMMA KeysAre ==
  ASSUME NEW c, c.pool \in Seq(Entries), ListOk(c.sorted, c.pool)
  PROVE  /\ Len(c.sorted) \in Nat /\ DOMAIN c.sorted = 1..Len(c.sorted)
         /\ \A i \in 1..Len(c.sorted) : /\ c.sorted[i] \in DOMAIN c.pool
                                        /\ KeyOf(c, c.sorted[i]) \in Keys
                                        /\ KeyOf(c, c.sorted[i]) \in Nat
<1>1. c.sorted \in Seq(DOMAIN c.pool)
  BY DEF ListOk
<1>2. \A i \in 1..Len(c.sorted) : c.sorted[i] \in DOMAIN c.pool
  BY <1>1
<1>3. \A o \in DOMAIN c.pool : KeyOf(c, o) \in Keys
  <2> TAKE o \in DOMAIN c.pool
  <2>1. c.pool[o] \in Entries
    OBVIOUS
  <2> QED
    BY <2>1 DEF Entries, KeyOf
<1> QED
  BY <1>1, <1>2, <1>3, KeysAreNumbers

(* b is the first place with a key that is not below k.                    *)
IsBound(b, c, k) ==
  /\ b \in 1..(Len(c.sorted) + 1)
  /\ \A i \in 1..Len(c.sorted) : /\ i < b => KeyOf(c, c.sorted[i]) < k
                                 /\ i >= b => KeyOf(c, c.sorted[i]) >= k

(* What the binary search for k knows.                                     *)
Between(N, K, k) ==
  {s \in [l : 1..(N + 1), r : 1..(N + 1)] :
     /\ s.l <= s.r
     /\ \A i \in 1..N : (i < s.l => K[i] < k) /\ (i >= s.r => K[i] >= k)}

(* Each turn at least halves what is between l and r.                      *)
LEMMA HalvedIs ==
  ASSUME NEW c, NEW k \in Nat, NEW N \in Nat, NEW K \in [1..N -> Nat],
         \A i \in 1..N : KeyOf(c, c.sorted[i]) = K[i],
         \A i, j \in 1..N : i <= j => K[i] <= K[j],
         NEW s \in Between(N, K, k)
  PROVE  LET t == Halved(c, k, s)
         IN  /\ t \in Between(N, K, k)
             /\ s.l < s.r => t.r - t.l < s.r - s.l
             /\ s.l >= s.r => t = s
<1> DEFINE mid == (s.l + s.r) \div 2
           t == Halved(c, k, s)
           u == [s EXCEPT !.r = mid]
           v == [s EXCEPT !.l = mid + 1]
<1>0. s \in [l : 1..(N + 1), r : 1..(N + 1)] /\ \A i \in 1..N : (i < s.l => K[i] < k) /\ (i >= s.r => K[i] >= k)
  BY DEF Between
<1>1. s.l \in 1..(N + 1) /\ s.r \in 1..(N + 1) /\ s.l <= s.r
  BY DEF Between
<1>2. CASE s.l >= s.r
  <2>1. t = s
    BY <1>2 DEF Halved
  <2> HIDE DEF t
  <2> QED
    BY <1>1, <1>2, <2>1 DEF t
<1>3. CASE s.l < s.r
  <2>1. mid \in 1..N /\ s.l <= mid /\ mid < s.r
    BY <1>1, <1>3
  <2>2. t = IF k <= K[mid] THEN u ELSE v
    BY <1>1, <1>3, <2>1 DEF Halved
  <2>3. u \in [l : 1..(N + 1), r : 1..(N + 1)] /\ u.l = s.l /\ u.r = mid
    BY <1>0, <1>1, <2>1
  <2>4. v \in [l : 1..(N + 1), r : 1..(N + 1)] /\ v.l = mid + 1 /\ v.r = s.r
    <3>1. mid + 1 \in 1..(N + 1)
      BY <2>1
    <3> HIDE DEF mid
    <3> QED
      BY <1>0, <1>1, <3>1
  <2> HIDE DEF mid, u, v, t
  <2>5. CASE k <= K[mid]
    <3>1. \A i \in 1..N : i >= mid => K[i] >= k
      <4> TAKE i \in 1..N
      <4> HAVE i >= mid
      <4>1. K[mid] <= K[i] /\ K[mid] \in Nat /\ K[i] \in Nat
        BY <2>1
      <4> QED
        BY <2>5, <4>1
    <3>2. u \in Between(N, K, k)
      BY <1>0, <1>1, <2>1, <2>3, <3>1 DEF Between
    <3>3. t = u
      BY <2>2, <2>5
    <3> QED
      BY <1>1, <1>3, <2>1, <2>3, <3>2, <3>3 DEF t
  <2>6. CASE ~(k <= K[mid])
    <3>1. \A i \in 1..N : i < mid + 1 => K[i] < k
      <4> TAKE i \in 1..N
      <4> HAVE i < mid + 1
      <4>1. i <= mid
        BY <2>1
      <4>2. K[i] <= K[mid] /\ K[mid] \in Nat /\ K[i] \in Nat
        BY <2>1, <4>1
      <4> QED
        BY <2>6, <4>2
    <3>2. v \in Between(N, K, k)
      BY <1>0, <1>1, <2>1, <2>4, <3>1 DEF Between
    <3>3. t = v
      BY <2>2, <2>6
    <3> QED
      BY <1>1, <1>3, <2>1, <2>4, <3>2, <3>3 DEF t
  <2> QED
    BY <2>5, <2>6
<1> QED
  BY <1>1, <1>2, <1>3

(* The binary search finds the first place with a key that is not below k. *)
LEMMA LowerBoundIs ==
  ASSUME NEW c, IsArray(c), NEW k \in Nat
  PROVE  IsBound(LowerBound(c, k), c, k)
<1> DEFINE n == Len(c.sorted)
           K == [i \in 1..n |-> KeyOf(c, c.sorted[i])]
           D == Between(n, K, k)
           base == [l |-> 1, r |-> n + 1]
           rec == CHOOSE f : f = [i \in 0..n |-> IF i = 0 THEN base ELSE Halved(c, k, f[i - 1])]
           G == [x \in (1..n) \X D |-> Halved(c, k, x[2])]
<1>1. n \in Nat /\ DOMAIN c.sorted = 1..n
  BY KeysAre DEF IsArray
<1>2. K \in [1..n -> Nat] /\ \A i \in 1..n : KeyOf(c, c.sorted[i]) = K[i]
  BY KeysAre DEF IsArray
<1>3. \A i, j \in 1..n : i <= j => K[i] <= K[j]
  BY <1>1 DEF IsArray, InKeyOrder, KeyOf
<1>4. LowerBound(c, k) = rec[n].l
  BY DEF LowerBound
<1> HIDE DEF n, K
<1>5. base \in D /\ base.r - base.l = n
  <2>1. base \in [l : 1..(n + 1), r : 1..(n + 1)] /\ base.l = 1 /\ base.r = n + 1
    BY <1>1
  <2> HIDE DEF base
  <2> QED
    BY <1>1, <2>1 DEF Between
<1>6. \A s \in D : /\ Halved(c, k, s) \in D
                   /\ s.l < s.r => Halved(c, k, s).r - Halved(c, k, s).l < s.r - s.l
                   /\ s.l >= s.r => Halved(c, k, s) = s
  BY <1>1, <1>2, <1>3, HalvedIs
<1>7. \A s \in D : s.l \in 1..(n + 1) /\ s.r \in 1..(n + 1) /\ s.l <= s.r
  BY DEF Between
<1>8. \A s \in D : Halved(c, k, s) \in D
  BY <1>6
<1> HIDE DEF D, base
<1>9. G \in Turns(n, D)
  BY <1>8 DEF Turns
<1>10. \A x \in (1..n) \X D : G[x] = Halved(c, k, x[2])
  OBVIOUS
<1> HIDE DEF G
<1>11. PICK f : IsLoop(f, n, D, base, G)
  BY <1>1, <1>5, <1>9, LoopExists
<1>12. f = [i \in 0..n |-> IF i = 0 THEN base ELSE Halved(c, k, f[i - 1])]
  <2>1. /\ f = [i \in 0..n |-> f[i]] /\ f[0] = base
        /\ \A i \in 1..n : <<i, f[i - 1]>> \in (1..n) \X D /\ f[i] = G[<<i, f[i - 1]>>]
    BY <1>1, <1>5, <1>9, <1>11, LoopValues
  <2>2. \A i \in 1..n : G[<<i, f[i - 1]>>] = Halved(c, k, f[i - 1])
    BY <1>10, <2>1
  <2>3. \A i \in 1..n : f[i] = Halved(c, k, f[i - 1])
    BY <2>1, <2>2
  <2>4. n \in Nat /\ f[0] = base
    BY <1>1, <2>1
  <2>5. \A i \in 0..n : f[i] = IF i = 0 THEN base ELSE Halved(c, k, f[i - 1])
    BY <2>3, <2>4
  <2> QED
    BY <2>1, <2>5
<1>13. rec = [i \in 0..n |-> IF i = 0 THEN base ELSE Halved(c, k, rec[i - 1])]
  BY <1>12
<1> HIDE DEF rec
<1>14. rec[0] = base /\ \A i \in 1..n : rec[i] = Halved(c, k, rec[i - 1])
  BY <1>1, <1>13
<1>15. rec[n] \in D
  <2>1. \A i \in 1..n : rec[i - 1] \in D => rec[i] \in D
    BY <1>8, <1>14
  <2>2. n \in Nat /\ rec[0] \in D
    BY <1>1, <1>5, <1>14
  <2>3. \A i \in 0..n : rec[i] \in D
    BY <2>1, <2>2, LoopStays
  <2> QED
    BY <2>2, <2>3
<1>16. \A i \in 0..n : rec[i] \in D
  <2>1. \A i \in 1..n : rec[i - 1] \in D => rec[i] \in D
    BY <1>8, <1>14
  <2>2. n \in Nat /\ rec[0] \in D
    BY <1>1, <1>5, <1>14
  <2> QED
    BY <2>1, <2>2, LoopStays
<1> DEFINE Good == {i \in 0..n : rec[i].r - rec[i].l <= n - i}
<1>17. 0 \in Good
  BY <1>1, <1>5, <1>14
<1>18. ASSUME NEW i \in 1..n, i - 1 \in Good
       PROVE  i \in Good
  <2> DEFINE s == rec[i - 1]
             t == rec[i]
  <2>1. s \in D /\ t \in D /\ t = Halved(c, k, s) /\ s.r - s.l <= n - (i - 1) /\ i \in 0..n
    <3>1. i - 1 \in 0..n /\ i \in 0..n
      BY <1>1
    <3> QED
      BY <1>14, <1>16, <1>18, <3>1
  <2> HIDE DEF s, t
  <2>2. s.l \in 1..(n + 1) /\ s.r \in 1..(n + 1) /\ t.l \in 1..(n + 1) /\ t.r \in 1..(n + 1) /\ s.l <= s.r
    BY <1>7, <2>1
  <2>3. s.l < s.r => t.r - t.l < s.r - s.l
    BY <1>6, <2>1
  <2>4. s.l >= s.r => t = s
    BY <1>6, <2>1
  <2>5. t.r - t.l <= n - i
    <3>1. CASE s.l < s.r
      BY <1>1, <2>1, <2>2, <2>3, <3>1
    <3>2. CASE s.l >= s.r
      <4>1. t.r = s.r /\ t.l = s.l
        BY <2>4, <3>2
      <4> QED
        BY <1>1, <2>2, <3>2, <4>1
    <3> QED
      BY <2>2, <3>1, <3>2
  <2> QED
    BY <2>1, <2>5 DEF t
<1> HIDE DEF Good
<1>19. n \in Good
  <2>1. \A i \in 0..n : i \in Good
    BY <1>1, <1>17, <1>18, Counting
  <2> QED
    BY <1>1, <2>1
<1>20. rec[n].l = rec[n].r /\ rec[n].l \in 1..(n + 1)
  <2>1. rec[n].r - rec[n].l <= n - n
    BY <1>19 DEF Good
  <2>2. rec[n].l \in 1..(n + 1) /\ rec[n].r \in 1..(n + 1) /\ rec[n].l <= rec[n].r
    BY <1>7, <1>15
  <2> QED
    BY <1>1, <2>1, <2>2
<1>21. \A i \in 1..n : (i < rec[n].l => K[i] < k) /\ (i >= rec[n].r => K[i] >= k)
  BY <1>15 DEF D, Between
<1>22. \A i \in 1..n : (i < rec[n].l => K[i] < k) /\ (i >= rec[n].l => K[i] >= k)
  BY <1>20, <1>21
<1>23. LowerBound(c, k) = rec[n].l
  BY <1>4 DEF base
<1> QED
  BY <1>2, <1>20, <1>22, <1>23 DEF IsBound, n

(* What the binary search of a removal has found is a place of the key.    *)
Narrow(N, K, k) ==
  {s \in [l : 1..(N + 1), r : 1..(N + 1), at : 0..N] : s.l <= s.r /\ (s.at # 0 => K[s.at] = k)}

LEMMA NarrowedIs ==
  ASSUME NEW c, NEW k \in Nat, NEW N \in Nat, NEW K \in [1..N -> Nat],
         \A i \in 1..N : KeyOf(c, c.sorted[i]) = K[i],
         NEW s \in Narrow(N, K, k)
  PROVE  Narrowed(c, k, s) \in Narrow(N, K, k)
<1> DEFINE mid == (s.l + s.r) \div 2
           t == Narrowed(c, k, s)
           u == [s EXCEPT !.r = mid]
           v == [s EXCEPT !.l = mid + 1]
           w == [s EXCEPT !.at = mid]
<1>0. s \in [l : 1..(N + 1), r : 1..(N + 1), at : 0..N] /\ (s.at # 0 => K[s.at] = k)
  BY DEF Narrow
<1>1. s.l \in 1..(N + 1) /\ s.r \in 1..(N + 1) /\ s.l <= s.r
  BY DEF Narrow
<1>2. CASE s.at # 0 \/ s.l >= s.r
  BY <1>2 DEF Narrowed
<1>3. CASE ~(s.at # 0 \/ s.l >= s.r)
  <2>1. mid \in 1..N /\ s.l <= mid /\ mid < s.r
    BY <1>1, <1>3
  <2>2. t = IF k = K[mid] THEN w ELSE IF k < K[mid] THEN u ELSE v
    BY <1>1, <1>3, <2>1 DEF Narrowed
  <2>3. u \in [l : 1..(N + 1), r : 1..(N + 1), at : 0..N] /\ u.l = s.l /\ u.r = mid /\ u.at = s.at
    <3>1. mid \in 1..(N + 1)
      BY <2>1
    <3> HIDE DEF mid
    <3> QED
      BY <1>0, <1>1, <3>1
  <2>4. v \in [l : 1..(N + 1), r : 1..(N + 1), at : 0..N] /\ v.l = mid + 1 /\ v.r = s.r /\ v.at = s.at
    <3>1. mid + 1 \in 1..(N + 1)
      BY <2>1
    <3> HIDE DEF mid
    <3> QED
      BY <1>0, <1>1, <3>1
  <2>5. w \in [l : 1..(N + 1), r : 1..(N + 1), at : 0..N] /\ w.l = s.l /\ w.r = s.r /\ w.at = mid
    <3>1. mid \in 0..N
      BY <2>1
    <3> HIDE DEF mid
    <3> QED
      BY <1>0, <1>1, <3>1
  <2> HIDE DEF mid, u, v, w, t
  <2>6. u \in Narrow(N, K, k) /\ v \in Narrow(N, K, k)
    BY <1>0, <1>1, <2>1, <2>3, <2>4 DEF Narrow
  <2>7. k = K[mid] => w \in Narrow(N, K, k)
    BY <1>0, <1>1, <2>1, <2>5 DEF Narrow
  <2> QED
    BY <2>2, <2>6, <2>7 DEF t
<1> QED
  BY <1>2, <1>3

(* The place at which the search of a removal ends, if any, has the key.   *)
LEMMA PlaceOfIs ==
  ASSUME NEW c, c.pool \in Seq(Entries), ListOk(c.sorted, c.pool), NEW k \in Nat
  PROVE  PlaceOf(c, k) # 0 => PlaceOf(c, k) \in DOMAIN c.sorted /\ KeyOf(c, c.sorted[PlaceOf(c, k)]) = k
<1> DEFINE n == Len(c.sorted)
           K == [i \in 1..n |-> KeyOf(c, c.sorted[i])]
           D == Narrow(n, K, k)
           base == [l |-> 1, r |-> n + 1, at |-> 0]
           rec == CHOOSE f : f = [i \in 0..n |-> IF i = 0 THEN base ELSE Narrowed(c, k, f[i - 1])]
           G == [x \in (1..n) \X D |-> Narrowed(c, k, x[2])]
<1>1. n \in Nat /\ DOMAIN c.sorted = 1..n
  BY KeysAre
<1>2. K \in [1..n -> Nat] /\ \A i \in 1..n : KeyOf(c, c.sorted[i]) = K[i]
  BY KeysAre
<1>3. PlaceOf(c, k) = rec[n].at
  BY DEF PlaceOf
<1> HIDE DEF n, K
<1>4. base \in D
  <2>1. base \in [l : 1..(n + 1), r : 1..(n + 1), at : 0..n] /\ base.l = 1 /\ base.r = n + 1 /\ base.at = 0
    BY <1>1
  <2> HIDE DEF base
  <2> QED
    BY <1>1, <2>1 DEF Narrow
<1>5. \A s \in D : Narrowed(c, k, s) \in D
  BY <1>1, <1>2, NarrowedIs
<1> HIDE DEF D, base
<1>6. G \in Turns(n, D)
  BY <1>5 DEF Turns
<1>7. \A x \in (1..n) \X D : G[x] = Narrowed(c, k, x[2])
  OBVIOUS
<1> HIDE DEF G
<1>8. PICK f : IsLoop(f, n, D, base, G)
  BY <1>1, <1>4, <1>6, LoopExists
<1>9. f = [i \in 0..n |-> IF i = 0 THEN base ELSE Narrowed(c, k, f[i - 1])]
  <2>1. /\ f = [i \in 0..n |-> f[i]] /\ f[0] = base
        /\ \A i \in 1..n : <<i, f[i - 1]>> \in (1..n) \X D /\ f[i] = G[<<i, f[i - 1]>>]
    BY <1>1, <1>4, <1>6, <1>8, LoopValues
  <2>2. \A i \in 1..n : G[<<i, f[i - 1]>>] = Narrowed(c, k, f[i - 1])
    BY <1>7, <2>1
  <2>3. \A i \in 1..n : f[i] = Narrowed(c, k, f[i - 1])
    BY <2>1, <2>2
  <2>4. n \in Nat /\ f[0] = base
    BY <1>1, <2>1
  <2>5. \A i \in 0..n : f[i] = IF i = 0 THEN base ELSE Narrowed(c, k, f[i - 1])
    BY <2>3, <2>4
  <2> QED
    BY <2>1, <2>5
<1>10. rec = [i \in 0..n |-> IF i = 0 THEN base ELSE Narrowed(c, k, rec[i - 1])]
  BY <1>9
<1> HIDE DEF rec
<1>11. rec[0] = base /\ \A i \in 1..n : rec[i] = Narrowed(c, k, rec[i - 1])
  BY <1>1, <1>10
<1>12. rec[n] \in D
  <2>1. \A i \in 1..n : rec[i - 1] \in D => rec[i] \in D
    BY <1>5, <1>11
  <2>2. n \in Nat /\ rec[0] \in D
    BY <1>1, <1>4, <1>11
  <2>3. \A i \in 0..n : rec[i] \in D
    BY <2>1, <2>2, LoopStays
  <2> QED
    BY <2>2, <2>3
<1>13. rec[n].at \in 0..n /\ (rec[n].at # 0 => K[rec[n].at] = k)
  BY <1>12 DEF D, Narrow
<1>14. PlaceOf(c, k) = rec[n].at
  BY <1>3 DEF base
<1> QED
  BY <1>1, <1>2, <1>13, <1>14

-----------------------------------------------------------------------------
(* The namespace tree.                                                     *)

LEMMA OldestIs ==
  ASSUME NEW S \in SUBSET Nat
  PROVE  Oldest(S) # 0 => Oldest(S) \in S
<1>1. S # {} => Min(S) \in S
  BY LeastNumber
<1> QED
  BY <1>1 DEF Oldest

(* u is the tree t with more nodes, which have no offsets yet.             *)
IsGrown(u, t) ==
  /\ TreeOk(u)
  /\ \A n \in DOMAIN t : n \in DOMAIN u /\ u[n] = t[n]
  /\ \A n \in DOMAIN u : n \notin DOMAIN t => u[n].offsets = <<>>

(* A node is a record.                                                     *)
LEMMA NodeIs ==
  ASSUME NEW t, TreeOk(t), NEW n \in DOMAIN t
  PROVE  t[n] \in Nodes /\ t[n].path \in Seq(Names) /\ t[n].offsets \in Seq(Nat) /\ n \in Nat /\ n > 0
<1>1. t \in Seq(Nodes)
  BY DEF TreeOk
<1>2. t[n] \in Nodes /\ n \in Nat /\ n > 0
  BY <1>1
<1> QED
  BY <1>2 DEF Nodes

(* A tree with a new last node.                                            *)
LEMMA AddedNodeIs ==
  ASSUME NEW t, TreeOk(t), NEW at \in DOMAIN t, NEW name \in Names
  PROVE  LET u == Append(t, [up |-> at, path |-> Append(t[at].path, name), offsets |-> <<>>])
         IN  IsGrown(u, t) /\ Len(t) + 1 \in DOMAIN u /\ u[Len(t) + 1].path = Append(t[at].path, name)
<1> DEFINE p == Append(t[at].path, name)
           x == [up |-> at, path |-> p, offsets |-> <<>>]
           n == Len(t)
           u == Append(t, x)
<1>1. t \in Seq(Nodes) /\ n \in Nat /\ DOMAIN t = 1..n /\ at \in Nat /\ at # n + 1 /\ 1 \in DOMAIN t
  BY DEF TreeOk
<1>2. p \in Seq(Names)
  BY NodeIs
<1> HIDE DEF p
<1>3. x \in Nodes
  BY <1>1, <1>2 DEF Nodes
<1>4. x.up = at /\ x.path = p /\ x.offsets = <<>>
  OBVIOUS
<1> HIDE DEF x, n
<1>5. u \in Seq(Nodes) /\ DOMAIN u = 1..(n + 1) /\ u[n + 1] = x /\ \A m \in 1..n : u[m] = t[m]
  BY <1>1, <1>3 DEF n
<1> HIDE DEF u
<1>6. \A m \in DOMAIN t : m \in DOMAIN u /\ u[m] = t[m]
  BY <1>1, <1>5
<1>7. \A m \in DOMAIN u : m \notin DOMAIN t => m = n + 1
  BY <1>1, <1>5
<1>8. TreeOk(u)
  <2>1. u[1].path = <<>> /\ 1 \in DOMAIN u
    BY <1>1, <1>6 DEF TreeOk
  <2>2. ASSUME NEW m \in DOMAIN u, m # 1
        PROVE  u[m].up \in DOMAIN u /\ \E nm \in Names : u[m].path = Append(u[u[m].up].path, nm)
    <3>1. CASE m \in DOMAIN t
      <4>1. t[m].up \in DOMAIN t /\ \E nm \in Names : t[m].path = Append(t[t[m].up].path, nm)
        BY <2>2, <3>1 DEF TreeOk
      <4>2. u[m] = t[m] /\ u[t[m].up] = t[t[m].up] /\ t[m].up \in DOMAIN u
        BY <1>6, <3>1, <4>1
      <4> QED
        BY <4>1, <4>2
    <3>2. CASE m \notin DOMAIN t
      <4>1. m = n + 1
        BY <1>7, <3>2
      <4>2. u[m] = x /\ u[at] = t[at] /\ at \in DOMAIN u
        BY <1>5, <1>6, <4>1
      <4>3. u[m].up = at /\ u[m].path = Append(u[at].path, name)
        BY <1>4, <4>2 DEF p
      <4> QED
        BY <4>2, <4>3
    <3> QED
      BY <3>1, <3>2
  <2> QED
    BY <1>5, <2>1, <2>2 DEF TreeOk
<1>9. \A m \in DOMAIN u : m \notin DOMAIN t => u[m].offsets = <<>>
  BY <1>4, <1>5, <1>7
<1>10. n + 1 \in DOMAIN u /\ u[n + 1].path = p
  BY <1>1, <1>4, <1>5
<1> QED
  BY <1>6, <1>8, <1>9, <1>10 DEF IsGrown, u, x, p, n

(* find_or_create_child: a node whose path is longer by the name, although *)
(* the names compared are not the ones that are stored.                    *)
IsChild(r, t, at, name) ==
  /\ r = [tree |-> r.tree, at |-> r.at]
  /\ IsGrown(r.tree, t) /\ r.at \in DOMAIN r.tree
  /\ r.tree[r.at].path = Append(t[at].path, name)

LEMMA FindOrCreateChildIs ==
  ASSUME NEW t, TreeOk(t), NEW at \in DOMAIN t, NEW name \in Names
  PROVE  IsChild(FindOrCreateChild(t, at, name), t, at, name)
<1> DEFINE S == {n \in Children(t, at) : t[n].path = <<name>>}
           child == Oldest(S)
           u == Append(t, [up |-> at, path |-> Append(t[at].path, name), offsets |-> <<>>])
           r == FindOrCreateChild(t, at, name)
<1>1. r = IF child # 0 THEN [tree |-> t, at |-> child] ELSE [tree |-> u, at |-> Len(t) + 1]
  BY DEF FindOrCreateChild
<1>2. S \in SUBSET Nat
  BY NodeIs DEF Children
<1>3. child # 0 => child \in S
  BY <1>2, OldestIs
<1>4. \A n \in S : n \in DOMAIN t /\ n # 1 /\ t[n].up = at /\ t[n].path = <<name>>
  BY DEF Children
<1> HIDE DEF child, S
<1>5. CASE child # 0
  <2>1. child \in DOMAIN t /\ child # 1 /\ t[child].up = at /\ t[child].path = <<name>>
    BY <1>3, <1>4, <1>5
  <2>2. PICK nm \in Names : t[child].path = Append(t[at].path, nm)
    BY <2>1 DEF TreeOk
  <2>3. t[at].path \in Seq(Names)
    BY NodeIs
  <2>4. Append(t[at].path, nm) = <<name>>
    BY <2>1, <2>2
  <2>5. t[at].path = <<>>
    <3> DEFINE q == t[at].path
    <3>1. q \in Seq(Names) /\ Len(Append(q, nm)) = Len(q) + 1 /\ Len(<<name>>) = 1
      BY <2>3
    <3>2. Len(q) = 0
      BY <2>4, <3>1
    <3> HIDE DEF q
    <3>3. q = <<>>
      BY <3>1, <3>2
    <3> QED
      BY <3>3 DEF q
  <2>6. t[child].path = Append(t[at].path, name)
    BY <2>1, <2>5
  <2>7. IsGrown(t, t)
    BY DEF IsGrown
  <2>8. r = [tree |-> t, at |-> child]
    BY <1>1, <1>5
  <2> QED
    BY <2>1, <2>6, <2>7, <2>8 DEF IsChild
<1>6. CASE child = 0
  <2>1. IsGrown(u, t) /\ Len(t) + 1 \in DOMAIN u /\ u[Len(t) + 1].path = Append(t[at].path, name)
    BY AddedNodeIs
  <2>2. r = [tree |-> u, at |-> Len(t) + 1]
    BY <1>1, <1>6
  <2> HIDE DEF u, r
  <2> QED
    BY <2>1, <2>2 DEF IsChild, r
<1> QED
  BY <1>5, <1>6

(* Growing a tree twice grows it.                                          *)
LEMMA GrownTwice ==
  ASSUME NEW t, NEW u, IsGrown(u, t), NEW v, IsGrown(v, u)
  PROVE  IsGrown(v, t)
<1>1. \A n \in DOMAIN t : n \in DOMAIN v /\ v[n] = t[n]
  BY DEF IsGrown
<1>2. \A n \in DOMAIN v : n \notin DOMAIN t => v[n].offsets = <<>>
  <2> SUFFICES ASSUME NEW n \in DOMAIN v, n \notin DOMAIN t PROVE v[n].offsets = <<>>
    OBVIOUS
  <2>1. CASE n \in DOMAIN u
    BY <2>1 DEF IsGrown
  <2>2. CASE n \notin DOMAIN u
    BY <2>2 DEF IsGrown
  <2> QED
    BY <2>1, <2>2
<1> QED
  BY <1>1, <1>2 DEF IsGrown

(* The walk through a tree that grows on the way, after i names of a path. *)
Walked(t) == {s \in [tree : Seq(Nodes), at : Nat] : IsGrown(s.tree, t) /\ s.at \in DOMAIN s.tree}

Spells(p, path, i) == Len(p) = i /\ \A j \in 1..i : p[j] = path[j]

(* get_or_create_ns_node ends at a node with the path asked for.           *)
IsFound(r, t, path) == IsGrown(r.tree, t) /\ r.at \in DOMAIN r.tree /\ r.tree[r.at].path = path

LEMMA GetOrCreateNsNodeIs ==
  ASSUME NEW t, TreeOk(t), NEW path \in Seq(Names)
  PROVE  IsFound(GetOrCreateNsNode(t, path), t, path)
<1> DEFINE n == Len(path)
           D == Walked(t)
           base == [tree |-> t, at |-> 1]
           rec == CHOOSE f : f = [i \in 0..n |-> IF i = 0 THEN base
                                                 ELSE FindOrCreateChild(f[i - 1].tree, f[i - 1].at, path[i])]
           G == [x \in (1..n) \X D |-> FindOrCreateChild(x[2].tree, x[2].at, path[x[1]])]
<1>1. n \in Nat /\ \A i \in 1..n : path[i] \in Names
  OBVIOUS
<1>2. GetOrCreateNsNode(t, path) = rec[n]
  BY DEF GetOrCreateNsNode
<1> HIDE DEF n
<1>3. base \in D /\ base.tree = t /\ base.at = 1
  <2>1. t \in Seq(Nodes) /\ 1 \in DOMAIN t
    BY DEF TreeOk
  <2>2. IsGrown(t, t)
    BY DEF IsGrown
  <2>3. base \in [tree : Seq(Nodes), at : Nat] /\ base.tree = t /\ base.at = 1
    BY <2>1
  <2> HIDE DEF base
  <2> QED
    BY <2>1, <2>2, <2>3 DEF Walked
<1>4. ASSUME NEW s \in D, NEW i \in 1..n
      PROVE  /\ FindOrCreateChild(s.tree, s.at, path[i]) \in D
             /\ IsChild(FindOrCreateChild(s.tree, s.at, path[i]), s.tree, s.at, path[i])
  <2> DEFINE r == FindOrCreateChild(s.tree, s.at, path[i])
  <2>1. IsGrown(s.tree, t) /\ s.at \in DOMAIN s.tree
    BY DEF Walked
  <2>2. TreeOk(s.tree) /\ path[i] \in Names
    BY <1>1, <2>1 DEF IsGrown
  <2>3. IsChild(r, s.tree, s.at, path[i])
    BY <2>1, <2>2, FindOrCreateChildIs
  <2> HIDE DEF r
  <2>4. IsGrown(r.tree, s.tree) /\ r.at \in DOMAIN r.tree /\ r = [tree |-> r.tree, at |-> r.at]
    BY <2>3 DEF IsChild
  <2>5. IsGrown(r.tree, t)
    BY <2>1, <2>4, GrownTwice
  <2>6. r.tree \in Seq(Nodes) /\ r.at \in Nat
    <3>1. TreeOk(r.tree)
      BY <2>5 DEF IsGrown
    <3>2. r.at \in Nat
      BY <2>4, <3>1, NodeIs
    <3> QED
      BY <3>1, <3>2 DEF TreeOk
  <2>7. r \in [tree : Seq(Nodes), at : Nat]
    BY <2>4, <2>6
  <2>8. r \in D
    BY <2>4, <2>5, <2>7 DEF Walked
  <2> QED
    BY <2>3, <2>8 DEF r
<1>5. \A s \in D, i \in 1..n : FindOrCreateChild(s.tree, s.at, path[i]) \in D
  BY <1>4
<1>6. \A s \in D : IsGrown(s.tree, t) /\ s.at \in DOMAIN s.tree
  BY DEF Walked
<1> HIDE DEF D, base
<1>7. G \in Turns(n, D)
  BY <1>5 DEF Turns
<1>8. \A x \in (1..n) \X D : G[x] = FindOrCreateChild(x[2].tree, x[2].at, path[x[1]])
  OBVIOUS
<1> HIDE DEF G
<1>9. PICK f : IsLoop(f, n, D, base, G)
  BY <1>1, <1>3, <1>7, LoopExists
<1>10. f = [i \in 0..n |-> IF i = 0 THEN base ELSE FindOrCreateChild(f[i - 1].tree, f[i - 1].at, path[i])]
  <2>1. /\ f = [i \in 0..n |-> f[i]] /\ f[0] = base
        /\ \A i \in 1..n : <<i, f[i - 1]>> \in (1..n) \X D /\ f[i] = G[<<i, f[i - 1]>>]
    BY <1>1, <1>3, <1>7, <1>9, LoopValues
  <2>2. \A i \in 1..n : G[<<i, f[i - 1]>>] = FindOrCreateChild(f[i - 1].tree, f[i - 1].at, path[i])
    BY <1>8, <2>1
  <2>3. \A i \in 1..n : f[i] = FindOrCreateChild(f[i - 1].tree, f[i - 1].at, path[i])
    BY <2>1, <2>2
  <2>4. n \in Nat /\ f[0] = base
    BY <1>1, <2>1
  <2>5. \A i \in 0..n : f[i] = IF i = 0 THEN base ELSE FindOrCreateChild(f[i - 1].tree, f[i - 1].at, path[i])
    BY <2>3, <2>4
  <2> QED
    BY <2>1, <2>5
<1>11. rec = [i \in 0..n |-> IF i = 0 THEN base ELSE FindOrCreateChild(rec[i - 1].tree, rec[i - 1].at, path[i])]
  BY <1>10
<1> HIDE DEF rec
<1>12. rec[0] = base /\ \A i \in 1..n : rec[i] = FindOrCreateChild(rec[i - 1].tree, rec[i - 1].at, path[i])
  BY <1>1, <1>11
<1>13. rec[n] \in D
  <2>1. \A i \in 1..n : rec[i - 1] \in D => rec[i] \in D
    BY <1>5, <1>12
  <2>2. n \in Nat /\ rec[0] \in D
    BY <1>1, <1>3, <1>12
  <2>3. \A i \in 0..n : rec[i] \in D
    BY <2>1, <2>2, LoopStays
  <2> QED
    BY <2>2, <2>3
<1>14. \A i \in 0..n : rec[i] \in D
  <2>1. \A i \in 1..n : rec[i - 1] \in D => rec[i] \in D
    BY <1>5, <1>12
  <2>2. n \in Nat /\ rec[0] \in D
    BY <1>1, <1>3, <1>12
  <2> QED
    BY <2>1, <2>2, LoopStays
<1> DEFINE p(i) == rec[i].tree[rec[i].at].path
           Good == {i \in 0..n : Spells(p(i), path, i)}
<1>15. 0 \in Good
  <2>1. p(0) = <<>>
    BY <1>3, <1>12 DEF TreeOk
  <2>2. Spells(<<>>, path, 0)
    BY DEF Spells
  <2> HIDE DEF p
  <2> QED
    BY <1>1, <2>1, <2>2
<1>16. ASSUME NEW i \in 1..n, i - 1 \in Good
       PROVE  i \in Good
  <2>1. i - 1 \in 0..n /\ i \in 0..n /\ Spells(p(i - 1), path, i - 1)
    BY <1>16
  <2>2. rec[i - 1] \in D /\ rec[i] = FindOrCreateChild(rec[i - 1].tree, rec[i - 1].at, path[i])
    BY <1>12, <1>14, <2>1
  <2>3. IsChild(rec[i], rec[i - 1].tree, rec[i - 1].at, path[i])
    BY <1>4, <2>2
  <2>4. p(i) = Append(p(i - 1), path[i])
    BY <2>3 DEF IsChild
  <2>5. p(i - 1) \in Seq(Names)
    <3>1. TreeOk(rec[i - 1].tree) /\ rec[i - 1].at \in DOMAIN rec[i - 1].tree
      BY <1>6, <2>2 DEF IsGrown
    <3> QED
      BY <3>1, NodeIs
  <2> HIDE DEF p
  <2> DEFINE q == p(i - 1)
             r == p(i)
  <2>6. q \in Seq(Names) /\ Len(q) = i - 1 /\ \A j \in 1..(i - 1) : q[j] = path[j]
    BY <2>1, <2>5 DEF Spells
  <2>7. r = Append(q, path[i])
    BY <2>4
  <2> HIDE DEF q, r
  <2>8. Len(r) = i /\ \A j \in 1..i : r[j] = path[j]
    <3>1. Len(r) = i
      BY <2>6, <2>7
    <3>2. ASSUME NEW j \in 1..i PROVE r[j] = path[j]
      <4>1. CASE j = i
        BY <2>6, <2>7, <4>1
      <4>2. CASE j # i
        <5>1. j \in 1..(i - 1)
          BY <4>2
        <5>2. j \in 1..Len(q)
          BY <2>6, <5>1
        <5>3. r[j] = q[j]
          BY <2>6, <2>7, <5>2
        <5> QED
          BY <2>6, <5>1, <5>3
      <4> QED
        BY <4>1, <4>2
    <3> QED
      BY <3>1, <3>2
  <2> QED
    BY <2>1, <2>8 DEF Spells, r
<1> HIDE DEF Good
<1>17. n \in Good
  <2>1. \A i \in 0..n : i \in Good
    BY <1>1, <1>15, <1>16, Counting
  <2> QED
    BY <1>1, <2>1
<1>18. Spells(p(n), path, n)
  BY <1>17 DEF Good
<1>19. IsGrown(rec[n].tree, t) /\ rec[n].at \in DOMAIN rec[n].tree
  BY <1>6, <1>13
<1>20. p(n) \in Seq(Names)
  BY <1>19, NodeIs DEF IsGrown
<1> HIDE DEF p
<1>21. p(n) = path
  BY <1>18, <1>20 DEF Spells, n
<1>22. GetOrCreateNsNode(t, path) = rec[n]
  BY <1>2 DEF base
<1> QED
  BY <1>19, <1>21, <1>22 DEF IsFound, p

(* find_ns_node finds a node or none.                                      *)
LEMMA FindNsNodeIs ==
  ASSUME NEW t, TreeOk(t), NEW path \in Seq(Names)
  PROVE  FindNsNode(t, path) # 0 => FindNsNode(t, path) \in DOMAIN t
<1> DEFINE n == Len(path)
           D == DOMAIN t \union {0}
           Step(s, i) == IF s = 0 THEN 0 ELSE Oldest({m \in Children(t, s) : Last(t[m].path) = path[i]})
           base == 1
           rec == CHOOSE f : f = [i \in 0..n |-> IF i = 0 THEN base ELSE Step(f[i - 1], i)]
           G == [x \in (1..n) \X D |-> Step(x[2], x[1])]
<1>1. n \in Nat
  OBVIOUS
<1>2. FindNsNode(t, path) = rec[n]
  BY DEF FindNsNode
<1> HIDE DEF n
<1>3. base \in D
  BY DEF TreeOk
<1>4. \A s \in D, i \in 1..n : Step(s, i) \in D
  <2> TAKE s \in D, i \in 1..n
  <2> DEFINE S == {m \in Children(t, s) : Last(t[m].path) = path[i]}
  <2>1. S \in SUBSET Nat /\ S \subseteq DOMAIN t
    BY NodeIs DEF Children
  <2>2. Oldest(S) # 0 => Oldest(S) \in S
    BY <2>1, OldestIs
  <2> HIDE DEF S
  <2>3. Oldest(S) \in D
    BY <2>1, <2>2
  <2> QED
    BY <2>3 DEF S
<1> HIDE DEF D, base, Step
<1>5. G \in Turns(n, D)
  BY <1>4 DEF Turns
<1>6. \A x \in (1..n) \X D : G[x] = Step(x[2], x[1])
  OBVIOUS
<1> HIDE DEF G
<1>7. PICK f : IsLoop(f, n, D, base, G)
  BY <1>1, <1>3, <1>5, LoopExists
<1>8. f = [i \in 0..n |-> IF i = 0 THEN base ELSE Step(f[i - 1], i)]
  <2>1. /\ f = [i \in 0..n |-> f[i]] /\ f[0] = base
        /\ \A i \in 1..n : <<i, f[i - 1]>> \in (1..n) \X D /\ f[i] = G[<<i, f[i - 1]>>]
    BY <1>1, <1>3, <1>5, <1>7, LoopValues
  <2>2. \A i \in 1..n : G[<<i, f[i - 1]>>] = Step(f[i - 1], i)
    BY <1>6, <2>1
  <2>3. \A i \in 1..n : f[i] = Step(f[i - 1], i)
    BY <2>1, <2>2
  <2>4. n \in Nat /\ f[0] = base
    BY <1>1, <2>1
  <2>5. \A i \in 0..n : f[i] = IF i = 0 THEN base ELSE Step(f[i - 1], i)
    BY <2>3, <2>4
  <2> QED
    BY <2>1, <2>5
<1>9. rec = [i \in 0..n |-> IF i = 0 THEN base ELSE Step(rec[i - 1], i)]
  BY <1>8
<1> HIDE DEF rec
<1>10. rec[0] = base /\ \A i \in 1..n : rec[i] = Step(rec[i - 1], i)
  BY <1>1, <1>9
<1>11. rec[n] \in D
  <2>1. \A i \in 1..n : rec[i - 1] \in D => rec[i] \in D
    BY <1>4, <1>10
  <2>2. n \in Nat /\ rec[0] \in D
    BY <1>1, <1>3, <1>10
  <2>3. \A i \in 0..n : rec[i] \in D
    BY <2>1, <2>2, LoopStays
  <2> QED
    BY <2>2, <2>3
<1>12. FindNsNode(t, path) = rec[n]
  BY <1>2 DEF Step, base
<1> QED
  BY <1>11, <1>12 DEF D

(* A node gets another list of offsets.                                    *)
LEMMA OffsetsAre ==
  ASSUME NEW t, TreeOk(t), NEW n \in DOMAIN t, NEW x \in Seq(Nat)
  PROVE  LET u == [t EXCEPT ![n].offsets = x]
         IN  /\ TreeOk(u) /\ DOMAIN u = DOMAIN t
             /\ \A m \in DOMAIN t : u[m].path = t[m].path /\ u[m].offsets = IF m = n THEN x ELSE t[m].offsets
<1> DEFINE y == [t[n] EXCEPT !.offsets = x]
           u == [t EXCEPT ![n].offsets = x]
<1>1. t \in Seq(Nodes) /\ t[n] \in Nodes
  BY NodeIs DEF TreeOk
<1>2. y \in Nodes /\ y.up = t[n].up /\ y.path = t[n].path /\ y.offsets = x
  BY <1>1 DEF Nodes
<1>3. u = [t EXCEPT ![n] = y]
  OBVIOUS
<1> HIDE DEF y, u
<1>4. u \in Seq(Nodes) /\ DOMAIN u = DOMAIN t /\ \A m \in DOMAIN t : u[m] = IF m = n THEN y ELSE t[m]
  BY <1>1, <1>2, <1>3
<1>5. \A m \in DOMAIN t : u[m].up = t[m].up /\ u[m].path = t[m].path
                          /\ u[m].offsets = IF m = n THEN x ELSE t[m].offsets
  BY <1>2, <1>4
<1>6. TreeOk(u)
  <2>1. 1 \in DOMAIN u /\ u[1].path = <<>>
    BY <1>4, <1>5 DEF TreeOk
  <2>2. ASSUME NEW m \in DOMAIN u, m # 1
        PROVE  u[m].up \in DOMAIN u /\ \E name \in Names : u[m].path = Append(u[u[m].up].path, name)
    <3>1. m \in DOMAIN t /\ t[m].up \in DOMAIN t /\ \E name \in Names : t[m].path = Append(t[t[m].up].path, name)
      BY <1>4, <2>2 DEF TreeOk
    <3>2. u[m].up = t[m].up /\ u[m].path = t[m].path /\ u[t[m].up].path = t[t[m].up].path
      BY <1>5, <3>1
    <3> QED
      BY <1>4, <3>1, <3>2
  <2> QED
    BY <1>4, <2>1, <2>2 DEF TreeOk
<1> QED
  BY <1>4, <1>5, <1>6 DEF u

(* No entry of the key can be read.                                        *)
Gone(k, P) == \A o \in Live(P) : P[o].key # k

(* d is c with another tree.                                               *)
SameButNodes(d, c) ==
  /\ IsCache(d)
  /\ d.pool = c.pool /\ d.hash = c.hash /\ d.sorted = c.sorted /\ d.dirty = c.dirty /\ d.tags = c.tags

PathsAre == \A k \in Keys : PathOf[k] \in Seq(Names)

LEMMA PathsAreNames == PathsAre
<1>1. PathOf \in [Keys -> Seq(Names)]
  BY Zenon, ListsAssumption
<1> QED
  BY <1>1 DEF PathsAre

(* cache_ns_remove takes an offset of the key out of the tree.             *)
LEMMA NsRemoveIs ==
  ASSUME NEW c, IsCache(c), TreeOk(c.nodes), Filed(c.nodes, c.pool), NEW k \in Keys, Gone(k, c.pool)
  PROVE  LET d == NsRemove(c, k)
         IN  SameButNodes(d, c) /\ TreeOk(d.nodes) /\ Filed(d.nodes, d.pool)
<1> DEFINE t == c.nodes
           P == c.pool
           n == FindNsNode(t, PathOf[k])
           S == IF n = 0 THEN {} ELSE {i \in DOMAIN t[n].offsets : KeyOf(c, t[n].offsets[i]) = k}
           x == SwapWithLast(t[n].offsets, Min(S))
           d == NsRemove(c, k)
<1>1. d = IF S = {} THEN c ELSE [c EXCEPT !.nodes[n].offsets = x]
  BY DEF NsRemove
<1>2. n # 0 => n \in DOMAIN t
  <2>1. PathOf[k] \in Seq(Names)
    BY PathsAreNames DEF PathsAre
  <2> QED
    BY <2>1, FindNsNodeIs
<1> HIDE DEF n
<1>3. CASE S = {}
  <2>1. d = c
    BY <1>1, <1>3
  <2> QED
    BY <2>1 DEF SameButNodes
<1>4. CASE S # {}
  <2> DEFINE s == t[n].offsets
             i == Min(S)
             u == [t EXCEPT ![n].offsets = x]
  <2>1. n \in DOMAIN t /\ S = {j \in DOMAIN s : KeyOf(c, s[j]) = k}
    BY <1>2, <1>4
  <2>2. ListOk(s, P)
    BY <2>1 DEF Filed
  <2>3. s \in Seq(DOMAIN P) /\ IsInjective(s) /\ s \in Seq(Nat) /\ DOMAIN s \in SUBSET Nat
    BY <2>1, <2>2, NodeIs DEF ListOk
  <2>4. S \in SUBSET Nat
    BY <2>1, <2>3
  <2>5. i \in S
    BY <1>4, <2>4, LeastNumber
  <2>6. i \in DOMAIN s /\ P[s[i]].key = k
    BY <2>1, <2>5 DEF KeyOf
  <2> HIDE DEF i, S
  <2>7. x \in Seq(DOMAIN P) /\ IsInjective(x) /\ ToSet(x) = ToSet(s) \ {s[i]}
    BY <2>3, <2>6, SwapIs DEF i
  <2>8. x \in Seq(Nat)
    BY <2>3, <2>6, SwapIs DEF i
  <2> HIDE DEF s, x
  <2>9. /\ TreeOk(u) /\ DOMAIN u = DOMAIN t
        /\ \A m \in DOMAIN t : u[m].path = t[m].path /\ u[m].offsets = IF m = n THEN x ELSE t[m].offsets
    BY <2>1, <2>8, OffsetsAre
  <2>10. SameButNodes(d, c) /\ d.nodes = u
    <3>1. d = [c EXCEPT !.nodes = u]
      BY <1>1, <1>4
    <3> QED
      BY <3>1 DEF IsCache, SameButNodes
  <2> HIDE DEF u, d
  <2>11. \A m \in DOMAIN u : ToSet(u[m].offsets) = IF m = n THEN ToSet(s) \ {s[i]} ELSE ToSet(t[m].offsets)
    BY <2>7, <2>9
  <2>12. \A m \in DOMAIN u : ToSet(u[m].offsets) \subseteq ToSet(t[m].offsets)
    BY <2>11 DEF s
  <2>13. Filed(u, P)
    <3>1. \A m \in DOMAIN u : ListOk(u[m].offsets, P)
      BY <2>7, <2>9 DEF Filed, ListOk
    <3>2. \A m, l \in DOMAIN u : \A o \in ToSet(u[m].offsets) : o \in ToSet(u[l].offsets) => m = l
      BY <2>9, <2>12 DEF Filed
    <3>3. \A m \in DOMAIN u : \A o \in ToSet(u[m].offsets) : u[m].path = PathOf[P[o].key]
      BY <2>9, <2>12 DEF Filed
    <3>4. ASSUME NEW o \in Live(P) PROVE \E m \in DOMAIN u : o \in ToSet(u[m].offsets)
      <4>1. PICK m \in DOMAIN t : o \in ToSet(t[m].offsets)
        BY DEF Filed
      <4>2. o # s[i]
        BY <2>6 DEF Gone
      <4> QED
        BY <2>9, <2>11, <4>1, <4>2 DEF s
    <3> QED
      BY <3>1, <3>2, <3>3, <3>4 DEF Filed
  <2> QED
    BY <2>9, <2>10, <2>13 DEF SameButNodes, d
<1> QED
  BY <1>3, <1>4

-----------------------------------------------------------------------------
(* What becomes of the lists when entries are flagged.                     *)

(* Q is the pool P in which some entries cannot be read any more.          *)
Aged(Q, P) ==
  /\ Q \in Seq(Entries) /\ DOMAIN Q = DOMAIN P
  /\ \A o \in DOMAIN P : Q[o].key = P[o].key /\ Q[o].value = P[o].value
  /\ Live(Q) \subseteq Live(P)

(* An index of the pool is one of the aged pool.                           *)
LEMMA AgedHash ==
  ASSUME NEW P, NEW Q, Aged(Q, P), NEW h, HashOk(h, P)
  PROVE  HashOk(h, Q)
<1>1. \A o \in Live(Q) : o \in Live(P) /\ o \in DOMAIN P /\ Q[o].key = P[o].key
  BY DEF Aged, Live
<1> QED
  BY <1>1 DEF Aged, HashOk

(* So is the array, which may list entries that cannot be read any more,   *)
LEMMA AgedSorted ==
  ASSUME NEW P, NEW Q, Aged(Q, P), NEW s, NEW dirty, SortedOk(s, dirty, P)
  PROVE  SortedOk(s, dirty, Q)
<1>1. ListOk(s, Q) /\ ListOk(s, P) /\ \A i \in DOMAIN s : s[i] \in DOMAIN P
  BY DEF Aged, SortedOk, ListOk
<1>2. InKeyOrder(s, P) => InKeyOrder(s, Q)
  BY <1>1 DEF Aged, InKeyOrder
<1> QED
  BY <1>1, <1>2 DEF Aged, SortedOk

(* The members of a list are entries.                                      *)
LEMMA MembersAre ==
  ASSUME NEW P, NEW s, ListOk(s, P)
  PROVE  ToSet(s) \subseteq DOMAIN P
BY DEF ListOk, ToSet

(* the tree,                                                               *)
LEMMA AgedTree ==
  ASSUME NEW P, NEW Q, Aged(Q, P), NEW t, Filed(t, P)
  PROVE  Filed(t, Q)
<1>1. \A n \in DOMAIN t : ListOk(t[n].offsets, P) /\ ListOk(t[n].offsets, Q)
  BY DEF Aged, Filed, ListOk
<1>2. \A n \in DOMAIN t : ToSet(t[n].offsets) \subseteq DOMAIN P
  BY <1>1, MembersAre
<1>3. \A n \in DOMAIN t : \A o \in ToSet(t[n].offsets) : t[n].path = PathOf[Q[o].key]
  BY <1>2 DEF Aged, Filed
<1>4. \A o \in Live(Q) : \E n \in DOMAIN t : o \in ToSet(t[n].offsets)
  BY DEF Aged, Filed
<1> QED
  BY <1>1, <1>3, <1>4 DEF Filed

(* and the tag index.                                                      *)
LEMMA AgedTags ==
  ASSUME NEW P, NEW Q, Aged(Q, P), NEW tags, TagsOk(tags, P)
  PROVE  TagsOk(tags, Q)
<1> SUFFICES ASSUME NEW t \in Tags
             PROVE  /\ ListOk(tags[t], Q)
                    /\ \A o \in ToSet(tags[t]) : t \in Tokens[Q[o].value]
                    /\ \A o \in Live(Q) : t \in Tokens[Q[o].value] => o \in ToSet(tags[t])
  BY DEF TagsOk
<1>1. ListOk(tags[t], P)
  BY DEF TagsOk
<1>2. ListOk(tags[t], Q)
  BY <1>1 DEF Aged, ListOk
<1>3. ToSet(tags[t]) \subseteq DOMAIN P
  BY <1>1, MembersAre
<1>4. \A o \in ToSet(tags[t]) : t \in Tokens[Q[o].value]
  BY <1>3 DEF Aged, TagsOk
<1>5. \A o \in Live(Q) : o \in Live(P) /\ o \in DOMAIN P
  BY DEF Aged, Live
<1>6. \A o \in Live(Q) : t \in Tokens[Q[o].value] => o \in ToSet(tags[t])
  BY <1>5 DEF Aged, TagsOk
<1> QED
  BY <1>2, <1>4, <1>6

(* All the lists of a cache stand when its entries age.                    *)
LEMMA AgedCache ==
  ASSUME NEW c, CacheOk(c), NEW d, IsCache(d), Aged(d.pool, c.pool), d.hash = c.hash, d.sorted = c.sorted,
         d.dirty = c.dirty, d.nodes = c.nodes, d.tags = c.tags
  PROVE  CacheOk(d)
<1>1. HashOk(d.hash, d.pool)
  BY AgedHash DEF CacheOk
<1>2. SortedOk(d.sorted, d.dirty, d.pool)
  BY AgedSorted DEF CacheOk
<1>3. TreeOk(d.nodes) /\ Filed(d.nodes, d.pool)
  BY AgedTree DEF CacheOk
<1>4. TagsOk(d.tags, d.pool)
  BY AgedTags DEF CacheOk
<1> QED
  BY <1>1, <1>2, <1>3, <1>4 DEF CacheOk, Aged

(* Flagging entries ages the pool; those flagged cannot be read.           *)
LEMMA FlaggedIs ==
  ASSUME NEW c, IsCache(c), c.pool \in Seq(Entries), NEW D
  PROVE  LET d == Flagged(c, D)
         IN  /\ IsCache(d) /\ d.hash = c.hash /\ d.sorted = c.sorted /\ d.dirty = c.dirty
             /\ d.nodes = c.nodes /\ d.tags = c.tags
             /\ Aged(d.pool, c.pool)
             /\ Live(d.pool) = Live(c.pool) \ D
             /\ \A o \in DOMAIN c.pool : d.pool[o].deleted = (c.pool[o].deleted \/ o \in D)
             /\ \A o \in DOMAIN c.pool : d.pool[o].expired = c.pool[o].expired
<1> DEFINE P == c.pool
           Struck(e) == [e EXCEPT !.deleted = TRUE]
           Q == [o \in DOMAIN P |-> IF o \in D THEN Struck(P[o]) ELSE P[o]]
           d == Flagged(c, D)
<1>1. d = [c EXCEPT !.pool = Q]
  BY DEF Flagged
<1>2. /\ IsCache(d) /\ d.pool = Q /\ d.hash = c.hash /\ d.sorted = c.sorted /\ d.dirty = c.dirty
      /\ d.nodes = c.nodes /\ d.tags = c.tags
  BY <1>1 DEF IsCache
<1>3. \A o \in DOMAIN P : P[o] \in Entries
  OBVIOUS
<1>4. \A e \in Entries : /\ Struck(e) \in Entries
                         /\ Struck(e).key = e.key
                         /\ Struck(e).value = e.value
                         /\ Struck(e).expired = e.expired
                         /\ Struck(e).deleted = TRUE
                         /\ e.deleted \in BOOLEAN
  BY DEF Entries
<1> HIDE DEF Struck
<1>5. DOMAIN Q = DOMAIN P /\ Len(P) \in Nat /\ DOMAIN P = 1..Len(P)
  OBVIOUS
<1>6. \A o \in DOMAIN P : /\ Q[o] \in Entries /\ Q[o].key = P[o].key /\ Q[o].value = P[o].value
                          /\ Q[o].expired = P[o].expired
                          /\ Q[o].deleted = (P[o].deleted \/ o \in D)
  <2> TAKE o \in DOMAIN P
  <2>1. P[o] \in Entries /\ Q[o] = IF o \in D THEN Struck(P[o]) ELSE P[o]
    BY <1>3
  <2> HIDE DEF Q
  <2>2. CASE o \in D
    <3>1. Q[o] = Struck(P[o])
      BY <2>1, <2>2
    <3>2. /\ Q[o] \in Entries /\ Q[o].key = P[o].key /\ Q[o].value = P[o].value
          /\ Q[o].expired = P[o].expired /\ Q[o].deleted = TRUE
      BY <1>4, <2>1, <3>1
    <3>3. (P[o].deleted \/ o \in D) = TRUE
      BY <2>2
    <3> QED
      BY <3>2, <3>3
  <2>3. CASE o \notin D
    <3>1. Q[o] = P[o] /\ P[o].deleted \in BOOLEAN
      BY <1>4, <2>1, <2>3
    <3> QED
      BY <2>1, <2>3, <3>1
  <2> QED
    BY <2>2, <2>3
<1>7. Q \in Seq(Entries)
  <2>1. Q = [o \in 1..Len(P) |-> Q[o]]
    BY <1>5
  <2> HIDE DEF Q
  <2>2. Q \in [1..Len(P) -> Entries]
    BY <1>5, <1>6, <2>1
  <2> QED
    BY <1>5, <2>2
<1> HIDE DEF Q, d
<1>8. Live(Q) = Live(P) \ D
  BY <1>5, <1>6 DEF Live
<1>9. Aged(Q, P)
  BY <1>5, <1>6, <1>7, <1>8 DEF Aged
<1> QED
  BY <1>2, <1>6, <1>8, <1>9 DEF d

-----------------------------------------------------------------------------
(* Deleting.                                                               *)

(* The index finds a key no more.                                          *)
LEMMA HashClearedIs ==
  ASSUME NEW P \in Seq(Entries), NEW h, HashOk(h, P), NEW k \in Keys, Gone(k, P)
  PROVE  HashOk([h EXCEPT ![k] = 0], P)
<1> DEFINE g == [h EXCEPT ![k] = 0]
<1>1. g \in [Keys -> Nat] /\ \A x \in Keys : g[x] = IF x = k THEN 0 ELSE h[x]
  BY DEF HashOk
<1>2. \A o \in Live(P) : P[o].key \in Keys /\ P[o].key # k
  <2> TAKE o \in Live(P)
  <2>1. P[o] \in Entries
    BY DEF Live
  <2> QED
    BY <2>1 DEF Entries, Gone
<1> HIDE DEF g
<1>3. \A o \in Live(P) : g[P[o].key] = o
  BY <1>1, <1>2 DEF HashOk
<1> QED
  BY <1>1, <1>3 DEF HashOk, g

(* Entries leave the tags and are flagged: d is c without them.            *)
IsWithout(d, c, D) ==
  /\ CacheOk(d)
  /\ d.hash = c.hash /\ d.sorted = c.sorted /\ d.dirty = c.dirty
  /\ Aged(d.pool, c.pool)
  /\ Live(d.pool) = Live(c.pool) \ D
  /\ \A o \in DOMAIN c.pool : d.pool[o].deleted = (c.pool[o].deleted \/ o \in D)

LEMMA WithoutIs ==
  ASSUME NEW c, CacheOk(c), NEW D
  PROVE  IsWithout(Flagged(TagRemove(c, D), D), c, D)
<1> DEFINE P == c.pool
           tags == [t \in Tags |-> Only(c.tags[t], ToSet(c.tags[t]) \ {o \in D : t \in TokensOf(c, o)})]
           e == TagRemove(c, D)
           d == Flagged(e, D)
           Q == d.pool
<1>1. /\ IsCache(e) /\ e.pool = P /\ e.hash = c.hash /\ e.sorted = c.sorted /\ e.dirty = c.dirty
      /\ e.nodes = c.nodes /\ e.tags = tags
  <2>1. e = [c EXCEPT !.tags = tags]
    <3>1. DOMAIN tags = DOMAIN c.tags
      BY DEF CacheOk, TagsOk
    <3> QED
      BY DEF TagRemove
  <2> HIDE DEF tags, e
  <2> QED
    BY <2>1 DEF CacheOk, IsCache
<1>2. P \in Seq(Entries)
  BY DEF CacheOk
<1> HIDE DEF e
<1>3. /\ IsCache(d) /\ d.hash = e.hash /\ d.sorted = e.sorted /\ d.dirty = e.dirty
      /\ d.nodes = e.nodes /\ d.tags = e.tags
      /\ Aged(Q, P)
      /\ Live(Q) = Live(P) \ D
      /\ \A o \in DOMAIN P : Q[o].deleted = (P[o].deleted \/ o \in D)
  <2>1. IsCache(e) /\ e.pool \in Seq(Entries)
    BY <1>1, <1>2
  <2>2. /\ IsCache(d) /\ d.hash = e.hash /\ d.sorted = e.sorted /\ d.dirty = e.dirty
        /\ d.nodes = e.nodes /\ d.tags = e.tags
        /\ Aged(d.pool, e.pool)
        /\ Live(d.pool) = Live(e.pool) \ D
        /\ \A o \in DOMAIN e.pool : d.pool[o].deleted = (e.pool[o].deleted \/ o \in D)
        /\ \A o \in DOMAIN e.pool : d.pool[o].expired = e.pool[o].expired
    BY <2>1, FlaggedIs
  <2> HIDE DEF d
  <2> QED
    BY <1>1, <2>2
<1> HIDE DEF d
<1>4. HashOk(d.hash, Q)
  BY <1>1, <1>3, AgedHash DEF CacheOk
<1>5. SortedOk(d.sorted, d.dirty, Q)
  BY <1>1, <1>3, AgedSorted DEF CacheOk
<1>6. TreeOk(d.nodes) /\ Filed(d.nodes, Q)
  BY <1>1, <1>3, AgedTree DEF CacheOk
<1>7. TagsOk(tags, Q)
  <2> SUFFICES ASSUME NEW t \in Tags
               PROVE  /\ ListOk(tags[t], Q)
                      /\ \A o \in ToSet(tags[t]) : t \in Tokens[Q[o].value]
                      /\ \A o \in Live(Q) : t \in Tokens[Q[o].value] => o \in ToSet(tags[t])
    BY DEF TagsOk
  <2> DEFINE s == c.tags[t]
             T == ToSet(s) \ {o \in D : t \in TokensOf(c, o)}
             r == tags[t]
  <2>1. ListOk(s, P) /\ \A o \in ToSet(s) : t \in Tokens[P[o].value]
    BY DEF CacheOk, TagsOk
  <2>2. \A o \in Live(P) : t \in Tokens[P[o].value] => o \in ToSet(s)
    BY DEF CacheOk, TagsOk
  <2>3. s \in Seq(DOMAIN P) /\ IsInjective(s)
    BY <2>1 DEF ListOk
  <2>4. r = Only(s, T)
    OBVIOUS
  <2>5. IsOnly(Only(s, T), DOMAIN P, s, T)
    BY <2>3, OnlyIs
  <2>6. ToSet(s) \subseteq DOMAIN P
    BY <2>1, MembersAre
  <2>7. T \subseteq ToSet(s) /\ \A o \in ToSet(s) : o \notin D => o \in T
    OBVIOUS
  <2> HIDE DEF tags, s, T, r
  <2>8. r \in Seq(DOMAIN P) /\ IsInjective(r) /\ ToSet(r) = ToSet(s) \intersect T
    BY <2>4, <2>5 DEF IsOnly
  <2>9. ListOk(r, Q)
    BY <1>3, <2>8 DEF ListOk, Aged
  <2>10. \A o \in ToSet(r) : t \in Tokens[Q[o].value]
    <3>1. \A o \in ToSet(r) : o \in ToSet(s) /\ o \in DOMAIN P
      BY <2>6, <2>8
    <3> QED
      BY <1>3, <2>1, <3>1 DEF Aged
  <2>11. \A o \in Live(Q) : t \in Tokens[Q[o].value] => o \in ToSet(r)
    <3>1. \A o \in Live(Q) : o \in Live(P) /\ o \notin D /\ o \in DOMAIN P
      BY <1>3 DEF Live
    <3>2. \A o \in Live(Q) : Tokens[Q[o].value] = Tokens[P[o].value]
      BY <1>3, <3>1 DEF Aged
    <3> QED
      BY <2>2, <2>7, <2>8, <3>1, <3>2
  <2> QED
    BY <2>9, <2>10, <2>11 DEF r
<1> HIDE DEF tags
<1>8. TagsOk(d.tags, Q)
  BY <1>1, <1>3, <1>7
<1>9. CacheOk(d)
  BY <1>3, <1>4, <1>5, <1>6, <1>8 DEF CacheOk, Aged
<1> QED
  BY <1>1, <1>3, <1>9 DEF IsWithout, d, e

(* e is c with another array.                                              *)
SameButArray(e, c) ==
  IsCache(e) /\ e.pool = c.pool /\ e.hash = c.hash /\ e.nodes = c.nodes /\ e.tags = c.tags

(* A removal from the array takes an entry of the key, if it finds one,    *)
(* and keeps all that can be read when none of the key can.                *)
LEMMA SortedRemoveIs ==
  ASSUME NEW c, IsCache(c), c.pool \in Seq(Entries), SortedOk(c.sorted, c.dirty, c.pool),
         NEW k \in Keys, Gone(k, c.pool), NEW d \in SortedRemove(c, k)
  PROVE  SameButArray(d, c) /\ SortedOk(d.sorted, d.dirty, d.pool)
<1>1. PICK e : /\ e \in IF c.sorted = <<>> THEN {c} ELSE EnsureSorted(c)
               /\ d = IF PlaceOf(e, k) = 0 THEN e
                      ELSE [e EXCEPT !.sorted = SwapWithLast(@, PlaceOf(e, k)), !.dirty = TRUE]
  BY DEF SortedRemove
<1>2. SameButArray(e, c) /\ SortedOk(e.sorted, e.dirty, e.pool)
  <2>1. CASE e = c
    BY <2>1 DEF SameButArray
  <2>2. CASE e \in EnsureSorted(c)
    <3>1. IsSortedOf(e, c)
      BY <2>2, EnsureSortedIs
    <3> QED
      BY <3>1 DEF IsSortedOf, SameButArray
  <2> QED
    BY <1>1, <2>1, <2>2
<1>3. CASE PlaceOf(e, k) = 0
  BY <1>1, <1>2, <1>3
<1>4. CASE PlaceOf(e, k) # 0
  <2> DEFINE s == e.sorted
             i == PlaceOf(e, k)
             x == SwapWithLast(s, i)
             P == e.pool
  <2>1. d = [e EXCEPT !.sorted = x, !.dirty = TRUE]
    BY <1>1, <1>4
  <2>2. P \in Seq(Entries) /\ ListOk(s, P) /\ k \in Nat /\ Live(P) \subseteq ToSet(s) /\ Gone(k, P)
    BY <1>2, KeysAreNumbers DEF SameButArray, SortedOk
  <2>3. i \in DOMAIN s /\ P[s[i]].key = k
    BY <1>4, <2>2, PlaceOfIs DEF KeyOf
  <2>4. /\ SameButArray(d, c) /\ d.sorted = x /\ d.dirty = TRUE /\ d.pool = P
    BY <1>2, <2>1 DEF SameButArray, IsCache
  <2> HIDE DEF i, s
  <2>5. x \in Seq(DOMAIN P) /\ IsInjective(x) /\ ToSet(x) = ToSet(s) \ {s[i]}
    BY <2>2, <2>3, SwapIs DEF ListOk
  <2>6. s[i] \notin Live(P)
    BY <2>2, <2>3 DEF Gone
  <2> HIDE DEF x, P
  <2>7. SortedOk(x, TRUE, P)
    BY <2>2, <2>5, <2>6 DEF SortedOk, ListOk
  <2> QED
    BY <2>4, <2>7
<1> QED
  BY <1>3, <1>4

(* r is c without the entry o.                                             *)
IsRemoved(r, c, o) ==
  /\ CacheOk(r)
  /\ Aged(r.pool, c.pool)
  /\ Gone(c.pool[o].key, r.pool)

LEMMA RemovedIs ==
  ASSUME NEW c, CacheOk(c), NEW o \in DOMAIN c.pool, c.hash[c.pool[o].key] = o, NEW r \in Removed(c, o)
  PROVE  IsRemoved(r, c, o)
<1> DEFINE k == c.pool[o].key
           f == Flagged(TagRemove(c, {o}), {o})
           h == [f EXCEPT !.hash[k] = 0]
<1>1. PICK s \in SortedRemove(h, k) : r = NsRemove(s, k)
  BY DEF Removed, KeyOf
<1>2. IsWithout(f, c, {o})
  BY WithoutIs
<1> HIDE DEF f
<1>3. k \in Keys
  <2>1. c.pool[o] \in Entries
    BY DEF CacheOk
  <2> QED
    BY <2>1 DEF Entries
<1>4. Gone(k, f.pool)
  <2> SUFFICES ASSUME NEW x \in Live(f.pool), f.pool[x].key = k PROVE FALSE
    BY DEF Gone
  <2>1. x \in Live(c.pool) /\ x # o
    BY <1>2 DEF IsWithout
  <2>2. c.pool[x].key = k
    BY <1>2, <2>1 DEF IsWithout, Aged, Live
  <2>3. c.hash[c.pool[x].key] = x
    BY <2>1 DEF CacheOk, HashOk
  <2> QED
    BY <2>1, <2>2, <2>3
<1> HIDE DEF k
<1>5. CacheOk(f)
  BY <1>2 DEF IsWithout
<1>6. /\ IsCache(h) /\ h.pool = f.pool /\ h.hash = [f.hash EXCEPT ![k] = 0] /\ h.sorted = f.sorted
      /\ h.dirty = f.dirty /\ h.nodes = f.nodes /\ h.tags = f.tags
  BY <1>5 DEF CacheOk, IsCache
<1> HIDE DEF h
<1>7. HashOk(h.hash, h.pool)
  <2>1. f.pool \in Seq(Entries) /\ HashOk(f.hash, f.pool)
    BY <1>5 DEF CacheOk
  <2>2. HashOk([f.hash EXCEPT ![k] = 0], f.pool)
    BY <1>3, <1>4, <2>1, HashClearedIs
  <2> QED
    BY <1>6, <2>2
<1>8. SameButArray(s, h) /\ SortedOk(s.sorted, s.dirty, s.pool)
  <2>1. h.pool \in Seq(Entries) /\ SortedOk(h.sorted, h.dirty, h.pool) /\ Gone(k, h.pool)
    BY <1>4, <1>5, <1>6 DEF CacheOk
  <2> QED
    BY <1>3, <1>6, <2>1, SortedRemoveIs
<1>9. IsCache(s) /\ s.pool = f.pool /\ s.hash = h.hash /\ s.nodes = f.nodes /\ s.tags = f.tags
  BY <1>6, <1>8 DEF SameButArray
<1>10. SameButNodes(r, s) /\ TreeOk(r.nodes) /\ Filed(r.nodes, r.pool)
  <2>1. TreeOk(s.nodes) /\ Filed(s.nodes, s.pool) /\ Gone(k, s.pool)
    BY <1>4, <1>5, <1>9 DEF CacheOk
  <2> QED
    BY <1>1, <1>3, <1>9, <2>1, NsRemoveIs
<1>11. CacheOk(r)
  BY <1>5, <1>6, <1>7, <1>8, <1>9, <1>10 DEF CacheOk, SameButNodes
<1>12. Aged(r.pool, c.pool) /\ Gone(k, r.pool)
  BY <1>2, <1>4, <1>9, <1>10 DEF SameButNodes, IsWithout
<1> QED
  BY <1>11, <1>12 DEF IsRemoved, k

(* cache_set removes what the key names, unless it is deleted already.     *)
LEMMA ReplacedIs ==
  ASSUME NEW c, CacheOk(c), NEW k \in Keys, NEW r \in Replaced(c, k)
  PROVE  CacheOk(r) /\ DOMAIN r.pool = DOMAIN c.pool /\ Gone(k, r.pool)
<1> DEFINE o == c.hash[k]
<1>1. \A x \in Live(c.pool) : c.hash[c.pool[x].key] = x /\ x \in DOMAIN c.pool /\ ~c.pool[x].deleted
  BY DEF CacheOk, HashOk, Live
<1>2. o # 0 => o \in DOMAIN c.pool /\ c.pool[o].key = k
  BY DEF CacheOk, HashOk
<1>3. CASE o # 0 /\ ~c.pool[o].deleted
  <2>1. r \in Removed(c, o)
    BY <1>3 DEF Replaced
  <2>2. IsRemoved(r, c, o)
    BY <1>2, <1>3, <2>1, RemovedIs
  <2> QED
    BY <1>2, <1>3, <2>2 DEF IsRemoved, Aged
<1>4. CASE ~(o # 0 /\ ~c.pool[o].deleted)
  <2>1. r = c
    BY <1>4 DEF Replaced
  <2>2. Gone(k, c.pool)
    <3> SUFFICES ASSUME NEW x \in Live(c.pool), c.pool[x].key = k PROVE FALSE
      BY DEF Gone
    <3>1. o = x
      BY <1>1
    <3>2. o # 0
      <4>1. x \in DOMAIN c.pool /\ c.pool \in Seq(Entries)
        BY <1>1 DEF CacheOk
      <4>2. x # 0
        BY <4>1
      <4> QED
        BY <3>1, <4>2
    <3> QED
      BY <1>1, <1>4, <3>1, <3>2
  <2> QED
    BY <2>1, <2>2
<1> QED
  BY <1>3, <1>4

-----------------------------------------------------------------------------
(* Storing.                                                                *)

(* Q is the pool P with a last entry o more, which has the key k.          *)
IsLonger(Q, P, o, k) ==
  /\ Q \in Seq(Entries) /\ DOMAIN Q = DOMAIN P \union {o} /\ o \in Nat /\ o # 0 /\ o \notin DOMAIN P
  /\ \A x \in DOMAIN P : Q[x] = P[x]
  /\ Q[o].key = k
  /\ Live(Q) = Live(P) \union {o}

LEMMA LongerIs ==
  ASSUME NEW P \in Seq(Entries), NEW k \in Keys, NEW v \in Values
  PROVE  IsLonger(Append(P, [key |-> k, value |-> v, deleted |-> FALSE, expired |-> FALSE]), P, Len(P) + 1, k)
<1> DEFINE e == [key |-> k, value |-> v, deleted |-> FALSE, expired |-> FALSE]
           n == Len(P)
           Q == Append(P, e)
<1>1. e \in Entries /\ e.key = k /\ ~e.deleted /\ ~e.expired
  BY DEF Entries
<1> HIDE DEF e
<1>2. n \in Nat /\ DOMAIN P = 1..n
  OBVIOUS
<1>3. Q \in Seq(Entries) /\ DOMAIN Q = 1..(n + 1) /\ Q[n + 1] = e /\ \A x \in 1..n : Q[x] = P[x]
  BY <1>1, <1>2
<1> HIDE DEF Q, n
<1>4. DOMAIN Q = DOMAIN P \union {n + 1} /\ n + 1 \notin DOMAIN P /\ n + 1 \in Nat /\ n + 1 # 0
  BY <1>2, <1>3
<1>5. Live(Q) = Live(P) \union {n + 1}
  BY <1>1, <1>2, <1>3, <1>4 DEF Live
<1> QED
  BY <1>1, <1>2, <1>3, <1>4, <1>5 DEF IsLonger, n, Q, e

(* The index finds the new entry under its key, and no other has the key.  *)
LEMMA NewHash ==
  ASSUME NEW P, NEW Q, NEW o, NEW k \in Keys, IsLonger(Q, P, o, k), Gone(k, P), NEW h, HashOk(h, P)
  PROVE  HashOk([h EXCEPT ![k] = o], Q)
<1> DEFINE g == [h EXCEPT ![k] = o]
<1>1. g \in [Keys -> Nat] /\ \A x \in Keys : g[x] = IF x = k THEN o ELSE h[x]
  BY DEF HashOk, IsLonger
<1> HIDE DEF g
<1>2. \A x \in Keys : g[x] # 0 => g[x] \in DOMAIN Q /\ Q[g[x]].key = x
  BY <1>1 DEF HashOk, IsLonger
<1>3. ASSUME NEW x \in Live(Q) PROVE g[Q[x].key] = x
  <2>1. x \in DOMAIN Q /\ Q \in Seq(Entries)
    BY DEF Live, IsLonger
  <2>2. Q[x].key \in Keys
    <3>1. Q[x] \in Entries
      BY <2>1
    <3> QED
      BY <3>1 DEF Entries
  <2>3. CASE x = o
    BY <1>1, <2>3 DEF IsLonger
  <2>4. CASE x # o
    <3>1. x \in Live(P) /\ x \in DOMAIN P
      BY <2>4 DEF IsLonger, Live
    <3>2. Q[x] = P[x] /\ P[x].key # k /\ h[P[x].key] = x
      BY <3>1 DEF IsLonger, Gone, HashOk
    <3> QED
      BY <1>1, <2>2, <3>2
  <2> QED
    BY <2>3, <2>4
<1> QED
  BY <1>1, <1>2, <1>3 DEF HashOk, g

(* A list with the new entry at its end.                                   *)
LEMMA NewList ==
  ASSUME NEW P, NEW Q, NEW o, NEW k, IsLonger(Q, P, o, k), NEW s, ListOk(s, P)
  PROVE  ListOk(Append(s, o), Q) /\ ListOk(s, Q) /\ ToSet(Append(s, o)) = ToSet(s) \union {o} /\ o \notin ToSet(s)
<1>1. s \in Seq(DOMAIN Q) /\ o \in DOMAIN Q /\ IsInjective(s) /\ o \notin DOMAIN P
  BY DEF IsLonger, ListOk
<1>2. o \notin ToSet(s)
  BY <1>1, MembersAre
<1>3. IsAppended(Append(s, o), DOMAIN Q, s, o)
  BY <1>1, AppendedIs
<1> QED
  BY <1>1, <1>2, <1>3 DEF IsAppended, ListOk

(* The array has the new entry last and is unsorted from then on.          *)
LEMMA NewSorted ==
  ASSUME NEW P, NEW Q, NEW o, NEW k, IsLonger(Q, P, o, k), NEW s, NEW dirty, SortedOk(s, dirty, P)
  PROVE  SortedOk(Append(s, o), TRUE, Q)
<1>1. ListOk(Append(s, o), Q) /\ ToSet(Append(s, o)) = ToSet(s) \union {o}
  BY NewList DEF SortedOk
<1> QED
  BY <1>1 DEF SortedOk, IsLonger

(* The node that is found or made for its namespace has it as well.        *)
LEMMA NewTree ==
  ASSUME NEW P, NEW Q, NEW o, NEW k \in Keys, IsLonger(Q, P, o, k), NEW t, TreeOk(t), Filed(t, P)
  PROVE  LET r == GetOrCreateNsNode(t, PathOf[k])
             u == [r.tree EXCEPT ![r.at].offsets = Append(@, o)]
         IN  TreeOk(u) /\ Filed(u, Q)
<1> DEFINE r == GetOrCreateNsNode(t, PathOf[k])
           w == r.tree
           a == r.at
           x == Append(w[a].offsets, o)
           u == [w EXCEPT ![a].offsets = x]
<1>1. IsFound(r, t, PathOf[k])
  <2>1. PathOf[k] \in Seq(Names)
    BY PathsAreNames DEF PathsAre
  <2> QED
    BY <2>1, GetOrCreateNsNodeIs
<1> HIDE DEF r
<1>2. TreeOk(w) /\ a \in DOMAIN w /\ w[a].path = PathOf[k]
  BY <1>1 DEF IsFound, IsGrown
<1>3. /\ \A n \in DOMAIN t : n \in DOMAIN w /\ w[n] = t[n]
      /\ \A n \in DOMAIN w : n \notin DOMAIN t => w[n].offsets = <<>>
  BY <1>1 DEF IsFound, IsGrown
<1> HIDE DEF w, a
<1>4. Filed(w, P)
  <2>1. ToSet(<<>>) = {} /\ ListOk(<<>>, P)
    BY DEF ToSet, ListOk, IsInjective
  <2>2. \A n \in DOMAIN w : ListOk(w[n].offsets, P)
    BY <1>3, <2>1 DEF Filed
  <2>3. \A n \in DOMAIN w : \A e \in ToSet(w[n].offsets) : n \in DOMAIN t /\ e \in ToSet(t[n].offsets)
    BY <1>3, <2>1
  <2>4. \A n, m \in DOMAIN w : \A e \in ToSet(w[n].offsets) : e \in ToSet(w[m].offsets) => n = m
    BY <2>3 DEF Filed
  <2>5. \A n \in DOMAIN w : \A e \in ToSet(w[n].offsets) : w[n].path = PathOf[P[e].key]
    BY <1>3, <2>3 DEF Filed
  <2>6. \A e \in Live(P) : \E n \in DOMAIN w : e \in ToSet(w[n].offsets)
    BY <1>3 DEF Filed
  <2> QED
    BY <2>2, <2>4, <2>5, <2>6 DEF Filed
<1>5. ListOk(x, Q) /\ ToSet(x) = ToSet(w[a].offsets) \union {o}
  <2>1. ListOk(w[a].offsets, P)
    BY <1>2, <1>4 DEF Filed
  <2> QED
    BY <2>1, NewList
<1>6. x \in Seq(Nat)
  <2>1. w[a].offsets \in Seq(Nat) /\ o \in Nat
    BY <1>2, NodeIs DEF IsLonger
  <2> QED
    BY <2>1
<1>7. u = [w EXCEPT ![a].offsets = Append(@, o)]
  OBVIOUS
<1> HIDE DEF x
<1>8. /\ TreeOk(u) /\ DOMAIN u = DOMAIN w
      /\ \A m \in DOMAIN w : u[m].path = w[m].path /\ u[m].offsets = IF m = a THEN x ELSE w[m].offsets
  BY <1>2, <1>6, OffsetsAre
<1> HIDE DEF u
<1>9. \A m \in DOMAIN u : ToSet(u[m].offsets) = IF m = a THEN ToSet(w[m].offsets) \union {o} ELSE ToSet(w[m].offsets)
  BY <1>5, <1>8
<1>10. Filed(u, Q)
  <2>1. \A m \in DOMAIN u : ListOk(u[m].offsets, Q)
    BY <1>4, <1>5, <1>8, NewList DEF Filed
  <2>2. \A m \in DOMAIN w : o \notin ToSet(w[m].offsets) /\ \A e \in ToSet(w[m].offsets) : e \in DOMAIN P
    <3>1. \A m \in DOMAIN w : ListOk(w[m].offsets, P)
      BY <1>4 DEF Filed
    <3> QED
      BY <3>1, NewList, MembersAre
  <2>3. \A n, m \in DOMAIN u : \A e \in ToSet(u[n].offsets) : e \in ToSet(u[m].offsets) => n = m
    <3> SUFFICES ASSUME NEW n \in DOMAIN u, NEW m \in DOMAIN u, NEW e \in ToSet(u[n].offsets), e \in ToSet(u[m].offsets)
                 PROVE  n = m
      OBVIOUS
    <3>1. CASE e = o
      <4>1. \A l \in DOMAIN u : o \in ToSet(u[l].offsets) => l = a
        BY <1>8, <1>9, <2>2
      <4> QED
        BY <3>1, <4>1
    <3>2. CASE e # o
      <4>1. \A l \in DOMAIN u : e \in ToSet(u[l].offsets) => e \in ToSet(w[l].offsets)
        BY <1>9, <3>2
      <4>2. n \in DOMAIN w /\ m \in DOMAIN w /\ e \in ToSet(w[n].offsets) /\ e \in ToSet(w[m].offsets)
        BY <1>8, <4>1
      <4> QED
        BY <1>4, <4>2 DEF Filed
    <3> QED
      BY <3>1, <3>2
  <2>4. ASSUME NEW n \in DOMAIN u, NEW e \in ToSet(u[n].offsets) PROVE u[n].path = PathOf[Q[e].key]
    <3>1. CASE e = o
      BY <1>2, <1>8, <1>9, <2>2, <3>1 DEF IsLonger
    <3>2. CASE e # o
      <4>1. e \in ToSet(w[n].offsets) /\ e \in DOMAIN P /\ n \in DOMAIN w
        BY <1>8, <1>9, <2>2, <3>2
      <4>2. w[n].path = PathOf[P[e].key] /\ Q[e] = P[e]
        BY <1>4, <4>1 DEF Filed, IsLonger
      <4> QED
        BY <1>8, <4>1, <4>2
    <3> QED
      BY <3>1, <3>2
  <2>5. ASSUME NEW e \in Live(Q) PROVE \E n \in DOMAIN u : e \in ToSet(u[n].offsets)
    <3>1. CASE e = o
      BY <1>2, <1>8, <1>9, <3>1
    <3>2. CASE e # o
      <4>1. e \in Live(P)
        BY <3>2 DEF IsLonger
      <4>2. PICK n \in DOMAIN w : e \in ToSet(w[n].offsets)
        BY <1>4, <4>1 DEF Filed
      <4> QED
        BY <1>8, <1>9, <4>2
    <3> QED
      BY <3>1, <3>2
  <2> QED
    BY <2>1, <2>3, <2>4, <2>5 DEF Filed
<1> QED
  BY <1>7, <1>8, <1>10 DEF w, a, r

(* The new entry joins the tags that it has.                               *)
LEMMA NewTags ==
  ASSUME NEW P, NEW Q, NEW o, NEW k, IsLonger(Q, P, o, k), NEW tags, TagsOk(tags, P)
  PROVE  TagsOk([t \in Tags |-> IF t \in Tokens[Q[o].value] /\ ~Contains(tags[t], o)
                                  THEN Append(tags[t], o) ELSE tags[t]], Q)
<1> DEFINE g == [t \in Tags |-> IF t \in Tokens[Q[o].value] /\ ~Contains(tags[t], o)
                                  THEN Append(tags[t], o) ELSE tags[t]]
<1> SUFFICES ASSUME NEW t \in Tags
             PROVE  /\ ListOk(g[t], Q)
                    /\ \A e \in ToSet(g[t]) : t \in Tokens[Q[e].value]
                    /\ \A e \in Live(Q) : t \in Tokens[Q[e].value] => e \in ToSet(g[t])
  BY DEF TagsOk
<1> DEFINE s == tags[t]
<1>1. ListOk(s, P) /\ \A e \in ToSet(s) : t \in Tokens[P[e].value]
  BY DEF TagsOk
<1>2. \A e \in Live(P) : t \in Tokens[P[e].value] => e \in ToSet(s)
  BY DEF TagsOk
<1>3. g[t] = IF t \in Tokens[Q[o].value] /\ ~Contains(s, o) THEN Append(s, o) ELSE s
  OBVIOUS
<1>4. ListOk(s, Q) /\ ListOk(Append(s, o), Q) /\ ToSet(Append(s, o)) = ToSet(s) \union {o} /\ o \notin ToSet(s)
  <2> HIDE DEF s
  <2> QED
    BY <1>1, NewList
<1>5. ~Contains(s, o)
  <2>1. DOMAIN s = 1..Len(s)
    BY <1>4 DEF ListOk
  <2> QED
    BY <1>4, <2>1 DEF Contains, ToSet
<1>6. ToSet(s) \subseteq DOMAIN P
  BY <1>1, MembersAre
<1> HIDE DEF s, g
<1>7. \A e \in ToSet(s) : Q[e] = P[e]
  BY <1>6 DEF IsLonger
<1>8. \A e \in Live(Q) : e = o \/ (e \in Live(P) /\ Q[e] = P[e])
  BY DEF IsLonger, Live
<1>9. CASE t \in Tokens[Q[o].value]
  <2>1. g[t] = Append(s, o)
    BY <1>3, <1>5, <1>9
  <2> QED
    BY <1>1, <1>2, <1>4, <1>7, <1>8, <1>9, <2>1
<1>10. CASE t \notin Tokens[Q[o].value]
  <2>1. g[t] = s
    BY <1>3, <1>10
  <2> QED
    BY <1>1, <1>2, <1>4, <1>7, <1>8, <1>10, <2>1
<1> QED
  BY <1>9, <1>10

(* cache_set files a new entry in every list.                              *)
LEMMA StoredIs ==
  ASSUME NEW c, CacheOk(c), NEW k \in Keys, Gone(k, c.pool), NEW v \in Values
  PROVE  CacheOk(Stored(c, k, v)) /\ DOMAIN c.pool \subseteq DOMAIN Stored(c, k, v).pool
<1> DEFINE P == c.pool
           o == Len(P) + 1
           Q == Append(P, [key |-> k, value |-> v, deleted |-> FALSE, expired |-> FALSE])
           a == [c EXCEPT !.pool = Q, !.hash[k] = o]
           b == SortedInsert(a, o)
           d == NsAdd(b, k, o)
           e == TagAdd(d, o)
           r == GetOrCreateNsNode(c.nodes, PathOf[k])
           u == [r.tree EXCEPT ![r.at].offsets = Append(@, o)]
           g == [t \in Tags |-> IF t \in Tokens[Q[o].value] /\ ~Contains(c.tags[t], o)
                                  THEN Append(c.tags[t], o) ELSE c.tags[t]]
<1>1. Stored(c, k, v) = e
  BY DEF Stored
<1>2. IsLonger(Q, P, o, k)
  BY LongerIs DEF CacheOk
<1> HIDE DEF o, Q
<1>3. HashOk([c.hash EXCEPT ![k] = o], Q)
  BY <1>2, NewHash DEF CacheOk
<1>4. SortedOk(Append(c.sorted, o), TRUE, Q)
  BY <1>2, NewSorted DEF CacheOk
<1>5. TreeOk(u) /\ Filed(u, Q)
  BY <1>2, NewTree DEF CacheOk
<1>6. TagsOk(g, Q)
  <2>1. TagsOk(c.tags, P)
    BY DEF CacheOk
  <2> QED
    BY <1>2, <2>1, NewTags
<1>7. /\ IsCache(a) /\ a.pool = Q /\ a.hash = [c.hash EXCEPT ![k] = o] /\ a.sorted = c.sorted
      /\ a.nodes = c.nodes /\ a.tags = c.tags
  BY DEF CacheOk, IsCache
<1> HIDE DEF a
<1>8. /\ IsCache(b) /\ b.pool = Q /\ b.hash = a.hash /\ b.sorted = Append(c.sorted, o) /\ b.dirty = TRUE
      /\ b.nodes = c.nodes /\ b.tags = c.tags
  BY <1>7 DEF SortedInsert, IsCache
<1> HIDE DEF b
<1>9. /\ IsCache(d) /\ d.pool = Q /\ d.hash = b.hash /\ d.sorted = b.sorted /\ d.dirty = TRUE
      /\ d.nodes = u /\ d.tags = c.tags
  <2>1. d = [b EXCEPT !.nodes = u]
    BY <1>8 DEF NsAdd
  <2> HIDE DEF u, d
  <2> QED
    BY <1>8, <2>1 DEF IsCache
<1> HIDE DEF d, u
<1>10. /\ IsCache(e) /\ e.pool = Q /\ e.hash = d.hash /\ e.sorted = d.sorted /\ e.dirty = TRUE
       /\ e.nodes = u /\ e.tags = g
  <2>1. e = [d EXCEPT !.tags = g]
    BY <1>9 DEF TagAdd, TokensOf
  <2> HIDE DEF g, e
  <2> QED
    BY <1>9, <2>1 DEF IsCache
<1> HIDE DEF e, g
<1>11. CacheOk(e)
  <2>1. e.pool = Q /\ e.hash = [c.hash EXCEPT ![k] = o] /\ e.sorted = Append(c.sorted, o)
        /\ e.dirty = TRUE /\ e.nodes = u /\ e.tags = g
    BY <1>7, <1>8, <1>9, <1>10
  <2>2. HashOk(e.hash, e.pool) /\ SortedOk(e.sorted, e.dirty, e.pool)
    BY <1>3, <1>4, <2>1
  <2>3. TreeOk(e.nodes) /\ Filed(e.nodes, e.pool) /\ TagsOk(e.tags, e.pool)
    BY <1>5, <1>6, <2>1
  <2>4. e.pool \in Seq(Entries)
    BY <1>2, <2>1 DEF IsLonger
  <2> QED
    BY <1>10, <2>2, <2>3, <2>4 DEF CacheOk
<1> QED
  BY <1>1, <1>2, <1>10, <1>11 DEF IsLonger

-----------------------------------------------------------------------------
(* The keys of a namespace are neighbours in the array.                    *)

LEMMA RunIs ==
  ASSUME NEW S, IsRun(S)
  PROVE  /\ Min(S) \in Keys /\ Max(S) \in Keys /\ Min(S) \in Nat /\ Max(S) \in Nat /\ Min(S) <= Max(S)
         /\ \A k \in Keys : k \in S <=> (Min(S) <= k /\ k <= Max(S))
<1>1. S # {} /\ S \subseteq Keys /\ Keys \intersect (Min(S)..Max(S)) = S
  BY DEF IsRun
<1>2. IsFiniteSet(Keys)
  BY Zenon, ListsAssumption
<1>3. IsFiniteSet(S) /\ S \in SUBSET Nat
  <2>1. IsFiniteSet(S)
    BY <1>1, <1>2, FS_Subset
  <2> QED
    BY <1>1, <2>1, KeysAreNumbers
<1>4. Min(S) \in S /\ \A k \in S : Min(S) <= k
  BY <1>1, <1>3, LeastNumber
<1>5. Max(S) \in S /\ \A k \in S : k <= Max(S)
  BY <1>1, <1>3, GreatestNumber
<1> DEFINE a == Min(S)
           b == Max(S)
<1>6. /\ a \in S /\ b \in S /\ a \in Nat /\ b \in Nat /\ a <= b
      /\ \A k \in S : a <= k /\ k <= b
      /\ Keys \intersect (a..b) = S
  BY <1>1, <1>3, <1>4, <1>5
<1> HIDE DEF a, b
<1>7. \A k \in Keys : k \in S <=> (a <= k /\ k <= b)
  <2> TAKE k \in Keys
  <2>1. k \in Int
    BY KeysAreNumbers
  <2> QED
    BY <1>6, <2>1
<1>8. a \in Keys /\ b \in Keys
  BY <1>1, <1>6
<1> QED
  BY <1>6, <1>7, <1>8 DEF a, b

(* All keys together are such a set too.                                   *)
LEMMA RunsAre == (\A S \in Spaces : IsRun(S)) /\ IsRun(Keys)
<1>1. Keys # {} /\ IsFiniteSet(Keys) /\ \A S \in Spaces : IsRun(S)
  BY Zenon, ListsAssumption
<1>2. Keys \in SUBSET Nat
  BY KeysAreNumbers
<1>3. Min(Keys) \in Keys /\ \A k \in Keys : Min(Keys) <= k
  BY <1>1, <1>2, LeastNumber
<1>4. Max(Keys) \in Keys /\ \A k \in Keys : k <= Max(Keys)
  BY <1>1, <1>2, GreatestNumber
<1>5. \A k \in Keys : k \in Min(Keys)..Max(Keys)
  <2> TAKE k \in Keys
  <2>1. k \in Int /\ Min(Keys) \in Int /\ Max(Keys) \in Int /\ Min(Keys) <= k /\ k <= Max(Keys)
    BY <1>3, <1>4, KeysAreNumbers
  <2> QED
    BY <2>1
<1> QED
  BY <1>1, <1>5 DEF IsRun

(* Places a to b - 1 have the keys of S.                                   *)
IsSlice(c, S, a, b) ==
  /\ a \in 1..(Len(c.sorted) + 1) /\ b \in 1..(Len(c.sorted) + 1) /\ a <= b
  /\ \A i \in 1..Len(c.sorted) : KeyOf(c, c.sorted[i]) \in S <=> (a <= i /\ i < b)

LEMMA SliceIs ==
  ASSUME NEW c, IsArray(c), NEW S, IsRun(S)
  PROVE  /\ IsSlice(c, S, LowerBound(c, Min(S)), LowerBound(c, Max(S) + 1))
         /\ IsBound(LowerBound(c, Min(S)), c, Min(S))
<1> DEFINE m == Min(S)
           x == Max(S)
           a == LowerBound(c, m)
           b == LowerBound(c, x + 1)
           n == Len(c.sorted)
<1>1. /\ m \in Nat /\ x \in Nat /\ m <= x
      /\ \A k \in Keys : k \in S <=> (m <= k /\ k <= x)
  BY RunIs
<1> HIDE DEF m, x
<1>2. IsBound(a, c, m)
  BY <1>1, LowerBoundIs
<1>3. IsBound(b, c, x + 1)
  <2>1. x + 1 \in Nat
    BY <1>1
  <2> QED
    BY <2>1, LowerBoundIs
<1> HIDE DEF a, b
<1>4. n \in Nat /\ \A i \in 1..n : KeyOf(c, c.sorted[i]) \in Keys /\ KeyOf(c, c.sorted[i]) \in Nat
  BY KeysAre DEF IsArray
<1>5. /\ a \in 1..(n + 1) /\ b \in 1..(n + 1)
      /\ \A i \in 1..n : /\ i < a => KeyOf(c, c.sorted[i]) < m
                         /\ i >= a => KeyOf(c, c.sorted[i]) >= m
                         /\ i < b => KeyOf(c, c.sorted[i]) < x + 1
                         /\ i >= b => KeyOf(c, c.sorted[i]) >= x + 1
  BY <1>2, <1>3 DEF IsBound
<1> HIDE DEF n
<1>6. a <= b
  <2> SUFFICES ASSUME b < a PROVE FALSE
    BY <1>5
  <2>1. b \in 1..n
    BY <1>4, <1>5
  <2>2. KeyOf(c, c.sorted[b]) < m /\ KeyOf(c, c.sorted[b]) >= x + 1 /\ KeyOf(c, c.sorted[b]) \in Nat
    BY <1>4, <1>5, <2>1
  <2> QED
    BY <1>1, <2>2
<1>7. ASSUME NEW i \in 1..n PROVE KeyOf(c, c.sorted[i]) \in S <=> (a <= i /\ i < b)
  <2> DEFINE k == KeyOf(c, c.sorted[i])
  <2>1. k \in Keys /\ k \in Nat /\ (k \in S <=> (m <= k /\ k <= x))
    BY <1>1, <1>4
  <2>2. (i < a => k < m) /\ (i >= a => k >= m) /\ (i < b => k < x + 1) /\ (i >= b => k >= x + 1)
    BY <1>5
  <2> HIDE DEF k
  <2>3. k \in S <=> (a <= i /\ i < b)
    BY <1>1, <1>5, <2>1, <2>2
  <2> QED
    BY <2>3 DEF k
<1> QED
  BY <1>2, <1>5, <1>6, <1>7 DEF IsSlice, m, x, a, b, n

(* A part of a list.                                                       *)
IsPartOf(r, S, s, a, b) ==
  /\ r \in Seq(S) /\ IsInjective(r)
  /\ ToSet(r) = {s[i] : i \in {i \in 1..Len(s) : a <= i /\ i < b}}
  /\ Len(r) = b - a
  /\ \A i \in 1..(b - a) : a + i - 1 \in 1..Len(s) /\ r[i] = s[a + i - 1]

LEMMA PartIs ==
  ASSUME NEW S, NEW s \in Seq(S), IsInjective(s), NEW a \in 1..(Len(s) + 1), NEW b \in 1..(Len(s) + 1), a <= b
  PROVE  IsPartOf(SubSeq(s, a, b - 1), S, s, a, b)
<1> DEFINE n == Len(s)
           r == SubSeq(s, a, b - 1)
           m == b - a
<1>1. n \in Nat /\ DOMAIN s = 1..n /\ a \in Int /\ b \in Int /\ a >= 1 /\ b <= n + 1 /\ m \in Nat
  OBVIOUS
<1>2. r \in Seq(S) /\ Len(r) = m /\ DOMAIN r = 1..m /\ \A i \in 1..m : r[i] = s[a + i - 1]
  BY <1>1
<1>3. \A i, j \in 1..n : s[i] = s[j] => i = j
  BY <1>1 DEF IsInjective
<1>10. m = b - a
  OBVIOUS
<1> HIDE DEF r, m, n
<1>4. \A i \in 1..m : a + i - 1 \in 1..n /\ a <= a + i - 1 /\ a + i - 1 < b
  BY <1>1, <1>10
<1>5. IsInjective(r)
  <2>1. \A i, j \in 1..m : s[a + i - 1] = s[a + j - 1] => a + i - 1 = a + j - 1
    BY <1>3, <1>4
  <2>2. \A i, j \in 1..m : a + i - 1 = a + j - 1 => i = j
    BY <1>1
  <2>3. \A i, j \in 1..m : r[i] = r[j] => i = j
    BY <1>2, <2>1, <2>2
  <2> QED
    BY <1>2, <2>3 DEF IsInjective
<1>6. ToSet(r) = {r[i] : i \in 1..m}
  BY <1>2 DEF ToSet
<1>7. ToSet(r) = {s[i] : i \in {i \in 1..n : a <= i /\ i < b}}
  <2>1. \A i \in 1..m : r[i] \in {s[j] : j \in {j \in 1..n : a <= j /\ j < b}}
    BY <1>2, <1>4
  <2>2. ASSUME NEW j \in 1..n, a <= j, j < b PROVE \E i \in 1..m : r[i] = s[j]
    <3>1. j - a + 1 \in 1..m /\ a + (j - a + 1) - 1 = j
      BY <1>1, <1>10, <2>2
    <3>2. r[j - a + 1] = s[j]
      BY <1>2, <3>1
    <3> QED
      BY <3>1, <3>2
  <2> QED
    BY <1>6, <2>1, <2>2
<1> QED
  BY <1>2, <1>4, <1>5, <1>7, <1>10 DEF r, n, IsPartOf

(* The slice lists the entries of the array that have a key in S.          *)
IsPart(r, c, S) ==
  /\ r \in Seq(DOMAIN c.pool) /\ IsInjective(r)
  /\ ToSet(r) = {o \in ToSet(c.sorted) : KeyOf(c, o) \in S}
  /\ InKeyOrder(r, c.pool)

LEMMA SlicePart ==
  ASSUME NEW c, IsArray(c), NEW S, NEW a, NEW b, IsSlice(c, S, a, b)
  PROVE  IsPart(SubSeq(c.sorted, a, b - 1), c, S)
<1> DEFINE s == c.sorted
           n == Len(s)
           r == SubSeq(s, a, b - 1)
<1>1. /\ a \in 1..(n + 1) /\ b \in 1..(n + 1) /\ a <= b
      /\ \A i \in 1..n : KeyOf(c, s[i]) \in S <=> (a <= i /\ i < b)
  BY DEF IsSlice
<1>2. s \in Seq(DOMAIN c.pool) /\ IsInjective(s) /\ InKeyOrder(s, c.pool)
  BY DEF IsArray, ListOk
<1>3. n \in Nat /\ DOMAIN s = 1..n /\ \A i \in 1..n : c.pool[s[i]].key \in Nat
  BY KeysAre DEF IsArray, KeyOf
<1> HIDE DEF s
<1>4. /\ r \in Seq(DOMAIN c.pool) /\ IsInjective(r)
      /\ ToSet(r) = {s[i] : i \in {i \in 1..n : a <= i /\ i < b}}
      /\ Len(r) = b - a
      /\ \A i \in 1..(b - a) : a + i - 1 \in 1..n /\ r[i] = s[a + i - 1]
  <2>1. IsPartOf(r, DOMAIN c.pool, s, a, b)
    BY <1>1, <1>2, PartIs
  <2> QED
    BY <2>1 DEF IsPartOf
<1> HIDE DEF r, n
<1>5. ToSet(r) = {o \in ToSet(s) : KeyOf(c, o) \in S}
  <2>1. ToSet(s) = {s[i] : i \in 1..n}
    BY <1>3 DEF ToSet
  <2> QED
    BY <1>1, <1>4, <2>1
<1>6. InKeyOrder(r, c.pool)
  <2> SUFFICES ASSUME NEW i \in DOMAIN r, NEW j \in DOMAIN r, i <= j
               PROVE  c.pool[r[i]].key <= c.pool[r[j]].key
    BY DEF InKeyOrder
  <2>1. i \in 1..(b - a) /\ j \in 1..(b - a)
    BY <1>4
  <2>2. a + i - 1 \in 1..n /\ a + j - 1 \in 1..n /\ r[i] = s[a + i - 1] /\ r[j] = s[a + j - 1]
    BY <1>4, <2>1
  <2>3. a + i - 1 <= a + j - 1
    BY <1>1, <2>1
  <2>4. c.pool[s[a + i - 1]].key <= c.pool[s[a + j - 1]].key
    BY <1>2, <1>3, <2>2, <2>3 DEF InKeyOrder
  <2> QED
    BY <2>2, <2>4
<1> QED
  BY <1>4, <1>5, <1>6 DEF IsPart, s, r

-----------------------------------------------------------------------------
(* Deleting a namespace.                                                   *)

(* One turn: neither the index nor the tree finds the key of an entry any  *)
(* more.                                                                   *)
LEMMA ForgottenIs ==
  ASSUME NEW c, CacheOk(c), NEW o \in DOMAIN c.pool, Gone(c.pool[o].key, c.pool)
  PROVE  LET d == Forgotten(c, o)
         IN  /\ CacheOk(d) /\ d = [x \in DOMAIN d |-> d[x]]
             /\ d.pool = c.pool /\ d.sorted = c.sorted /\ d.dirty = c.dirty /\ d.tags = c.tags
<1> DEFINE k == c.pool[o].key
           h == [c EXCEPT !.hash[k] = 0]
           d == Forgotten(c, o)
<1>1. d = NsRemove(h, k)
  BY DEF Forgotten, KeyOf
<1>2. d = [x \in DOMAIN d |-> d[x]]
  <2>1. h = [x \in DOMAIN h |-> h[x]]
    OBVIOUS
  <2> HIDE DEF h
  <2> QED
    BY <1>1, <2>1 DEF NsRemove
<1>3. k \in Keys
  <2>1. c.pool[o] \in Entries
    BY DEF CacheOk
  <2> QED
    BY <2>1 DEF Entries
<1> HIDE DEF k
<1>4. /\ IsCache(h) /\ h.pool = c.pool /\ h.hash = [c.hash EXCEPT ![k] = 0] /\ h.sorted = c.sorted
      /\ h.dirty = c.dirty /\ h.nodes = c.nodes /\ h.tags = c.tags
  BY DEF CacheOk, IsCache
<1> HIDE DEF h
<1>5. Gone(k, c.pool)
  BY DEF k
<1>6. HashOk(h.hash, h.pool)
  <2>1. c.pool \in Seq(Entries) /\ HashOk(c.hash, c.pool)
    BY DEF CacheOk
  <2>2. HashOk([c.hash EXCEPT ![k] = 0], c.pool)
    BY <1>3, <1>5, <2>1, HashClearedIs
  <2> QED
    BY <1>4, <2>2
<1>7. SameButNodes(d, h) /\ TreeOk(d.nodes) /\ Filed(d.nodes, d.pool)
  <2>1. TreeOk(h.nodes) /\ Filed(h.nodes, h.pool) /\ Gone(k, h.pool)
    BY <1>4, <1>5 DEF CacheOk
  <2> QED
    BY <1>1, <1>3, <1>4, <2>1, NsRemoveIs
<1> HIDE DEF d
<1>8. CacheOk(d)
  BY <1>4, <1>6, <1>7 DEF CacheOk, SameButNodes
<1> QED
  BY <1>2, <1>4, <1>7, <1>8 DEF SameButNodes, d

Fields == {"pool", "hash", "sorted", "dirty", "nodes", "tags"}

(* The caches that the loop goes through from f on.                        *)
Forgetting(f) ==
  {d \in [Fields -> {f.pool, f.sorted, f.dirty, f.tags} \union [Keys -> Nat] \union Seq(Nodes)] :
     CacheOk(d) /\ d.pool = f.pool /\ d.sorted = f.sorted /\ d.dirty = f.dirty /\ d.tags = f.tags}

LEMMA IsForgetting ==
  ASSUME NEW f, NEW d, CacheOk(d), d = [x \in DOMAIN d |-> d[x]],
         d.pool = f.pool, d.sorted = f.sorted, d.dirty = f.dirty, d.tags = f.tags
  PROVE  d \in Forgetting(f)
<1> DEFINE V == {f.pool, f.sorted, f.dirty, f.tags} \union [Keys -> Nat] \union Seq(Nodes)
<1>1. DOMAIN d = Fields /\ d.hash \in [Keys -> Nat] /\ d.nodes \in Seq(Nodes)
  BY DEF CacheOk, IsCache, Fields, HashOk, TreeOk
<1>2. /\ d["pool"] \in V /\ d["hash"] \in V /\ d["sorted"] \in V
      /\ d["dirty"] \in V /\ d["nodes"] \in V /\ d["tags"] \in V
  BY <1>1
<1> HIDE DEF V
<1>3. \A x \in Fields : d[x] \in V
  BY <1>2 DEF Fields
<1>4. d \in [Fields -> V]
  BY <1>1, <1>3
<1> QED
  BY <1>4 DEF Forgetting, V

(* After the loop all lists but the array are as they should be.           *)
LEMMA AllForgotten ==
  ASSUME NEW f, CacheOk(f), f = [x \in DOMAIN f |-> f[x]], NEW gone \in Seq(DOMAIN f.pool),
         \A i \in 1..Len(gone) : Gone(f.pool[gone[i]].key, f.pool)
  PROVE  LET after[i \in 0..Len(gone)] == IF i = 0 THEN f ELSE Forgotten(after[i - 1], gone[i])
         IN  after[Len(gone)] \in Forgetting(f)
<1> DEFINE n == Len(gone)
           D == Forgetting(f)
           base == f
           rec == CHOOSE g : g = [i \in 0..n |-> IF i = 0 THEN base ELSE Forgotten(g[i - 1], gone[i])]
           G == [x \in (1..n) \X D |-> Forgotten(x[2], gone[x[1]])]
<1>1. n \in Nat /\ \A i \in 1..n : gone[i] \in DOMAIN f.pool /\ Gone(f.pool[gone[i]].key, f.pool)
  OBVIOUS
<1>2. base \in D
  BY IsForgetting
<1>3. \A d \in D, i \in 1..n : Forgotten(d, gone[i]) \in D
  <2> TAKE d \in D, i \in 1..n
  <2> DEFINE o == gone[i]
             e == Forgotten(d, o)
  <2>1. CacheOk(d) /\ d.pool = f.pool /\ d.sorted = f.sorted /\ d.dirty = f.dirty /\ d.tags = f.tags
    BY DEF Forgetting
  <2>2. o \in DOMAIN d.pool /\ Gone(d.pool[o].key, d.pool)
    BY <1>1, <2>1
  <2> HIDE DEF o
  <2>3. /\ CacheOk(e) /\ e = [x \in DOMAIN e |-> e[x]]
        /\ e.pool = d.pool /\ e.sorted = d.sorted /\ e.dirty = d.dirty /\ e.tags = d.tags
    BY <2>1, <2>2, ForgottenIs
  <2> HIDE DEF e
  <2>4. e.pool = f.pool /\ e.sorted = f.sorted /\ e.dirty = f.dirty /\ e.tags = f.tags
    BY <2>1, <2>3
  <2>5. e \in D
    BY <2>3, <2>4, IsForgetting
  <2> QED
    BY <2>5 DEF e, o
<1>20. rec[n] = (LET after[i \in 0..n] == IF i = 0 THEN f ELSE Forgotten(after[i - 1], gone[i])
                 IN  after[n])
  OBVIOUS
<1> HIDE DEF D, n, base
<1>4. G \in Turns(n, D)
  BY <1>3 DEF Turns
<1>5. \A x \in (1..n) \X D : G[x] = Forgotten(x[2], gone[x[1]])
  OBVIOUS
<1> HIDE DEF G
<1>6. PICK h : IsLoop(h, n, D, base, G)
  BY <1>1, <1>2, <1>4, LoopExists
<1>7. h = [i \in 0..n |-> IF i = 0 THEN base ELSE Forgotten(h[i - 1], gone[i])]
  <2>1. /\ h = [i \in 0..n |-> h[i]] /\ h[0] = base
        /\ \A i \in 1..n : <<i, h[i - 1]>> \in (1..n) \X D /\ h[i] = G[<<i, h[i - 1]>>]
    BY <1>1, <1>2, <1>4, <1>6, LoopValues
  <2>2. \A i \in 1..n : G[<<i, h[i - 1]>>] = Forgotten(h[i - 1], gone[i])
    BY <1>5, <2>1
  <2>3. \A i \in 1..n : h[i] = Forgotten(h[i - 1], gone[i])
    BY <2>1, <2>2
  <2>4. n \in Nat /\ h[0] = base
    BY <1>1, <2>1
  <2>5. \A i \in 0..n : h[i] = IF i = 0 THEN base ELSE Forgotten(h[i - 1], gone[i])
    BY <2>3, <2>4
  <2> QED
    BY <2>1, <2>5
<1>8. rec = [i \in 0..n |-> IF i = 0 THEN base ELSE Forgotten(rec[i - 1], gone[i])]
  BY <1>7
<1> HIDE DEF rec
<1>9. rec[0] = base /\ \A i \in 1..n : rec[i] = Forgotten(rec[i - 1], gone[i])
  BY <1>1, <1>8, SMTT(30)
<1>10. rec[n] \in D
  <2>1. \A i \in 1..n : rec[i - 1] \in D => rec[i] \in D
    BY <1>3, <1>9
  <2>2. n \in Nat /\ rec[0] \in D
    BY <1>1, <1>2, <1>9
  <2>3. \A i \in 0..n : rec[i] \in D
    BY <2>1, <2>2, LoopStays
  <2> QED
    BY <2>2, <2>3
<1> QED
  BY <1>10, <1>20 DEF D, n

(* What cache_del_namespace leaves.                                        *)
LEMMA WithoutSpaceIs ==
  ASSUME NEW c, CacheOk(c), c.dirty = FALSE, NEW keys, IsRun(keys)
  PROVE  CacheOk(WithoutSpace(c, keys)) /\ DOMAIN WithoutSpace(c, keys).pool = DOMAIN c.pool
<1> DEFINE a == LowerBound(c, Min(keys))
           b == LowerBound(c, Max(keys) + 1)
           slice == SubSeq(c.sorted, a, b - 1)
           D == {o \in ToSet(slice) : ~c.pool[o].deleted}
           f == Flagged(TagRemove(c, D), D)
           gone == Only(slice, {o \in ToSet(slice) : f.pool[o].deleted})
           g == LET after[i \in 0..Len(gone)] == IF i = 0 THEN f ELSE Forgotten(after[i - 1], gone[i])
                IN  after[Len(gone)]
           w == [g EXCEPT !.sorted = Only(@, ToSet(@) \ ToSet(gone)), !.dirty = TRUE]
<1>1. WithoutSpace(c, keys) = IF D = {} THEN c ELSE w
  BY DEF WithoutSpace
<1>2. IsArray(c)
  BY DEF CacheOk, SortedOk, IsArray
<1>3. IsPart(slice, c, keys)
  <2>1. IsSlice(c, keys, a, b)
    BY <1>2, SliceIs
  <2> HIDE DEF a, b
  <2> QED
    BY <1>2, <2>1, SlicePart
<1> HIDE DEF slice
<1>4. IsWithout(f, c, D)
  BY WithoutIs
<1>5. f = [x \in DOMAIN f |-> f[x]]
  BY DEF Flagged
<1>6. D \subseteq ToSet(slice) /\ \A o \in ToSet(slice) : ~c.pool[o].deleted => o \in D
  OBVIOUS
<1> HIDE DEF D, f
<1>7. \A o \in Live(f.pool) : KeyOf(c, o) \notin keys
  <2> SUFFICES ASSUME NEW o \in Live(f.pool), KeyOf(c, o) \in keys PROVE FALSE
    OBVIOUS
  <2>1. o \in Live(c.pool) /\ o \notin D
    BY <1>4 DEF IsWithout
  <2>2. o \in ToSet(c.sorted)
    BY <2>1 DEF CacheOk, SortedOk
  <2>3. o \in ToSet(slice)
    BY <1>3, <2>2 DEF IsPart
  <2> QED
    BY <1>6, <2>1, <2>3 DEF Live
<1>8. IsOnly(gone, DOMAIN c.pool, slice, {o \in ToSet(slice) : f.pool[o].deleted})
  BY <1>3, OnlyIs DEF IsPart
<1> HIDE DEF gone
<1>9. gone \in Seq(DOMAIN c.pool) /\ ToSet(gone) \subseteq ToSet(slice) /\ DOMAIN c.pool = DOMAIN f.pool
  BY <1>4, <1>8 DEF IsOnly, IsWithout, Aged
<1>10. \A o \in ToSet(gone) : o \in DOMAIN c.pool /\ f.pool[o].key = KeyOf(c, o) /\ KeyOf(c, o) \in keys
  <2>1. \A o \in ToSet(gone) : KeyOf(c, o) \in keys
    BY <1>3, <1>9 DEF IsPart
  <2>2. \A o \in ToSet(gone) : o \in DOMAIN c.pool
    BY <1>9 DEF ToSet
  <2>3. \A o \in DOMAIN c.pool : f.pool[o].key = KeyOf(c, o)
    BY <1>4 DEF IsWithout, Aged, KeyOf
  <2> QED
    BY <2>1, <2>2, <2>3
<1>11. \A o \in Live(f.pool) : o \in DOMAIN c.pool /\ f.pool[o].key = KeyOf(c, o) /\ o \notin ToSet(gone)
  <2>1. \A o \in Live(f.pool) : o \in DOMAIN c.pool
    BY <1>9 DEF Live
  <2>2. \A o \in DOMAIN c.pool : f.pool[o].key = KeyOf(c, o)
    BY <1>4 DEF IsWithout, Aged, KeyOf
  <2> QED
    BY <1>7, <1>10, <2>1, <2>2
<1>12. \A i \in 1..Len(gone) : Gone(f.pool[gone[i]].key, f.pool)
  <2> TAKE i \in 1..Len(gone)
  <2>1. gone[i] \in ToSet(gone)
    BY <1>9 DEF ToSet
  <2>2. f.pool[gone[i]].key \in keys
    BY <1>10, <2>1
  <2>3. \A o \in Live(f.pool) : f.pool[o].key \notin keys
    BY <1>7, <1>11
  <2> QED
    BY <2>2, <2>3 DEF Gone
<1>13. CacheOk(f) /\ gone \in Seq(DOMAIN f.pool)
  BY <1>4, <1>9 DEF IsWithout
<1>14. g \in Forgetting(f)
  BY <1>5, <1>12, <1>13, AllForgotten
<1> HIDE DEF g
<1>15. CacheOk(g) /\ g.pool = f.pool /\ g.sorted = f.sorted
  BY <1>14 DEF Forgetting
<1>16. CacheOk(w) /\ w.pool = f.pool
  <2> DEFINE s == g.sorted
             T == ToSet(s) \ ToSet(gone)
             r == Only(s, T)
             P == f.pool
  <2>1. w = [g EXCEPT !.sorted = r, !.dirty = TRUE]
    OBVIOUS
  <2>2. /\ IsCache(w) /\ w.pool = g.pool /\ w.hash = g.hash /\ w.sorted = r /\ w.dirty = TRUE
        /\ w.nodes = g.nodes /\ w.tags = g.tags
    <3>1. IsCache(g)
      BY <1>15 DEF CacheOk
    <3> HIDE DEF r, w
    <3> QED
      BY <2>1, <3>1 DEF IsCache
  <2> HIDE DEF w
  <2>3. ListOk(s, P) /\ Live(P) \subseteq ToSet(s)
    BY <1>15 DEF CacheOk, SortedOk
  <2>4. IsOnly(r, DOMAIN P, s, T)
    BY <2>3, OnlyIs DEF ListOk
  <2>5. Live(P) \subseteq T
    BY <1>11, <2>3
  <2> HIDE DEF r, T
  <2>6. ListOk(r, P) /\ Live(P) \subseteq ToSet(r)
    BY <2>3, <2>4, <2>5 DEF IsOnly, ListOk
  <2>7. SortedOk(w.sorted, w.dirty, w.pool)
    BY <1>15, <2>2, <2>6 DEF SortedOk
  <2> QED
    BY <1>15, <2>2, <2>7 DEF CacheOk
<1> HIDE DEF w
<1> QED
  BY <1>1, <1>9, <1>16

-----------------------------------------------------------------------------
(* The other steps.                                                        *)

LEMMA SortedCache ==
  ASSUME NEW c, CacheOk(c), NEW e \in EnsureSorted(c)
  PROVE  CacheOk(e) /\ IsSortedOf(e, c)
<1>1. IsSortedOf(e, c)
  BY EnsureSortedIs DEF CacheOk
<1> QED
  BY <1>1 DEF IsSortedOf, CacheOk

(* Flagging entries as deleted leaves every list as it is.                 *)
LEMMA FlaggedCache ==
  ASSUME NEW c, CacheOk(c), NEW D
  PROVE  CacheOk(Flagged(c, D)) /\ DOMAIN Flagged(c, D).pool = DOMAIN c.pool
<1> DEFINE d == Flagged(c, D)
<1>1. IsCache(c) /\ c.pool \in Seq(Entries)
  BY DEF CacheOk
<1>2. /\ IsCache(d) /\ d.hash = c.hash /\ d.sorted = c.sorted /\ d.dirty = c.dirty
      /\ d.nodes = c.nodes /\ d.tags = c.tags
      /\ Aged(d.pool, c.pool)
      /\ Live(d.pool) = Live(c.pool) \ D
      /\ \A o \in DOMAIN c.pool : d.pool[o].deleted = (c.pool[o].deleted \/ o \in D)
      /\ \A o \in DOMAIN c.pool : d.pool[o].expired = c.pool[o].expired
  BY <1>1, FlaggedIs
<1> HIDE DEF d
<1>3. CacheOk(d)
  BY <1>2, AgedCache
<1> QED
  BY <1>2, <1>3 DEF Aged, d

(* The time of an entry runs out.                                          *)
LEMMA ExpiredCache ==
  ASSUME NEW c, CacheOk(c), NEW o \in DOMAIN c.pool
  PROVE  LET d == [c EXCEPT !.pool[o].expired = TRUE]
         IN  CacheOk(d) /\ DOMAIN d.pool = DOMAIN c.pool
<1> DEFINE P == c.pool
           x == [P[o] EXCEPT !.expired = TRUE]
           Q == [P EXCEPT ![o] = x]
           d == [c EXCEPT !.pool[o].expired = TRUE]
<1>1. P \in Seq(Entries) /\ P[o] \in Entries
  BY DEF CacheOk
<1>2. x \in Entries /\ x.key = P[o].key /\ x.value = P[o].value /\ x.expired = TRUE
  BY <1>1 DEF Entries
<1>3. d = [c EXCEPT !.pool = Q]
  OBVIOUS
<1> HIDE DEF x, d
<1>4. Q \in Seq(Entries) /\ DOMAIN Q = DOMAIN P /\ \A y \in DOMAIN P : Q[y] = IF y = o THEN x ELSE P[y]
  BY <1>1, <1>2
<1> HIDE DEF Q
<1>5. /\ IsCache(d) /\ d.pool = Q /\ d.hash = c.hash /\ d.sorted = c.sorted
      /\ d.dirty = c.dirty /\ d.nodes = c.nodes /\ d.tags = c.tags
  BY <1>3 DEF CacheOk, IsCache
<1>6. Live(Q) \subseteq Live(P)
  <2> SUFFICES ASSUME NEW y \in Live(Q) PROVE y \in Live(P)
    OBVIOUS
  <2>1. y \in DOMAIN P /\ ~Q[y].expired /\ ~Q[y].deleted
    BY <1>4 DEF Live
  <2>2. y # o
    BY <1>2, <1>4, <2>1
  <2> QED
    BY <1>4, <2>1, <2>2 DEF Live
<1>7. Aged(Q, P)
  BY <1>2, <1>4, <1>6 DEF Aged
<1>8. CacheOk(d)
  BY <1>5, <1>7, AgedCache
<1> QED
  BY <1>4, <1>5, <1>8 DEF d

(* cache_compact.                                                          *)
LEMMA CompactCache ==
  ASSUME NEW c, CacheOk(c)
  PROVE  LET d == [c EXCEPT !.sorted = Only(c.sorted, Readable(c)), !.dirty = TRUE]
         IN  CacheOk(d) /\ d.pool = c.pool
<1> DEFINE s == c.sorted
           P == c.pool
           r == Only(s, Readable(c))
           d == [c EXCEPT !.sorted = r, !.dirty = TRUE]
<1>1. ListOk(s, P) /\ Live(P) \subseteq ToSet(s)
  BY DEF CacheOk, SortedOk
<1>2. Readable(c) = Live(P)
  BY DEF Readable, Valid, Live
<1>3. IsOnly(r, DOMAIN P, s, Live(P))
  BY <1>1, <1>2, OnlyIs DEF ListOk
<1> HIDE DEF r
<1>4. /\ IsCache(d) /\ d.pool = P /\ d.hash = c.hash /\ d.sorted = r /\ d.dirty = TRUE
      /\ d.nodes = c.nodes /\ d.tags = c.tags
  BY DEF CacheOk, IsCache
<1> HIDE DEF d
<1>5. ListOk(r, P) /\ Live(P) \subseteq ToSet(r)
  BY <1>1, <1>3 DEF IsOnly, ListOk
<1>6. SortedOk(d.sorted, d.dirty, d.pool)
  BY <1>4, <1>5 DEF SortedOk
<1>7. CacheOk(d)
  BY <1>4, <1>6 DEF CacheOk
<1> QED
  BY <1>4, <1>7 DEF d, r

(* A new cache is empty.                                                   *)
LEMMA SoundAtFirst == Init => Sound
<1> SUFFICES ASSUME Init PROVE Sound
  OBVIOUS
<1> DEFINE root == [up |-> 0, path |-> <<>>, offsets |-> <<>>]
<1>1. /\ IsCache(cache) /\ cache.pool = <<>> /\ cache.hash = [k \in Keys |-> 0] /\ cache.sorted = <<>>
      /\ cache.dirty = FALSE /\ cache.nodes = <<root>> /\ cache.tags = [t \in Tags |-> <<>>]
      /\ iter = 0 /\ calm = TRUE /\ seen = <<>> /\ due = {}
  BY DEF Init, IsCache
<1>2. Live(<<>>) = {} /\ <<>> \in Seq(Entries) /\ ToSet(<<>>) = {}
  BY DEF Live, ToSet
<1>3. \A P : ListOk(<<>>, P)
  BY DEF ListOk, IsInjective
<1>4. HashOk(cache.hash, <<>>)
  <2> DEFINE h == [k \in Keys |-> 0]
  <2>1. h \in [Keys -> Nat] /\ \A k \in Keys : h[k] = 0
    OBVIOUS
  <2> HIDE DEF h
  <2>2. HashOk(h, <<>>)
    BY <1>2, <2>1 DEF HashOk
  <2> QED
    BY <1>1, <2>2 DEF h
<1>5. SortedOk(<<>>, FALSE, <<>>)
  BY <1>2, <1>3 DEF SortedOk, InKeyOrder
<1>6. TreeOk(<<root>>) /\ Filed(<<root>>, <<>>)
  <2>1. root \in Nodes /\ root.path = <<>> /\ root.offsets = <<>>
    BY DEF Nodes
  <2> HIDE DEF root
  <2>2. <<root>> \in Seq(Nodes) /\ DOMAIN <<root>> = {1} /\ <<root>>[1] = root
    BY <2>1
  <2> DEFINE t == <<root>>
  <2> HIDE DEF t
  <2>3. t \in Seq(Nodes) /\ DOMAIN t = {1} /\ t[1] = root
    BY <2>2 DEF t
  <2>4. TreeOk(t)
    BY <2>1, <2>3 DEF TreeOk
  <2>5. Filed(t, <<>>)
    BY <1>2, <1>3, <2>1, <2>3 DEF Filed
  <2> QED
    BY <2>4, <2>5 DEF t
<1>7. TagsOk(cache.tags, <<>>)
  <2> DEFINE g == [t \in Tags |-> <<>>]
  <2>1. DOMAIN g = Tags /\ \A t \in Tags : g[t] = <<>>
    OBVIOUS
  <2> HIDE DEF g
  <2>2. TagsOk(g, <<>>)
    BY <1>2, <1>3, <2>1 DEF TagsOk
  <2> QED
    BY <1>1, <2>2 DEF g
<1>8. CacheOk(cache)
  <2> HIDE DEF root
  <2>1. cache.pool \in Seq(Entries) /\ HashOk(cache.hash, cache.pool)
    BY <1>1, <1>2, <1>4
  <2>2. SortedOk(cache.sorted, cache.dirty, cache.pool)
    BY <1>1, <1>5
  <2>3. TreeOk(cache.nodes) /\ Filed(cache.nodes, cache.pool) /\ TagsOk(cache.tags, cache.pool)
    BY <1>1, <1>6, <1>7
  <2> QED
    BY <1>1, <2>1, <2>2, <2>3 DEF CacheOk
<1>9. Iterated(<<>>, 0, <<>>, {}, <<>>)
  <2>1. <<>> \in Seq(DOMAIN <<>>) /\ IsInjective(<<>>)
    BY DEF IsInjective
  <2> QED
    BY <1>2, <2>1 DEF Iterated
<1>10. iter \in Nat /\ calm \in BOOLEAN
  BY <1>1
<1>11. Iterated(cache.sorted, iter, seen, due, cache.pool)
  BY <1>1, <1>9
<1> QED
  BY <1>8, <1>10, <1>11 DEF Sound

-----------------------------------------------------------------------------
(* The iterator.                                                           *)

(* A step to another cache keeps what an iteration has seen and what is    *)
(* still before it, if the array has only grown.                           *)
LEMMA HistoryKeeps ==
  ASSUME Sound, NEW c, CacheOk(c), DOMAIN cache.pool \subseteq DOMAIN c.pool, Becomes(c)
  PROVE  Sound'
<1>1. cache' = c /\ iter' = iter /\ calm' = (calm /\ IsPrefix(cache.sorted, c.sorted))
  BY DEF Becomes, History
<1>2. CacheOk(cache)' /\ iter' \in Nat /\ calm' \in BOOLEAN
  <2>1. CacheOk(cache')
    BY <1>1
  <2> QED
    BY <1>1, <2>1 DEF Sound
<1>3. ASSUME calm'
      PROVE  Iterated(c.sorted, iter, seen', due', c.pool)
  <2> DEFINE s == cache.sorted
             t == c.sorted
  <2>1. calm /\ IsPrefix(s, t) /\ due' = due \intersect Readable(c) /\ seen' = seen
    BY <1>1, <1>3 DEF Becomes, History
  <2>2. Iterated(s, iter, seen, due, cache.pool)
    BY <2>1 DEF Sound
  <2>3. s \in Seq(DOMAIN cache.pool) /\ t \in Seq(DOMAIN c.pool)
    BY DEF Sound, CacheOk, SortedOk, ListOk
  <2> HIDE DEF s, t
  <2>4. \A j \in DOMAIN s : j \in DOMAIN t /\ s[j] = t[j]
    <3>1. Len(s) <= Len(t) /\ SubSeq(s, 1, Len(s)) = SubSeq(t, 1, Len(s))
      BY <2>1 DEF IsPrefix
    <3>2. \A j \in 1..Len(s) : SubSeq(s, 1, Len(s))[j] = s[j]
      BY <2>3
    <3>3. \A j \in 1..Len(s) : SubSeq(t, 1, Len(s))[j] = t[j]
      BY <2>3, <3>1
    <3>4. DOMAIN s = 1..Len(s) /\ DOMAIN t = 1..Len(t) /\ Len(s) \in Nat /\ Len(t) \in Nat
      BY <2>3
    <3> QED
      BY <3>1, <3>2, <3>3, <3>4
  <2>5. seen' \in Seq(DOMAIN c.pool) /\ IsInjective(seen')
    BY <2>1, <2>2 DEF Iterated
  <2>6. ToSet(seen') \subseteq {t[j] : j \in {j \in DOMAIN t : j <= iter}}
    <3>1. {s[j] : j \in {j \in DOMAIN s : j <= iter}} \subseteq {t[j] : j \in {j \in DOMAIN t : j <= iter}}
      BY <2>4
    <3>2. ToSet(seen') \subseteq {s[j] : j \in {j \in DOMAIN s : j <= iter}}
      BY <2>1, <2>2 DEF Iterated
    <3> QED
      BY <3>1, <3>2
  <2>7. due' \subseteq Live(c.pool)
    BY <2>1 DEF Readable, Valid, Live
  <2>8. due' \subseteq ToSet(seen') \union {t[j] : j \in {j \in DOMAIN t : j > iter}}
    <3>1. {s[j] : j \in {j \in DOMAIN s : j > iter}} \subseteq {t[j] : j \in {j \in DOMAIN t : j > iter}}
      BY <2>4
    <3>2. due \subseteq ToSet(seen) \union {s[j] : j \in {j \in DOMAIN s : j > iter}}
      BY <2>2 DEF Iterated
    <3> QED
      BY <2>1, <3>1, <3>2
  <2> QED
    BY <2>5, <2>6, <2>7, <2>8 DEF Iterated, t
<1>4. (calm => Iterated(cache.sorted, iter, seen, due, cache.pool))'
  BY <1>1, <1>3
<1> QED
  BY <1>2, <1>4 DEF Sound

(* An iteration that starts again has all before it.                       *)
LEMMA IterResetSound ==
  ASSUME Sound, IterReset
  PROVE  Sound'
<1> DEFINE s == cache.sorted
           P == cache.pool
<1>1. cache' = cache /\ iter' = 0 /\ calm' = TRUE /\ seen' = <<>> /\ due' = Live(P)
  BY DEF IterReset, Readable, Valid, Live
<1>2. CacheOk(cache)
  BY DEF Sound
<1>3. ListOk(s, P) /\ Live(P) \subseteq ToSet(s)
  BY <1>2 DEF CacheOk, SortedOk
<1>4. \A j \in DOMAIN s : j > 0
  BY <1>3 DEF ListOk
<1> HIDE DEF s, P
<1>5. Iterated(s, 0, <<>>, Live(P), P)
  <2>1. <<>> \in Seq(DOMAIN P) /\ IsInjective(<<>>) /\ ToSet(<<>>) = {}
    BY DEF IsInjective, ToSet
  <2>2. ToSet(s) \subseteq {s[j] : j \in {j \in DOMAIN s : j > 0}}
    BY <1>4 DEF ToSet
  <2> QED
    BY <1>3, <2>1, <2>2 DEF Iterated
<1>6. CacheOk(cache)' /\ iter' \in Nat /\ calm' \in BOOLEAN
  BY <1>1, <1>2
<1>7. Iterated(cache.sorted, iter, seen, due, cache.pool)'
  BY <1>1, <1>5 DEF s, P
<1> QED
  BY <1>6, <1>7 DEF Sound

(* Where cache_iter_next stops: at the first place behind i that is asked  *)
(* for, or at the end.                                                     *)
Stop(i, asked, n) == IF asked = {} THEN Max({i, n}) ELSE Min(asked)

LEMMA StopIs ==
  ASSUME NEW i \in Nat, NEW n \in Nat, NEW asked \in SUBSET ((i + 1)..n)
  PROVE  LET stop == Stop(i, asked, n)
         IN  /\ stop \in Nat /\ i <= stop
             /\ asked = {} => n <= stop
             /\ asked # {} => stop \in asked
             /\ \A j \in asked : stop <= j
<1>1. CASE asked = {}
  <2>1. Stop(i, asked, n) = IF i >= n THEN i ELSE n
    BY <1>1, MaxOfTwo DEF Stop
  <2> QED
    BY <1>1, <2>1
<1>2. CASE asked # {}
  <2>1. asked \in SUBSET Nat
    OBVIOUS
  <2>2. Min(asked) \in asked /\ \A j \in asked : Min(asked) <= j
    BY <1>2, <2>1, LeastNumber
  <2>3. Stop(i, asked, n) = Min(asked)
    BY <1>2 DEF Stop
  <2> DEFINE stop == Stop(i, asked, n)
  <2>4. stop \in asked /\ \A j \in asked : stop <= j
    BY <2>2, <2>3
  <2> HIDE DEF stop
  <2>5. stop \in (i + 1)..n
    BY <2>4
  <2>6. stop \in Nat /\ i <= stop
    BY <2>5
  <2> QED
    BY <1>2, <2>4, <2>6 DEF stop
<1> QED
  BY <1>1, <1>2

(* What a call of the iterator passes over has been returned or was not    *)
(* asked for.                                                              *)
LEMMA IterNextSound ==
  ASSUME Sound, NEW keys, IterNext(keys)
  PROVE  Sound'
<1> DEFINE s == cache.sorted
           P == cache.pool
           n == Len(s)
           asked == {j \in (iter + 1)..n : Valid(cache, s[j]) /\ KeyOf(cache, s[j]) \in keys}
           stop == Stop(iter, asked, n)
<1>1. /\ iter' = stop
      /\ seen' = IF asked = {} \/ ~calm THEN seen ELSE Append(seen, s[stop])
      /\ due' = {o \in due : KeyOf(cache, o) \in keys \/ o \notin ToSet(SubSeq(s, iter + 1, stop))}
      /\ cache' = cache /\ calm' = calm
  BY DEF IterNext, Stop
<1>2. CacheOk(cache) /\ iter \in Nat /\ calm \in BOOLEAN
  BY DEF Sound
<1>3. s \in Seq(DOMAIN P) /\ IsInjective(s) /\ n \in Nat /\ DOMAIN s = 1..n
  BY <1>2 DEF CacheOk, SortedOk, ListOk
<1>4. asked \in SUBSET ((iter + 1)..n)
  OBVIOUS
<1>5. \A j \in (iter + 1)..n : s[j] \in Live(P) /\ KeyOf(cache, s[j]) \in keys => j \in asked
  BY DEF Live, Valid
<1> HIDE DEF n
<1>6. /\ stop \in Nat /\ iter <= stop
      /\ asked = {} => n <= stop
      /\ asked # {} => stop \in asked
      /\ \A j \in asked : stop <= j
  <2> HIDE DEF asked
  <2> QED
    BY <1>2, <1>3, <1>4, StopIs
<1> HIDE DEF asked, stop
<1>7. ASSUME calm
      PROVE  Iterated(s, stop, seen', due', P)
  <2>1. /\ seen \in Seq(DOMAIN P) /\ IsInjective(seen)
        /\ ToSet(seen) \subseteq {s[j] : j \in {j \in DOMAIN s : j <= iter}}
        /\ due \subseteq Live(P)
        /\ due \subseteq ToSet(seen) \union {s[j] : j \in {j \in DOMAIN s : j > iter}}
    BY <1>7 DEF Sound, Iterated
  <2> HIDE DEF s, P
  <2>2. \A j \in DOMAIN s : j <= iter => j <= stop
    BY <1>2, <1>3, <1>6
  <2>3. {s[j] : j \in {j \in DOMAIN s : j <= iter}} \subseteq {s[j] : j \in {j \in DOMAIN s : j <= stop}}
    BY <2>2
  <2>4. /\ seen' \in Seq(DOMAIN P) /\ IsInjective(seen')
        /\ ToSet(seen') \subseteq {s[j] : j \in {j \in DOMAIN s : j <= stop}}
        /\ ToSet(seen) \subseteq ToSet(seen')
        /\ asked # {} => s[stop] \in ToSet(seen')
    <3>1. CASE asked = {}
      <4>1. seen' = seen
        BY <1>1, <3>1
      <4> QED
        BY <2>1, <2>3, <3>1, <4>1
    <3>2. CASE asked # {}
      <4>1. seen' = Append(seen, s[stop])
        BY <1>1, <1>7, <3>2
      <4>2. stop \in DOMAIN s /\ stop > iter
        BY <1>2, <1>3, <1>4, <1>6, <3>2
      <4>3. s[stop] \in DOMAIN P
        BY <1>3, <4>2
      <4>4. s[stop] \notin ToSet(seen)
        <5> SUFFICES ASSUME s[stop] \in ToSet(seen) PROVE FALSE
          OBVIOUS
        <5>1. PICK j \in DOMAIN s : j <= iter /\ s[j] = s[stop]
          BY <2>1
        <5>2. j = stop
          BY <1>3, <4>2, <5>1 DEF IsInjective
        <5> QED
          BY <1>2, <1>6, <4>2, <5>1, <5>2
      <4>5. IsAppended(Append(seen, s[stop]), DOMAIN P, seen, s[stop])
        BY <2>1, <4>3, AppendedIs
      <4>6. seen' \in Seq(DOMAIN P) /\ IsInjective(seen') /\ ToSet(seen') = ToSet(seen) \union {s[stop]}
        BY <2>1, <4>1, <4>4, <4>5 DEF IsAppended
      <4>7. s[stop] \in {s[j] : j \in {j \in DOMAIN s : j <= stop}}
        BY <1>6, <4>2
      <4> QED
        BY <2>1, <2>3, <4>6, <4>7
    <3> QED
      BY <3>1, <3>2
  <2>5. due' \subseteq due
    BY <1>1
  <2>6. ASSUME NEW o \in due', o \notin ToSet(seen')
        PROVE  \E j \in DOMAIN s : j > stop /\ o = s[j]
    <3>1. o \in due /\ o \in Live(P) /\ (KeyOf(cache, o) \in keys \/ o \notin ToSet(SubSeq(s, iter + 1, stop)))
      BY <1>1, <2>1
    <3>2. o \notin ToSet(seen)
      BY <2>4, <2>6
    <3>3. PICK j \in DOMAIN s : j > iter /\ o = s[j]
      BY <2>1, <3>1, <3>2
    <3>4. ASSUME j <= stop PROVE FALSE
      <4>1. j \in (iter + 1)..n
        BY <1>2, <1>3, <3>3
      <4>2. j \notin asked
        <5> SUFFICES ASSUME j \in asked PROVE FALSE
          OBVIOUS
        <5>1. stop \in asked /\ stop <= j
          BY <1>6
        <5>2. j = stop
          BY <1>3, <1>6, <3>4, <5>1
        <5> QED
          BY <2>4, <2>6, <3>3, <5>1, <5>2
      <4>3. KeyOf(cache, o) \notin keys
        BY <1>5, <3>1, <3>3, <4>1, <4>2 DEF s, P
      <4>4. o \notin ToSet(SubSeq(s, iter + 1, stop))
        BY <3>1, <4>3
      <4>5. stop \in 0..n \/ stop > n
        BY <1>3, <1>6
      <4>6. j - iter \in DOMAIN SubSeq(s, iter + 1, stop) /\ SubSeq(s, iter + 1, stop)[j - iter] = s[j]
        <5>1. iter + 1 \in Nat /\ stop \in Nat /\ j - iter \in 1..(stop - iter) /\ (iter + 1) + (j - iter) - 1 = j
          BY <1>2, <1>3, <1>6, <3>3, <3>4
        <5>2. SubSeq(s, iter + 1, stop) = [i \in 1..(stop - iter) |-> s[(iter + 1) + i - 1]]
          BY <1>2, <1>6
        <5> QED
          BY <5>1, <5>2
      <4> QED
        BY <3>3, <4>4, <4>6 DEF ToSet
    <3>5. j > stop
      BY <1>3, <1>6, <3>4
    <3> QED
      BY <3>3, <3>5
  <2>7. due' \subseteq ToSet(seen') \union {s[j] : j \in {j \in DOMAIN s : j > stop}}
    BY <2>6
  <2>8. due' \subseteq Live(P)
    BY <2>1, <2>5
  <2> QED
    BY <2>4, <2>7, <2>8 DEF Iterated
<1>8. CacheOk(cache)' /\ iter' \in Nat /\ calm' \in BOOLEAN
  BY <1>1, <1>2, <1>6
<1>9. (calm => Iterated(cache.sorted, iter, seen, due, cache.pool))'
  BY <1>1, <1>7
<1> QED
  BY <1>8, <1>9 DEF Sound

(* Each step.                                                              *)
LEMMA FoundIs ==
  ASSUME NEW c, CacheOk(c), NEW k \in Keys, Find(c, k) # 0
  PROVE  /\ Find(c, k) = c.hash[k] /\ Find(c, k) \in DOMAIN c.pool
         /\ c.pool[Find(c, k)].key = k /\ c.hash[c.pool[Find(c, k)].key] = Find(c, k)
<1>1. Find(c, k) = c.hash[k] /\ c.hash[k] # 0
  BY DEF Find
<1>2. c.hash[k] \in DOMAIN c.pool /\ c.pool[c.hash[k]].key = k
  BY <1>1 DEF CacheOk, HashOk
<1> QED
  BY <1>1, <1>2

(* A store replaces the entry of the key, after which the key is gone, and *)
(* adds one.                                                               *)
LEMMA SetSound ==
  ASSUME Sound, NEW k \in Keys, NEW v \in Values, Set(k, v)
  PROVE  Sound'
<1>1. PICK r \in Replaced(cache, k) : Becomes(Stored(r, k, v))
  BY DEF Set
<1>2. CacheOk(cache)
  BY DEF Sound
<1>3. CacheOk(r) /\ DOMAIN r.pool = DOMAIN cache.pool /\ Gone(k, r.pool)
  BY <1>2, ReplacedIs
<1> DEFINE c == Stored(r, k, v)
<1>4. CacheOk(c) /\ DOMAIN r.pool \subseteq DOMAIN c.pool
  BY <1>3, StoredIs
<1>5. Becomes(c)
  BY <1>1
<1> HIDE DEF c
<1> QED
  BY <1>3, <1>4, <1>5, HistoryKeeps

(* A deletion removes the entry that the index finds.                      *)
LEMMA DelSound ==
  ASSUME Sound, NEW k \in Keys, Del(k)
  PROVE  Sound'
<1> DEFINE o == Find(cache, k)
<1>1. CacheOk(cache)
  BY DEF Sound
<1>2. PICK r \in Removed(cache, o) : Becomes(r)
  BY DEF Del
<1>3. o \in DOMAIN cache.pool /\ cache.hash[cache.pool[o].key] = o
  BY <1>1, FoundIs DEF Del
<1> HIDE DEF o
<1>4. IsRemoved(r, cache, o)
  BY <1>1, <1>2, <1>3, RemovedIs
<1>5. CacheOk(r) /\ DOMAIN cache.pool \subseteq DOMAIN r.pool
  BY <1>4 DEF IsRemoved, Aged
<1> QED
  BY <1>2, <1>5, HistoryKeeps

(* cache_expire only flags the entry.                                      *)
LEMMA ExpireSound ==
  ASSUME Sound, NEW k \in Keys, Expire(k)
  PROVE  Sound'
<1> DEFINE o == Find(cache, k)
           f == Flagged(cache, {o})
           d == [f EXCEPT !.pool[o].expired = TRUE]
<1>1. CacheOk(cache)
  BY DEF Sound
<1>2. Becomes(d)
  BY DEF Expire
<1>3. o \in DOMAIN cache.pool
  BY <1>1, FoundIs DEF Expire
<1>4. CacheOk(f) /\ DOMAIN f.pool = DOMAIN cache.pool
  BY <1>1, FlaggedCache
<1> HIDE DEF f, o
<1>5. CacheOk(d) /\ DOMAIN d.pool = DOMAIN f.pool
  BY <1>3, <1>4, ExpiredCache
<1> HIDE DEF d
<1> QED
  BY <1>2, <1>4, <1>5, HistoryKeeps

(* Nothing is done when a time runs out.                                   *)
LEMMA RunOutSound ==
  ASSUME Sound, NEW o \in DOMAIN cache.pool, RunOut(o)
  PROVE  Sound'
<1> DEFINE d == [cache EXCEPT !.pool[o].expired = TRUE]
<1>1. CacheOk(cache)
  BY DEF Sound
<1>2. Becomes(d)
  BY DEF RunOut
<1>3. CacheOk(d) /\ DOMAIN d.pool = DOMAIN cache.pool
  BY <1>1, ExpiredCache
<1> HIDE DEF d
<1> QED
  BY <1>2, <1>3, HistoryKeeps

(* A purge flags what has expired.                                         *)
LEMMA PurgeExpiredSound ==
  ASSUME Sound, PurgeExpired
  PROVE  Sound'
<1> DEFINE d == Flagged(cache, {o \in DOMAIN cache.pool : cache.pool[o].expired})
<1>1. CacheOk(cache)
  BY DEF Sound
<1>2. Becomes(d)
  BY DEF PurgeExpired
<1>3. CacheOk(d) /\ DOMAIN d.pool = DOMAIN cache.pool
  BY <1>1, FlaggedCache
<1> HIDE DEF d
<1> QED
  BY <1>2, <1>3, HistoryKeeps

(* A compaction takes out of the array what cannot be read.                *)
LEMMA CompactSound ==
  ASSUME Sound, Compact
  PROVE  Sound'
<1> DEFINE kept == Only(cache.sorted, Readable(cache))
           d == [cache EXCEPT !.sorted = Only(cache.sorted, Readable(cache)), !.dirty = TRUE]
           c == IF kept = cache.sorted THEN cache ELSE d
<1>1. CacheOk(cache)
  BY DEF Sound
<1>2. Becomes(c)
  BY DEF Compact
<1>3. CacheOk(d) /\ d.pool = cache.pool
  BY <1>1, CompactCache
<1> HIDE DEF d, kept
<1>4. CacheOk(c) /\ DOMAIN cache.pool \subseteq DOMAIN c.pool
  BY <1>1, <1>3
<1> HIDE DEF c
<1> QED
  BY <1>2, <1>4, HistoryKeeps

(* A search sorts the array.                                               *)
LEMMA SearchSound ==
  ASSUME Sound, Search
  PROVE  Sound'
<1>1. CacheOk(cache)
  BY DEF Sound
<1>2. PICK c \in EnsureSorted(cache) : Becomes(c)
  BY DEF Search
<1>3. CacheOk(c) /\ IsSortedOf(c, cache)
  BY <1>1, <1>2, SortedCache
<1>4. DOMAIN cache.pool \subseteq DOMAIN c.pool
  BY <1>3 DEF IsSortedOf
<1> QED
  BY <1>2, <1>3, <1>4, HistoryKeeps

(* Deleting a namespace sorts the array, then removes a slice of it.       *)
LEMMA DelNamespaceSound ==
  ASSUME Sound, NEW keys \in Spaces, DelNamespace(keys)
  PROVE  Sound'
<1>1. CacheOk(cache)
  BY DEF Sound
<1>2. PICK e \in EnsureSorted(cache) : Becomes(WithoutSpace(e, keys))
  BY DEF DelNamespace
<1>3. CacheOk(e) /\ IsSortedOf(e, cache)
  BY <1>1, <1>2, SortedCache
<1>4. e.dirty = FALSE /\ e.pool = cache.pool
  BY <1>3 DEF IsSortedOf
<1>5. IsRun(keys)
  BY RunsAre
<1> DEFINE c == WithoutSpace(e, keys)
<1>6. CacheOk(c) /\ DOMAIN c.pool = DOMAIN e.pool
  BY <1>3, <1>4, <1>5, WithoutSpaceIs
<1>7. Becomes(c)
  BY <1>2
<1> HIDE DEF c
<1>8. DOMAIN cache.pool \subseteq DOMAIN c.pool
  BY <1>4, <1>6
<1> QED
  BY <1>6, <1>7, <1>8, HistoryKeeps

(* The lists of the cache and the iterator stay sound: what each of them   *)
(* promises about readable entries survives every store, removal, expiry,  *)
(* compaction and search.                                                  *)
THEOREM SoundAlways == Spec => []Sound
<1>1. ASSUME Sound, [Next]_vars
      PROVE  Sound'
  <2>1. CASE PurgeExpired
    BY <1>1, <2>1, PurgeExpiredSound
  <2>2. CASE Compact
    BY <1>1, <2>2, CompactSound
  <2>3. CASE Search
    BY <1>1, <2>3, SearchSound
  <2>4. CASE IterReset
    BY <1>1, <2>4, IterResetSound
  <2>5. ASSUME NEW k \in Keys, Del(k) PROVE Sound'
    BY <1>1, <2>5, DelSound
  <2>6. ASSUME NEW k \in Keys, Expire(k) PROVE Sound'
    BY <1>1, <2>6, ExpireSound
  <2>7. ASSUME NEW k \in Keys, NEW v \in Values, Set(k, v) PROVE Sound'
    BY <1>1, <2>7, SetSound
  <2>8. ASSUME NEW o \in DOMAIN cache.pool, RunOut(o) PROVE Sound'
    BY <1>1, <2>8, RunOutSound
  <2>9. ASSUME NEW keys \in Spaces, DelNamespace(keys) PROVE Sound'
    BY <1>1, <2>9, DelNamespaceSound
  <2>10. ASSUME NEW keys, IterNext(keys) PROVE Sound'
    BY <1>1, <2>10, IterNextSound
  <2>11. CASE UNCHANGED vars
    BY <1>1, <2>11 DEF vars, Sound
  <2> QED
    BY <1>1, <2>1, <2>2, <2>3, <2>4, <2>5, <2>6, <2>7, <2>8, <2>9, <2>10, <2>11 DEF Next
<1> QED
  BY <1>1, SoundAtFirst, PTL DEF Spec

-----------------------------------------------------------------------------
(* The searches.                                                           *)

(* The first place behind the slice is where a prefix search stops.        *)
LEMMA SliceEnds ==
  ASSUME NEW c, IsArray(c), NEW S, NEW a, NEW b, IsSlice(c, S, a, b)
  PROVE  Min({i \in a..Len(c.sorted) : KeyOf(c, c.sorted[i]) \notin S} \union {Len(c.sorted) + 1}) = b
<1> DEFINE n == Len(c.sorted)
           ends == {i \in a..n : KeyOf(c, c.sorted[i]) \notin S} \union {n + 1}
           m == Min(ends)
<1>1. n \in Nat
  BY KeysAre DEF IsArray
<1>2. /\ a \in 1..(n + 1) /\ b \in 1..(n + 1) /\ a <= b
      /\ \A i \in 1..n : KeyOf(c, c.sorted[i]) \in S <=> (a <= i /\ i < b)
  BY DEF IsSlice
<1> HIDE DEF n
<1>3. b \in ends
  <2>1. CASE b = n + 1
    BY <2>1
  <2>2. CASE b # n + 1
    <3>1. b \in 1..n /\ b \in a..n /\ ~(b < b)
      BY <1>1, <1>2, <2>2
    <3>2. KeyOf(c, c.sorted[b]) \notin S
      BY <1>2, <3>1
    <3> QED
      BY <3>1, <3>2
  <2> QED
    BY <2>1, <2>2
<1>4. ASSUME NEW i \in ends PROVE i \in Nat /\ b <= i
  <2>1. CASE i = n + 1
    BY <1>1, <1>2, <2>1
  <2>2. CASE i # n + 1
    <3>1. i \in a..n /\ KeyOf(c, c.sorted[i]) \notin S
      BY <2>2
    <3>2. i \in 1..n /\ a <= i
      BY <1>1, <1>2, <3>1
    <3>3. ~(i < b)
      BY <1>2, <3>1, <3>2
    <3> QED
      BY <1>1, <1>2, <3>2, <3>3
  <2> QED
    BY <2>1, <2>2
<1>5. ends \in SUBSET Nat /\ ends # {}
  BY <1>3, <1>4
<1> HIDE DEF ends
<1>6. m \in ends /\ \A i \in ends : m <= i
  BY <1>5, LeastNumber
<1> HIDE DEF m
<1>7. m <= b /\ b <= m /\ m \in Nat /\ b \in Nat
  BY <1>2, <1>3, <1>4, <1>6
<1>8. m = b
  BY <1>7
<1> QED
  BY <1>8 DEF m, ends, n

(* What is readable in a slice.                                            *)
IsExact(found, c, S) ==
  /\ found \in Seq(DOMAIN c.pool)
  /\ ToSet(found) = {o \in Live(c.pool) : KeyOf(c, o) \in S}
  /\ Len(found) = Cardinality({o \in Live(c.pool) : KeyOf(c, o) \in S})
  /\ Ascending(c, found)

LEMMA ReadablePart ==
  ASSUME NEW c, IsArray(c), Live(c.pool) \subseteq ToSet(c.sorted), NEW S, NEW r, IsPart(r, c, S)
  PROVE  IsExact(Only(r, Readable(c)), c, S)
<1> DEFINE found == Only(r, Readable(c))
           P == c.pool
<1>1. Readable(c) = Live(P)
  BY DEF Readable, Valid, Live
<1>2. /\ r \in Seq(DOMAIN P) /\ IsInjective(r) /\ InKeyOrder(r, P)
      /\ ToSet(r) = {o \in ToSet(c.sorted) : KeyOf(c, o) \in S}
  BY DEF IsPart
<1>3. IsOnly(found, DOMAIN P, r, Live(P))
  BY <1>1, <1>2, OnlyIs
<1> HIDE DEF found
<1>4. /\ found \in Seq(DOMAIN P) /\ IsInjective(found) /\ ToSet(found) = ToSet(r) \intersect Live(P)
      /\ InOrder(found, r, Len(r))
  BY <1>3 DEF IsOnly
<1>5. ToSet(found) = {o \in Live(P) : KeyOf(c, o) \in S}
  BY <1>2, <1>4
<1>6. Len(found) = Cardinality(ToSet(found))
  BY <1>4, ListLength
<1>7. ASSUME NEW i \in 1..(Len(found) - 1) PROVE KeyOf(c, found[i]) <= KeyOf(c, found[i + 1])
  <2>1. i \in DOMAIN found /\ i + 1 \in DOMAIN found /\ i < i + 1
    BY <1>4
  <2>2. \E x, y \in 1..Len(r) : x < y /\ found[i] = r[x] /\ found[i + 1] = r[y]
    BY <1>4, <2>1 DEF InOrder
  <2>3. PICK x \in 1..Len(r) : \E y \in 1..Len(r) : x < y /\ found[i] = r[x] /\ found[i + 1] = r[y]
    BY <2>2
  <2>4. PICK y \in 1..Len(r) : x < y /\ found[i] = r[x] /\ found[i + 1] = r[y]
    BY <2>3
  <2>5. x \in DOMAIN r /\ y \in DOMAIN r /\ x <= y
    BY <1>2, <2>4
  <2>6. P[r[x]].key <= P[r[y]].key
    BY <1>2, <2>5 DEF InKeyOrder
  <2> QED
    BY <2>4, <2>6 DEF KeyOf
<1> QED
  BY <1>4, <1>5, <1>6, <1>7 DEF IsExact, Ascending, found

(* Both searches read the same slice of the array.                         *)
LEMMA SearchesAre ==
  ASSUME NEW c, CacheOk(c), c.dirty = FALSE, NEW S, IsRun(S)
  PROVE  IsExact(SearchPrefix(c, S), c, S) /\ SearchPrefix(c, S) = SearchRange(c, Min(S), Max(S) + 1)
<1> DEFINE a == LowerBound(c, Min(S))
           b == LowerBound(c, Max(S) + 1)
           r == SubSeq(c.sorted, a, b - 1)
           ends == {i \in a..Len(c.sorted) : KeyOf(c, c.sorted[i]) \notin S} \union {Len(c.sorted) + 1}
<1>1. IsArray(c) /\ Live(c.pool) \subseteq ToSet(c.sorted)
  BY DEF CacheOk, SortedOk, IsArray
<1>2. SearchPrefix(c, S) = Only(SubSeq(c.sorted, a, Min(ends) - 1), Readable(c))
  BY DEF SearchPrefix
<1>3. SearchRange(c, Min(S), Max(S) + 1) = Only(r, Readable(c))
  BY DEF SearchRange
<1>4. IsSlice(c, S, a, b)
  BY <1>1, SliceIs
<1> HIDE DEF a, b
<1>5. Min(ends) = b
  BY <1>1, <1>4, SliceEnds
<1>6. IsPart(r, c, S)
  BY <1>1, <1>4, SlicePart
<1> HIDE DEF ends
<1>7. SearchPrefix(c, S) = Only(r, Readable(c))
  BY <1>2, <1>5
<1> HIDE DEF r
<1>8. IsExact(Only(r, Readable(c)), c, S)
  BY <1>1, <1>6, ReadablePart
<1> QED
  BY <1>3, <1>7, <1>8

(* A prefix search returns each readable entry with the prefix once, in    *)
(* key order, and a range search over the same keys returns the same,      *)
(* whatever was stored, swapped, expired and compacted before.             *)
THEOREM PrefixSearchAlwaysExact == Spec => []PrefixSearchExact
<1>1. Sound => PrefixSearchExact
  <2> SUFFICES ASSUME Sound, NEW keys \in Spaces \union {Keys}, NEW e \in EnsureSorted(cache)
               PROVE  LET found == SearchPrefix(e, keys)
                      IN  /\ ToSet(found) = Held(keys) /\ Len(found) = Cardinality(Held(keys))
                          /\ Ascending(e, found)
                          /\ found = SearchRange(e, Min(keys), Max(keys) + 1)
    BY DEF PrefixSearchExact
  <2>1. CacheOk(cache)
    BY DEF Sound
  <2>2. CacheOk(e) /\ IsSortedOf(e, cache)
    BY <2>1, SortedCache
  <2>3. e.dirty = FALSE /\ e.pool = cache.pool
    BY <2>2 DEF IsSortedOf
  <2>4. IsRun(keys)
    BY RunsAre
  <2>5. IsExact(SearchPrefix(e, keys), e, keys) /\ SearchPrefix(e, keys) = SearchRange(e, Min(keys), Max(keys) + 1)
    BY <2>2, <2>3, <2>4, SearchesAre
  <2>6. Held(keys) = {o \in Live(e.pool) : KeyOf(e, o) \in keys}
    BY <2>3 DEF Held, Readable, Valid, Live, KeyOf
  <2> QED
    BY <2>5, <2>6 DEF IsExact
<1> QED
  BY <1>1, SoundAlways, PTL

(* A tag search returns readable entries that have the tag, none twice,    *)
(* and all of those that have it as a token, although the index is filled  *)
(* and emptied by the tokens and the search without it reads the words.    *)
THEOREM TagSearchAlwaysSound == Spec => []TagSearchSound
<1>1. Sound => TagSearchSound
  <2> SUFFICES ASSUME Sound, NEW t \in Tags
               PROVE  LET found == SearchTag(cache, t)
                      IN  /\ IsInjective(found)
                          /\ {o \in Readable(cache) : t \in TokensOf(cache, o)} \subseteq ToSet(found)
                          /\ \A o \in ToSet(found) : /\ o \in Readable(cache)
                                                     /\ t \in TokensOf(cache, o) \union Words[cache.pool[o].value]
    BY DEF TagSearchSound
  <2> DEFINE P == cache.pool
             listed == cache.tags[t]
             W == {o \in Readable(cache) : t \in Words[P[o].value]}
             found == SearchTag(cache, t)
  <2>1. CacheOk(cache)
    BY DEF Sound
  <2>2. /\ ListOk(listed, P)
        /\ \A o \in ToSet(listed) : t \in Tokens[P[o].value]
        /\ \A o \in Live(P) : t \in Tokens[P[o].value] => o \in ToSet(listed)
    BY <2>1 DEF CacheOk, TagsOk
  <2>3. ListOk(cache.sorted, P) /\ Live(P) \subseteq ToSet(cache.sorted)
    BY <2>1 DEF CacheOk, SortedOk
  <2>4. Readable(cache) = Live(P)
    BY DEF Readable, Valid, Live
  <2>5. \A o : TokensOf(cache, o) = Tokens[P[o].value]
    BY DEF TokensOf
  <2>6. CASE listed # <<>>
    <3>1. found = Only(listed, Live(P))
      BY <2>4, <2>6 DEF SearchTag
    <3>2. IsOnly(found, DOMAIN P, listed, Live(P))
      BY <2>2, <3>1, OnlyIs DEF ListOk
    <3> HIDE DEF found, listed
    <3>3. IsInjective(found) /\ ToSet(found) = ToSet(listed) \intersect Live(P)
      BY <3>2 DEF IsOnly
    <3> QED
      BY <2>2, <2>4, <2>5, <3>3 DEF found
  <2>7. CASE listed = <<>>
    <3>1. found = Only(cache.sorted, W)
      BY <2>7 DEF SearchTag
    <3> HIDE DEF W
    <3>2. IsOnly(found, DOMAIN P, cache.sorted, W)
      BY <2>3, <3>1, OnlyIs DEF ListOk
    <3>3. ToSet(listed) = {}
      BY <2>7 DEF ToSet
    <3> HIDE DEF found, listed
    <3>4. IsInjective(found) /\ ToSet(found) = ToSet(cache.sorted) \intersect W
      BY <3>2 DEF IsOnly
    <3>5. {o \in Readable(cache) : t \in TokensOf(cache, o)} = {}
      BY <2>2, <2>4, <2>5, <3>3
    <3> QED
      BY <3>4, <3>5 DEF found, W
  <2> QED
    BY <2>6, <2>7
<1> QED
  BY <1>1, SoundAlways, PTL

(* Every readable entry is in the namespace tree exactly once, in a node   *)
(* with the path of its key, although a second level gets a new node with  *)
(* every store and a removal looks only into the oldest.                   *)
THEOREM ReadableAlwaysInNamespace == Spec => []ReadableInNamespace
<1>1. Sound => ReadableInNamespace
  <2> SUFFICES ASSUME Sound, NEW o \in Readable(cache)
               PROVE  LET there == {n \in DOMAIN cache.nodes : Contains(cache.nodes[n].offsets, o)}
                      IN  /\ Cardinality(there) = 1
                          /\ \A n \in there : /\ cache.nodes[n].path = PathOf[KeyOf(cache, o)]
                                              /\ Cardinality({i \in DOMAIN cache.nodes[n].offsets : cache.nodes[n].offsets[i] = o}) = 1
    BY DEF ReadableInNamespace
  <2> DEFINE t == cache.nodes
             P == cache.pool
             there == {n \in DOMAIN t : Contains(t[n].offsets, o)}
  <2>1. Filed(t, P)
    BY DEF Sound, CacheOk
  <2>2. o \in Live(P)
    BY DEF Readable, Valid, Live
  <2> HIDE DEF t, P
  <2>3. \A n : Contains(t[n].offsets, o) <=> \E i \in 1..Len(t[n].offsets) : t[n].offsets[i] = o
    BY DEF Contains
  <2>4. \A n \in DOMAIN t : ListOk(t[n].offsets, P)
    BY <2>1 DEF Filed
  <2>5. \A n \in DOMAIN t : Contains(t[n].offsets, o) <=> o \in ToSet(t[n].offsets)
    <3> TAKE n \in DOMAIN t
    <3> DEFINE s == t[n].offsets
    <3>1. s \in Seq(DOMAIN P)
      BY <2>4 DEF ListOk
    <3>2. Contains(s, o) <=> \E i \in 1..Len(s) : s[i] = o
      BY <2>3
    <3> HIDE DEF s
    <3>3. ToSet(s) = {s[i] : i \in 1..Len(s)}
      BY <3>1 DEF ToSet
    <3> QED
      BY <3>2, <3>3 DEF s
  <2>6. PICK m \in DOMAIN t : o \in ToSet(t[m].offsets)
    BY <2>1, <2>2 DEF Filed
  <2>7. \A n \in DOMAIN t : o \in ToSet(t[n].offsets) => n = m
    BY <2>1, <2>6 DEF Filed
  <2>8. there = {m}
    BY <2>5, <2>6, <2>7
  <2>9. Cardinality(there) = 1
    BY <2>8, FS_Singleton
  <2> DEFINE s == t[m].offsets
             places == {i \in DOMAIN s : s[i] = o}
  <2>10. Cardinality(places) = 1
    <3>1. IsInjective(s) /\ o \in ToSet(s)
      BY <2>4, <2>6 DEF ListOk
    <3> HIDE DEF s
    <3>2. PICK i \in DOMAIN s : s[i] = o
      BY <3>1 DEF ToSet
    <3>3. \A j \in DOMAIN s : s[j] = o => j = i
      BY <3>1, <3>2 DEF IsInjective
    <3>4. places = {i}
      BY <3>2, <3>3
    <3> QED
      BY <3>4, FS_Singleton
  <2>11. t[m].path = PathOf[P[o].key]
    BY <2>1, <2>6 DEF Filed
  <2> QED
    BY <2>8, <2>9, <2>10, <2>11 DEF t, P, KeyOf
<1> QED
  BY <1>1, SoundAlways, PTL

(* While the array only grows at its end, an iteration returns nothing     *)
(* twice, and at the end it has returned all that was readable the whole   *)
(* time.                                                                   *)
THEOREM IterationAlwaysComplete == Spec => []IterationComplete
<1>1. Sound => IterationComplete
  <2> SUFFICES ASSUME Sound, calm
               PROVE  IsInjective(seen) /\ (iter >= Len(cache.sorted) => due \subseteq ToSet(seen))
    BY DEF IterationComplete
  <2> DEFINE s == cache.sorted
  <2>1. /\ IsInjective(seen)
        /\ due \subseteq ToSet(seen) \union {s[j] : j \in {j \in DOMAIN s : j > iter}}
    BY DEF Sound, Iterated
  <2>2. iter \in Nat /\ s \in Seq(DOMAIN cache.pool)
    BY DEF Sound, CacheOk, SortedOk, ListOk
  <2>3. ASSUME iter >= Len(s) PROVE {j \in DOMAIN s : j > iter} = {}
    <3>1. DOMAIN s = 1..Len(s) /\ Len(s) \in Nat
      BY <2>2
    <3> HIDE DEF s
    <3> QED
      BY <2>2, <2>3, <3>1
  <2> QED
    BY <2>1, <2>3
<1> QED
  BY <1>1, SoundAlways, PTL
=============================================================================
