------------------------- MODULE CacheStore_proofs -------------------------
(***************************************************************************)
(* Proofs about CacheStore for any keys, sizes, lifetimes and limits.      *)
(***************************************************************************)
EXTENDS CacheStore, FiniteSetTheorems, TLAPS

-----------------------------------------------------------------------------
(* Induction over the subsets of a finite set.  FS_Induction has an        *)
(* operator for its parameter, which the provers cannot instantiate; here  *)
(* a set of counterexamples has a smallest member.                         *)

LEMMA SmallestSubset ==
  ASSUME NEW S, IsFiniteSet(S), NEW Bad, Bad \subseteq SUBSET S, Bad # {}
  PROVE  \E b \in Bad : \A c \in SUBSET b : c # b => c \notin Bad
<1>1. Bad \subseteq FiniteSubsetsOf(S)
  BY FS_Subset DEF FiniteSubsetsOf
<1>2. \E b \in Bad : \A c \in Bad : ~(<<c, b>> \in StrictSubsetOrdering(S))
  BY <1>1, FS_StrictSubsetOrderingWellFounded, WFMin
<1> QED
  BY <1>1, <1>2 DEF StrictSubsetOrdering, FiniteSubsetsOf

-----------------------------------------------------------------------------
(* Sums over finite sets.                                                  *)

SumStep(f, g, s) == IF s = {} THEN 0 ELSE f[CHOOSE x \in s : TRUE] + g[s \ {CHOOSE x \in s : TRUE}]

IsSum(f, S, g) == g = [s \in SUBSET S |-> SumStep(f, g, s)]

(* What MapThenSumSet computes of the numbers f[x] for x in S.             *)
Total(f, S) == (CHOOSE g : IsSum(f, S, g))[S]

(* The recursion of a sum has at most one solution.                        *)
LEMMA SumUnique ==
  ASSUME NEW f, NEW S, IsFiniteSet(S), NEW T \in SUBSET S,
         NEW g, IsSum(f, S, g), NEW h, IsSum(f, T, h)
  PROVE  \A s \in SUBSET T : g[s] = h[s]
<1> DEFINE Bad == {s \in SUBSET T : g[s] # h[s]}
<1>1. SUFFICES ASSUME Bad # {} PROVE FALSE
  OBVIOUS
<1>2. PICK b \in Bad : \A c \in SUBSET b : c # b => c \notin Bad
  <2>1. Bad \subseteq SUBSET S
    OBVIOUS
  <2> HIDE DEF Bad
  <2> QED
    BY <1>1, <2>1, SmallestSubset
<1>3. g[b] = SumStep(f, g, b) /\ h[b] = SumStep(f, h, b)
  BY DEF IsSum
<1>4. CASE b = {}
  BY <1>3, <1>4 DEF SumStep
<1>5. CASE b # {}
  <2> DEFINE x == CHOOSE y \in b : TRUE
  <2>1. x \in b
    BY <1>5
  <2>2. g[b \ {x}] = h[b \ {x}]
    BY <1>2, <2>1
  <2> QED
    BY <1>3, <1>5, <2>2 DEF SumStep
<1> QED
  BY <1>4, <1>5

(* It has one over every finite set.                                       *)
LEMMA SumExists ==
  ASSUME NEW f, NEW S, IsFiniteSet(S)
  PROVE  IsSum(f, S, CHOOSE g : IsSum(f, S, g))
<1> DEFINE G(s) == CHOOSE g : IsSum(f, s, g)
           Bad == {s \in SUBSET S : ~ \E g : IsSum(f, s, g)}
<1>1. SUFFICES ASSUME Bad # {} PROVE FALSE
  OBVIOUS
<1>2. PICK T \in Bad : \A c \in SUBSET T : c # T => c \notin Bad
  <2>1. Bad \subseteq SUBSET S
    OBVIOUS
  <2> HIDE DEF Bad
  <2> QED
    BY <1>1, <2>1, SmallestSubset
<1>3. \A s \in SUBSET T : s # T => IsSum(f, s, G(s))
  BY <1>2
<1> DEFINE h == [s \in SUBSET T |-> IF s = {} THEN 0
                                    ELSE LET x == CHOOSE y \in s : TRUE IN f[x] + G(s \ {x})[s \ {x}]]
<1>4. ASSUME NEW s \in SUBSET T, s # T PROVE h[s] = G(s)[s]
  <2>1. G(s)[s] = SumStep(f, G(s), s)
    <3>1. IsSum(f, s, G(s))
      BY <1>3, <1>4
    <3> HIDE DEF G
    <3> QED
      BY <3>1 DEF IsSum
  <2>2. CASE s = {}
    BY <2>1, <2>2 DEF SumStep
  <2>3. CASE s # {}
    <3> DEFINE x == CHOOSE y \in s : TRUE
    <3>1. x \in s
      BY <2>3
    <3>2. IsFiniteSet(s)
      BY FS_Subset
    <3>3. IsSum(f, s, G(s)) /\ IsSum(f, s \ {x}, G(s \ {x}))
      BY <1>3, <1>4, <3>1
    <3>4. G(s)[s \ {x}] = G(s \ {x})[s \ {x}]
      <4> HIDE DEF G
      <4> QED
        BY <3>2, <3>3, SumUnique
    <3> QED
      BY <2>1, <2>3, <3>4 DEF SumStep
  <2> QED
    BY <2>2, <2>3
<1>5. IsSum(f, T, h)
  <2>1. ASSUME NEW s \in SUBSET T PROVE h[s] = SumStep(f, h, s)
    <3>1. CASE s = {}
      BY <3>1 DEF SumStep
    <3>2. CASE s # {}
      <4> DEFINE x == CHOOSE y \in s : TRUE
      <4>1. x \in s
        BY <3>2
      <4>2. h[s \ {x}] = G(s \ {x})[s \ {x}]
        <5> HIDE DEF h, G
        <5> QED
          BY <1>4, <4>1
      <4> QED
        BY <3>2, <4>2 DEF SumStep
    <3> QED
      BY <3>1, <3>2
  <2> QED
    BY <2>1 DEF IsSum
<1> QED
  BY <1>2, <1>5

(* A sum does not depend on which member is taken first.                   *)
LEMMA TotalAdd ==
  ASSUME NEW f, NEW S, IsFiniteSet(S), \A x \in S : f[x] \in Int
  PROVE  /\ Total(f, {}) = 0
         /\ \A T \in SUBSET S : Total(f, T) \in Int
         /\ \A T \in SUBSET S : \A x \in T : Total(f, T) = f[x] + Total(f, T \ {x})
<1> DEFINE Chosen(T) == CHOOSE x \in T : TRUE
<1>1. Total(f, {}) = 0
  <2>1. IsSum(f, {}, CHOOSE g : IsSum(f, {}, g))
    BY FS_EmptySet, SumExists
  <2> QED
    BY <2>1 DEF IsSum, SumStep, Total
<1>2. ASSUME NEW T \in SUBSET S, T # {}
      PROVE  Total(f, T) = f[Chosen(T)] + Total(f, T \ {Chosen(T)})
  <2> DEFINE g == CHOOSE h : IsSum(f, T, h)
             U == T \ {Chosen(T)}
             k == CHOOSE h : IsSum(f, U, h)
  <2>1. IsFiniteSet(T) /\ IsFiniteSet(U) /\ U \in SUBSET T
    BY FS_Subset
  <2>2. IsSum(f, T, g) /\ IsSum(f, U, k)
    BY <2>1, SumExists
  <2>3. g[U] = k[U]
    <3> HIDE DEF g, k, U
    <3> QED
      BY <2>1, <2>2, SumUnique
  <2>4. g[T] = f[Chosen(T)] + g[U]
    <3> HIDE DEF g
    <3> QED
      BY <1>2, <2>2 DEF IsSum, SumStep
  <2> QED
    BY <2>3, <2>4 DEF Total
<1>3. \A T \in SUBSET S : Total(f, T) \in Int
  <2> DEFINE Bad == {T \in SUBSET S : Total(f, T) \notin Int}
  <2>1. SUFFICES ASSUME Bad # {} PROVE FALSE
    OBVIOUS
  <2>2. PICK b \in Bad : \A c \in SUBSET b : c # b => c \notin Bad
    <3>1. Bad \subseteq SUBSET S
      OBVIOUS
    <3> HIDE DEF Bad
    <3> QED
      BY <2>1, <3>1, SmallestSubset
  <2>3. b # {}
    BY <1>1
  <2>4. Chosen(b) \in b
    BY <2>3
  <2>5. Total(f, b \ {Chosen(b)}) \in Int
    BY <2>2, <2>4
  <2> HIDE DEF Chosen
  <2> QED
    BY <1>2, <2>3, <2>4, <2>5
<1>4. \A T \in SUBSET S : \A x \in T : Total(f, T) = f[x] + Total(f, T \ {x})
  <2> DEFINE Bad == {T \in SUBSET S : \E x \in T : Total(f, T) # f[x] + Total(f, T \ {x})}
  <2>1. SUFFICES ASSUME Bad # {} PROVE FALSE
    OBVIOUS
  <2>2. PICK b \in Bad : \A c \in SUBSET b : c # b => c \notin Bad
    <3>1. Bad \subseteq SUBSET S
      OBVIOUS
    <3> HIDE DEF Bad
    <3> QED
      BY <2>1, <3>1, SmallestSubset
  <2>3. PICK x \in b : Total(f, b) # f[x] + Total(f, b \ {x})
    OBVIOUS
  <2> DEFINE y == Chosen(b)
  <2>4. y \in b
    OBVIOUS
  <2>5. Total(f, b) = f[y] + Total(f, b \ {y})
    BY <1>2, <2>4
  <2>6. x # y
    BY <2>3, <2>5
  <2> HIDE DEF y, Chosen
  <2> DEFINE r == b \ {x, y}
  <2>7. (b \ {y}) \ {x} = r /\ (b \ {x}) \ {y} = r
    OBVIOUS
  <2>11. \A c \in SUBSET b : c # b => \A z \in c : Total(f, c) = f[z] + Total(f, c \ {z})
    BY <2>2
  <2>8. Total(f, b \ {y}) = f[x] + Total(f, r)
    <3>1. b \ {y} \in SUBSET b /\ b \ {y} # b /\ x \in b \ {y}
      BY <2>4, <2>6
    <3> QED
      BY <2>7, <2>11, <3>1
  <2>9. Total(f, b \ {x}) = f[y] + Total(f, r)
    <3>1. b \ {x} \in SUBSET b /\ b \ {x} # b /\ y \in b \ {x}
      BY <2>4, <2>6
    <3> QED
      BY <2>7, <2>11, <3>1
  <2>10. Total(f, r) \in Int /\ f[x] \in Int /\ f[y] \in Int
    BY <1>3, <2>4
  <2> HIDE DEF r
  <2> QED
    BY <2>3, <2>5, <2>8, <2>9, <2>10
<1> QED
  BY <1>1, <1>3, <1>4

(* What goes adds to what stays.                                           *)
LEMMA TotalSplit ==
  ASSUME NEW f, NEW S, IsFiniteSet(S), \A x \in S : f[x] \in Int,
         NEW T \in SUBSET S
  PROVE  Total(f, S) = Total(f, T) + Total(f, S \ T)
<1> DEFINE Bad == {U \in SUBSET T : Total(f, S) # Total(f, U) + Total(f, S \ U)}
<1>1. \A U \in SUBSET S : Total(f, U) \in Int
  BY TotalAdd
<1>2. SUFFICES ASSUME Bad # {} PROVE FALSE
  BY DEF Bad
<1>3. PICK b \in Bad : \A c \in SUBSET b : c # b => c \notin Bad
  <2>1. Bad \subseteq SUBSET S
    OBVIOUS
  <2> HIDE DEF Bad
  <2> QED
    BY <1>2, <2>1, SmallestSubset
<1>4. b # {}
  <2>1. SUFFICES ASSUME b = {} PROVE FALSE
    OBVIOUS
  <2>2. Total(f, {}) = 0 /\ S \ b = S
    BY <2>1, TotalAdd
  <2>3. Total(f, S) \in Int /\ Total(f, S) # Total(f, b) + Total(f, S \ b)
    BY <1>1
  <2> HIDE DEF Bad
  <2> QED
    BY <2>1, <2>2, <2>3
<1>5. PICK x \in b : TRUE
  BY <1>4
<1> DEFINE c == b \ {x}
           d == S \ c
<1>6. c \in SUBSET S /\ d \in SUBSET S /\ x \in d /\ d \ {x} = S \ b
  BY <1>5
<1>7. Total(f, S) = Total(f, c) + Total(f, d)
  BY <1>3, <1>5
<1>8. Total(f, d) = f[x] + Total(f, S \ b) /\ Total(f, b) = f[x] + Total(f, c)
  BY <1>5, <1>6, TotalAdd
<1>9. Total(f, S) # Total(f, b) + Total(f, S \ b)
  OBVIOUS
<1>10. /\ Total(f, c) \in Int /\ Total(f, S \ b) \in Int /\ f[x] \in Int
  BY <1>1, <1>5, <1>6
<1> HIDE DEF c, d, Bad
<1> QED
  BY <1>7, <1>8, <1>9, <1>10

(* The total of natural numbers is one, and no smaller than any part of it. *)
LEMMA TotalNat ==
  ASSUME NEW f, NEW S, IsFiniteSet(S), \A x \in S : f[x] \in Nat
  PROVE  \A T \in SUBSET S : Total(f, T) \in Nat
<1> DEFINE Bad == {T \in SUBSET S : Total(f, T) \notin Nat}
<1>1. SUFFICES ASSUME Bad # {} PROVE FALSE
  OBVIOUS
<1>2. PICK b \in Bad : \A c \in SUBSET b : c # b => c \notin Bad
  <2>1. Bad \subseteq SUBSET S
    OBVIOUS
  <2> HIDE DEF Bad
  <2> QED
    BY <1>1, <2>1, SmallestSubset
<1>3. b # {}
  <2>1. Total(f, {}) = 0
    BY TotalAdd
  <2> QED
    BY <2>1
<1>4. PICK x \in b : TRUE
  BY <1>3
<1>5. Total(f, b \ {x}) \in Nat /\ f[x] \in Nat
  BY <1>2, <1>4
<1>6. Total(f, b) = f[x] + Total(f, b \ {x})
  BY <1>4, TotalAdd
<1> QED
  BY <1>5, <1>6

(* Terms that are the same have the same total.                            *)
LEMMA TotalSame ==
  ASSUME NEW f, NEW g, NEW S, IsFiniteSet(S),
         \A x \in S : f[x] \in Int /\ f[x] = g[x]
  PROVE  \A T \in SUBSET S : Total(f, T) = Total(g, T)
<1> DEFINE Bad == {T \in SUBSET S : Total(f, T) # Total(g, T)}
<1>1. SUFFICES ASSUME Bad # {} PROVE FALSE
  OBVIOUS
<1>2. PICK b \in Bad : \A c \in SUBSET b : c # b => c \notin Bad
  <2>1. Bad \subseteq SUBSET S
    OBVIOUS
  <2> HIDE DEF Bad
  <2> QED
    BY <1>1, <2>1, SmallestSubset
<1>3. /\ Total(f, {}) = 0 /\ Total(g, {}) = 0
      /\ \A T \in SUBSET S : \A x \in T : /\ Total(f, T) = f[x] + Total(f, T \ {x})
                                          /\ Total(g, T) = g[x] + Total(g, T \ {x})
  <2>1. \A x \in S : g[x] \in Int
    OBVIOUS
  <2> QED
    BY <2>1, TotalAdd
<1>4. PICK x \in b : TRUE
  BY <1>3
<1>5. Total(f, b \ {x}) = Total(g, b \ {x})
  BY <1>2, <1>4
<1> QED
  BY <1>3, <1>4, <1>5

-----------------------------------------------------------------------------
(* Bytes.                                                                  *)

SizeOf(c) == [o \in DOMAIN c.pool |-> c.pool[o].size]

LEMMA BytesTotal ==
  ASSUME NEW c, NEW S, IsFiniteSet(S), S \subseteq DOMAIN c.pool
  PROVE  Bytes(c, S) = Total(SizeOf(c), S)
<1> DEFINE f == SizeOf(c)
           IsBytes(g) == g = [s \in SUBSET S |->
                                IF s = {} THEN 0
                                ELSE LET x == CHOOSE x \in s : TRUE IN c.pool[x].size + g[s \ {x}]]
           b == CHOOSE g : IsBytes(g)
           k == CHOOSE g : IsSum(f, S, g)
<1>1. Bytes(c, S) = b[S]
  BY DEF Bytes, MapThenSumSet, MapThenFoldSet
<1>2. \A g : IsSum(f, S, g) <=> IsBytes(g)
  <2>1. ASSUME NEW g, NEW s \in SUBSET S
        PROVE  SumStep(f, g, s) = IF s = {} THEN 0
                                  ELSE LET x == CHOOSE x \in s : TRUE IN c.pool[x].size + g[s \ {x}]
    <3>1. s # {} => (CHOOSE x \in s : TRUE) \in DOMAIN c.pool
      OBVIOUS
    <3> QED
      BY <3>1 DEF SumStep, SizeOf
  <2> HIDE DEF f
  <2> QED
    BY <2>1, ZenonT(30) DEF IsSum
<1>3. IsSum(f, S, k)
  BY SumExists
<1>4. IsSum(f, S, b)
  <2> HIDE DEF IsBytes, k, f
  <2> QED
    BY <1>2, <1>3
<1> HIDE DEF f, k, b
<1> QED
  BY <1>1, <1>3, <1>4, SumUnique DEF Total, f, k

LEMMA BytesFacts ==
  ASSUME NEW c, IsFiniteSet(DOMAIN c.pool), \A o \in DOMAIN c.pool : c.pool[o].size \in Nat
  PROVE  /\ Bytes(c, {}) = 0
         /\ \A o \in DOMAIN c.pool : Bytes(c, {o}) = c.pool[o].size
         /\ \A S \in SUBSET DOMAIN c.pool : Bytes(c, S) \in Nat
         /\ \A S \in SUBSET DOMAIN c.pool : \A T \in SUBSET S : Bytes(c, S) = Bytes(c, T) + Bytes(c, S \ T)
<1> DEFINE f == SizeOf(c)
           D == DOMAIN c.pool
<1>1. \A x \in D : f[x] = c.pool[x].size /\ f[x] \in Nat /\ f[x] \in Int
  BY DEF SizeOf
<1>2. \A S \in SUBSET D : IsFiniteSet(S) /\ Bytes(c, S) = Total(f, S)
  BY FS_Subset, BytesTotal
<1> HIDE DEF f
<1>3. Bytes(c, {}) = 0
  BY <1>1, <1>2, TotalAdd
<1>4. ASSUME NEW S \in SUBSET D PROVE Bytes(c, S) \in Nat
  BY <1>1, <1>2, TotalNat
<1>5. ASSUME NEW o \in D PROVE Bytes(c, {o}) = c.pool[o].size
  <2>1. Total(f, {o}) = f[o] + Total(f, {o} \ {o}) /\ Total(f, {}) = 0
    BY <1>1, TotalAdd
  <2>2. {o} \ {o} = {}
    OBVIOUS
  <2>3. Bytes(c, {o}) = Total(f, {o}) /\ f[o] \in Nat /\ f[o] = c.pool[o].size
    BY <1>1, <1>2
  <2> QED
    BY <2>1, <2>2, <2>3
<1>6. ASSUME NEW S \in SUBSET D, NEW T \in SUBSET S
      PROVE  Bytes(c, S) = Bytes(c, T) + Bytes(c, S \ T)
  <2>1. Total(f, S) = Total(f, T) + Total(f, S \ T)
    BY <1>1, <1>2, TotalSplit
  <2> QED
    BY <1>2, <2>1
<1> QED
  BY <1>3, <1>4, <1>5, <1>6

LEMMA BytesSplit ==
  ASSUME NEW c, IsFiniteSet(DOMAIN c.pool), \A o \in DOMAIN c.pool : c.pool[o].size \in Nat,
         NEW S \in SUBSET DOMAIN c.pool, NEW T \in SUBSET S
  PROVE  Bytes(c, S) = Bytes(c, T) + Bytes(c, S \ T)
BY BytesFacts

LEMMA BytesSame ==
  ASSUME NEW c, NEW d, NEW S, IsFiniteSet(S), S \subseteq DOMAIN c.pool, S \subseteq DOMAIN d.pool,
         \A o \in S : c.pool[o].size \in Nat /\ d.pool[o].size = c.pool[o].size
  PROVE  Bytes(d, S) = Bytes(c, S)
<1>1. Bytes(c, S) = Total(SizeOf(c), S) /\ Bytes(d, S) = Total(SizeOf(d), S)
  BY BytesTotal
<1>2. \A x \in S : SizeOf(c)[x] \in Int /\ SizeOf(c)[x] = SizeOf(d)[x]
  BY DEF SizeOf
<1> QED
  BY <1>1, <1>2, TotalSame

OneMoreEntry(c, d, U, V, o) ==
  /\ IsFiniteSet(DOMAIN d.pool) /\ \A p \in DOMAIN d.pool : d.pool[p].size \in Nat
  /\ IsFiniteSet(U) /\ U \subseteq DOMAIN c.pool /\ U \subseteq DOMAIN d.pool
  /\ \A p \in U : c.pool[p].size \in Nat /\ d.pool[p].size = c.pool[p].size
  /\ V \in SUBSET DOMAIN d.pool /\ {o} \in SUBSET V /\ o \in DOMAIN d.pool /\ V \ {o} = U

LEMMA BytesOneMore ==
  ASSUME NEW c, NEW d, NEW U, NEW V, NEW o, OneMoreEntry(c, d, U, V, o)
  PROVE  Bytes(d, V) = Bytes(c, U) + d.pool[o].size
<1> USE DEF OneMoreEntry
<1>1. Bytes(d, V) = Bytes(d, {o}) + Bytes(d, V \ {o})
  BY BytesSplit
<1>2. Bytes(d, {o}) = d.pool[o].size /\ Bytes(d, U) \in Nat
  BY BytesFacts
<1>3. Bytes(d, U) = Bytes(c, U)
  BY BytesSame
<1>4. Bytes(d, V) = Bytes(d, {o}) + Bytes(d, U)
  BY <1>1, Zenon
<1>5. d.pool[o].size \in Nat
  OBVIOUS
<1> QED
  BY <1>2, <1>3, <1>4, <1>5

-----------------------------------------------------------------------------
(* The invariant.                                                          *)

LEMMA LimitsAre ==
  /\ MaxMemory \in Nat /\ HotSize \in Nat /\ PoolMax \in Nat /\ MaxNow \in Nat /\ CallsPerMs \in Nat
  /\ HotSize > 0 /\ MaxNow > 0 /\ Sizes \subseteq Nat \ {0} /\ TTLs \subseteq Nat
BY CacheAssumption

Slots == [key : Keys, at : Nat, used : 0..MaxNow]

Structs ==
  [pool : Seq(Entry), hash : [Keys -> Nat], sorted : SUBSET Nat, names : SUBSET Nat, tags : SUBSET Nat,
   hot : SUBSET Slots, hotCount : Nat, count : Nat, mem : Nat]

(* A struct that is sound: every offset in an index is one of an entry,    *)
(* the one in the hash index under a key has that key, a hot slot has the  *)
(* key of the entry it points to and no other slot has it, and the bytes   *)
(* are accounted for.                                                      *)
Sound(c) ==
  /\ c \in Structs /\ Len(c.pool) <= PoolMax
  /\ \A k \in Keys : /\ c.hash[k] \in {0} \union DOMAIN c.pool
                     /\ c.hash[k] # 0 => c.pool[c.hash[k]].key = k
  /\ {c.sorted, c.names, c.tags} \subseteq SUBSET DOMAIN c.pool
  /\ IsFiniteSet(c.hot)
  /\ \A h \in c.hot : h.at \in DOMAIN c.pool /\ c.pool[h.at].key = h.key
  /\ \A g, h \in c.hot : g.key = h.key => g = h
  /\ Bytes(c, Undeleted(c)) <= c.mem /\ c.mem <= MaxMemory

(* Its counters are right, as long as nothing was written past the table.  *)
Exact(c) ==
  /\ c.hotCount <= HotSize /\ c.hotCount = Cardinality(c.hot)
  /\ c.count = Cardinality(Undeleted(c))

(* What callers who batch only new keys can count on, l being the entries  *)
(* of the last stores and t the time: the hash index holds the one         *)
(* undeleted entry of each key, l has it too unless it has expired, and    *)
(* only compaction has taken an entry out of a list, an expired one and    *)
(* then all others with its key as well.                                   *)
Current(c, l, t) ==
  /\ \A k \in Keys : /\ l[k] \in {0} \union DOMAIN c.pool
                     /\ l[k] # 0 => c.pool[l[k]].key = k
  /\ \A o \in Undeleted(c) :
       /\ c.hash[c.pool[o].key] = o
       /\ Expired(c.pool[o], t) \/ l[c.pool[o].key] = o
       /\ o \in c.names \intersect c.tags
       /\ \/ o \in c.sorted
          \/ Expired(c.pool[o], t) /\ \A p \in c.sorted : c.pool[p].key # c.pool[o].key

(* Slots used in this millisecond were used by the look-ups in it.         *)
Fresh(c, t) == {h \in c.hot : h.used = t}

Heat(c, t, n) ==
  /\ \A h \in c.hot : h.used <= t
  /\ Cardinality(Fresh(c, t)) <= n

Invariant ==
  /\ Sound(cache)
  /\ cache.hotCount <= HotSize => Exact(cache)
  /\ now \in 1..MaxNow /\ calls \in 0..CallsPerMs /\ hung \in BOOLEAN
  /\ latest \in [Keys -> {0} \union DOMAIN cache.pool]

(* A pool is a function on an interval; what has its length and the right  *)
(* entries is a pool.                                                      *)
LEMMA PoolIs ==
  ASSUME NEW p \in Seq(Entry)
  PROVE  /\ Len(p) \in Nat /\ DOMAIN p = 1..Len(p) /\ IsFiniteSet(DOMAIN p)
         /\ \A o \in DOMAIN p : /\ o \in Nat /\ o # 0
                                /\ p[o] \in Entry
         /\ \A f : (DOMAIN f = DOMAIN p /\ f = [o \in DOMAIN p |-> f[o]] /\ \A o \in DOMAIN p : f[o] \in Entry)
                     => f \in Seq(Entry) /\ Len(f) = Len(p)
<1>1. /\ Len(p) \in Nat /\ DOMAIN p = 1..Len(p)
      /\ \A o \in DOMAIN p : p[o] \in Entry
  OBVIOUS
<1>2. IsFiniteSet(1..Len(p))
  BY <1>1, FS_Interval
<1>3. ASSUME NEW f, DOMAIN f = DOMAIN p, f = [o \in DOMAIN p |-> f[o]], \A o \in DOMAIN p : f[o] \in Entry
      PROVE  f \in Seq(Entry) /\ Len(f) = Len(p)
  <2>1. f \in [1..Len(p) -> Entry]
    BY <1>1, <1>3
  <2> QED
    BY <1>1, <2>1
<1> QED
  BY <1>1, <1>2, <1>3

(* What flagging does to an entry.                                         *)
Flagged(e) == [e EXCEPT !.deleted = TRUE]

LEMMA FlaggedIs ==
  ASSUME NEW e \in Entry
  PROVE  /\ Flagged(e) \in Entry /\ Flagged(e).deleted
         /\ Flagged(e).key = e.key /\ Flagged(e).size = e.size
         /\ Flagged(e).expire = e.expire /\ Flagged(e).access = e.access
  BY DEF Entry, Flagged

LEMMA EntryIs ==
  ASSUME NEW e \in Entry
  PROVE  e.key \in Keys /\ e.size \in Sizes /\ e.size \in Nat /\ e.access \in 0..MaxNow /\ e.deleted \in BOOLEAN /\ e.expire \in Nat
  BY CacheAssumption DEF Entry

LEMMA MarkedIs ==
  ASSUME NEW c \in Structs, NEW D, NEW d, d = Marked(c, D)
  PROVE  /\ d.pool = [o \in DOMAIN c.pool |-> IF o \in D THEN Flagged(c.pool[o]) ELSE c.pool[o]]
         /\ d.count = c.count - Cardinality(D)
         /\ d.hash = c.hash /\ d.sorted = c.sorted /\ d.names = c.names /\ d.tags = c.tags
         /\ d.hot = c.hot /\ d.hotCount = c.hotCount /\ d.mem = c.mem
         /\ d.pool \in Seq(Entry)
         /\ d.count \in Nat => d \in Structs
<1> DEFINE P == [o \in DOMAIN c.pool |-> IF o \in D THEN Flagged(c.pool[o]) ELSE c.pool[o]]
           n == c.count - Cardinality(D)
<1>1. d = [c EXCEPT !.pool = P, !.count = n]
  BY Zenon DEF Marked, Flagged
<1>2. c.pool \in Seq(Entry)
  BY DEF Structs
<1>3. P \in Seq(Entry)
  <2>1. \A o \in DOMAIN c.pool : P[o] \in Entry
    BY <1>2, PoolIs, FlaggedIs
  <2> QED
    BY <1>2, <2>1, PoolIs, ZenonT(30)
<1> HIDE DEF P, n
<1>4. /\ d.pool = P /\ d.count = n
      /\ d.hash = c.hash /\ d.sorted = c.sorted /\ d.names = c.names /\ d.tags = c.tags
      /\ d.hot = c.hot /\ d.hotCount = c.hotCount /\ d.mem = c.mem
      /\ n \in Nat => d \in Structs
  BY <1>1, <1>3 DEF Structs
<1> QED
  BY <1>3, <1>4 DEF P, n

LEMMA UnindexedIs ==
  ASSUME NEW c \in Structs, NEW D, NEW d \in Unindexed(c, D)
  PROVE  /\ d.pool = [o \in DOMAIN c.pool |-> IF o \in D THEN Flagged(c.pool[o]) ELSE c.pool[o]]
         /\ d.hash = [k \in Keys |-> IF k \in KeysOf(c, D) THEN 0 ELSE c.hash[k]]
         /\ d.sorted = c.sorted /\ d.names \in ByKeyWithout(c, c.names, D) /\ d.tags = c.tags \ D
         /\ d.hot = {h \in c.hot : h.key \notin KeysOf(c, D)} /\ d.hotCount = Cardinality(d.hot)
         /\ d.count = c.count - Cardinality(D) /\ d.mem = c.mem - Bytes(c, D)
         /\ d.pool \in Seq(Entry)
         /\ (d.count \in Nat /\ d.mem \in Nat /\ d.hotCount \in Nat) => d \in Structs
<1> DEFINE m == Marked(c, D)
           K == KeysOf(c, D)
           x == c.mem - Bytes(c, D)
           H == [k \in Keys |-> IF k \in K THEN 0 ELSE c.hash[k]]
           hot == {h \in c.hot : h.key \notin K}
           u == [m EXCEPT !.mem = x, !.hash = H, !.tags = c.tags \ D]
           v == [u EXCEPT !.hot = hot, !.hotCount = Cardinality(hot)]
<1>1. /\ m.pool = [o \in DOMAIN c.pool |-> IF o \in D THEN Flagged(c.pool[o]) ELSE c.pool[o]]
      /\ m.count = c.count - Cardinality(D)
      /\ m.hash = c.hash /\ m.sorted = c.sorted /\ m.names = c.names /\ m.tags = c.tags
      /\ m.hot = c.hot /\ m.hotCount = c.hotCount /\ m.mem = c.mem
      /\ m.pool \in Seq(Entry)
  BY MarkedIs
<1>a. m = [c EXCEPT !.pool = m.pool, !.count = m.count]
  <2>1. \E p, n : m = [c EXCEPT !.pool = p, !.count = n]
    BY Zenon DEF Marked
  <2> HIDE DEF m
  <2> QED
    BY <2>1 DEF Structs
<1> HIDE DEF m
<1>2. [m EXCEPT !.mem = @ - Bytes(c, D), !.hash = [k \in Keys |-> IF k \in K THEN 0 ELSE @[k]], !.tags = @ \ D] = u
  BY <1>1, Zenon
<1>3. /\ u.pool = m.pool /\ u.count = m.count /\ u.hash = H /\ u.sorted = c.sorted /\ u.names = c.names
      /\ u.tags = c.tags \ D /\ u.hot = c.hot /\ u.mem = x
  <2> HIDE DEF H, x
  <2> QED
    BY <1>1, <1>a DEF Structs
<1>4. Cooled(u, K) = v
  <2> HIDE DEF u
  <2> QED
    BY <1>3, Zenon DEF Cooled
<1>5. Unindexed(c, D) = {[v EXCEPT !.names = N] : N \in ByKeyWithout(c, c.names, D)}
  BY <1>2, <1>4, Zenon DEF Unindexed, m
<1>6. PICK N \in ByKeyWithout(c, c.names, D) : d = [v EXCEPT !.names = N]
  BY <1>5
<1>7. N \in SUBSET Nat /\ hot \in SUBSET Slots /\ H \in [Keys -> Nat] /\ c.tags \ D \in SUBSET Nat
  BY DEF ByKeyWithout, Structs
<1> HIDE DEF H, x, hot, K
<1>8. d = [m EXCEPT !.mem = x, !.hash = H, !.tags = c.tags \ D, !.hot = hot, !.hotCount = Cardinality(hot), !.names = N]
  BY <1>6
<1>9. /\ d.pool = m.pool /\ d.count = m.count /\ d.hash = H /\ d.sorted = c.sorted /\ d.names = N
      /\ d.tags = c.tags \ D /\ d.hot = hot /\ d.hotCount = Cardinality(hot) /\ d.mem = x
      /\ (m.count \in Nat /\ x \in Nat /\ Cardinality(hot) \in Nat) => d \in Structs
  BY <1>1, <1>a, <1>7, <1>8 DEF Structs
<1> QED
  BY <1>1, <1>9 DEF H, x, hot, K

-----------------------------------------------------------------------------
(* What a sound struct is used for.                                        *)

LEMMA SoundIs ==
  ASSUME NEW c, Sound(c)
  PROVE  /\ c \in Structs /\ c.pool \in Seq(Entry) /\ Len(c.pool) \in Nat /\ DOMAIN c.pool = 1..Len(c.pool)
         /\ IsFiniteSet(DOMAIN c.pool)
         /\ \A o \in DOMAIN c.pool : /\ o \in Nat /\ o # 0 /\ c.pool[o] \in Entry
                                     /\ c.pool[o].key \in Keys /\ c.pool[o].size \in Nat
                                     /\ c.pool[o].expire \in Nat /\ c.pool[o].deleted \in BOOLEAN
         /\ c.mem \in Nat /\ c.count \in Nat /\ c.hotCount \in Nat
         /\ Undeleted(c) \subseteq DOMAIN c.pool /\ IsFiniteSet(Undeleted(c))
         /\ Cardinality(Undeleted(c)) \in Nat /\ Bytes(c, Undeleted(c)) \in Nat
<1>1. c \in Structs /\ c.pool \in Seq(Entry) /\ c.mem \in Nat /\ c.count \in Nat /\ c.hotCount \in Nat
  BY DEF Sound, Structs
<1>2. /\ Len(c.pool) \in Nat /\ DOMAIN c.pool = 1..Len(c.pool) /\ IsFiniteSet(DOMAIN c.pool)
      /\ \A o \in DOMAIN c.pool : o \in Nat /\ o # 0 /\ c.pool[o] \in Entry
  BY <1>1, PoolIs
<1>3. \A o \in DOMAIN c.pool : /\ c.pool[o].key \in Keys /\ c.pool[o].size \in Nat
                               /\ c.pool[o].expire \in Nat /\ c.pool[o].deleted \in BOOLEAN
  BY <1>2, EntryIs
<1>4. Undeleted(c) \subseteq DOMAIN c.pool
  BY DEF Undeleted
<1>5. IsFiniteSet(Undeleted(c)) /\ Cardinality(Undeleted(c)) \in Nat
  BY <1>2, <1>4, FS_Subset, FS_CardinalityType
<1>6. Bytes(c, Undeleted(c)) \in Nat
  BY <1>2, <1>3, <1>4, BytesFacts
<1> QED
  BY <1>1, <1>2, <1>3, <1>4, <1>5, <1>6

(* What is left when entries are only ever deleted and lists only shrink.  *)
Shrinks(c, d) ==
  /\ DOMAIN d.pool = DOMAIN c.pool
  /\ \A o \in DOMAIN c.pool : d.pool[o].key = c.pool[o].key /\ d.pool[o].size = c.pool[o].size
  /\ \A k \in Keys : d.hash[k] \in {0, c.hash[k]}
  /\ \A o \in Undeleted(d) :
       /\ o \in Undeleted(c) /\ d.pool[o].expire = c.pool[o].expire
       /\ d.hash[c.pool[o].key] = c.hash[c.pool[o].key]
       /\ o \in c.names \intersect c.tags => o \in d.names \intersect d.tags
       /\ o \in c.sorted => o \in d.sorted
  /\ d.sorted \subseteq c.sorted

LEMMA ShrinksCurrent ==
  ASSUME NEW c, NEW d, NEW l, NEW t, Sound(c), Current(c, l, t), Shrinks(c, d)
  PROVE  Current(d, l, t)
<1>1. \A o \in DOMAIN c.pool : c.pool[o].key \in Keys /\ o # 0
  BY SoundIs
<1>2. \A o \in Undeleted(d) : o \in DOMAIN c.pool
  BY DEF Undeleted, Shrinks
<1>3. ASSUME NEW k \in Keys
      PROVE  /\ l[k] \in {0} \union DOMAIN d.pool
             /\ l[k] # 0 => d.pool[l[k]].key = k
  BY DEF Current, Shrinks, Sound
<1>4. ASSUME NEW o \in Undeleted(d)
      PROVE  /\ d.hash[d.pool[o].key] = o
             /\ Expired(d.pool[o], t) \/ l[d.pool[o].key] = o
             /\ o \in d.names \intersect d.tags
  BY <1>1, <1>2 DEF Current, Shrinks, Expired
<1>5. ASSUME NEW o \in Undeleted(d), o \notin d.sorted
      PROVE  Expired(d.pool[o], t) /\ \A p \in d.sorted : d.pool[p].key # d.pool[o].key
  <2>1. o \in Undeleted(c) /\ o \notin c.sorted
    BY <1>5 DEF Shrinks
  <2>2. Expired(c.pool[o], t) /\ \A p \in c.sorted : c.pool[p].key # c.pool[o].key
    BY <2>1 DEF Current
  <2>3. \A p \in d.sorted : p \in DOMAIN c.pool /\ p \in c.sorted
    BY DEF Shrinks, Sound
  <2> QED
    BY <1>2, <2>2, <2>3 DEF Shrinks, Expired
<1> QED
  BY <1>3, <1>4, <1>5 DEF Current

(* A list that is searched by key keeps what has none of the keys.         *)
LEMMA ByKeyKeeps ==
  ASSUME NEW c, NEW list, IsFiniteSet(list), NEW D, NEW L \in ByKeyWithout(c, list, D),
         \A o \in list : c.pool[o].key \in Keys
  PROVE  /\ L \subseteq list
         /\ \A o \in list : c.pool[o].key \notin KeysOf(c, D) => o \in L
<1>1. L \subseteq list
  BY DEF ByKeyWithout
<1>2. ASSUME NEW o \in list, c.pool[o].key \notin KeysOf(c, D) PROVE o \in L
  <2> DEFINE k == c.pool[o].key
             A == OfKey(c, list, k)
             B == OfKey(c, L, k)
  <2>1. OfKey(c, D, k) = {} /\ Cardinality({}) = 0
    BY <1>2, FS_EmptySet DEF OfKey, KeysOf
  <2>2. B \in SUBSET A /\ A \in SUBSET list
    BY <1>1 DEF OfKey
  <2>3. IsFiniteSet(A) /\ Cardinality(A) \in Nat
    BY <2>2, FS_Subset, FS_CardinalityType
  <2>4. Cardinality(B) = IF 0 > Cardinality(A) THEN 0 ELSE Cardinality(A) - 0
    BY <2>1 DEF ByKeyWithout
  <2>5. Cardinality(B) = Cardinality(A)
    BY <2>3, <2>4
  <2>6. B = A
    BY <2>2, <2>3, <2>5, FS_Subset
  <2> QED
    BY <2>6 DEF OfKey
<1> QED
  BY <1>1, <1>2

(* The entries of D go, and of the others none that has no namesake in D.  *)
Takes(c, d, D) ==
  /\ DOMAIN d.pool = DOMAIN c.pool /\ Len(d.pool) = Len(c.pool)
  /\ Undeleted(d) = Undeleted(c) \ D
  /\ \A o \in DOMAIN c.pool : /\ d.pool[o].key = c.pool[o].key /\ d.pool[o].size = c.pool[o].size
                              /\ d.pool[o].expire = c.pool[o].expire
  /\ \A k \in Keys : d.hash[k] = IF k \in KeysOf(c, D) THEN 0 ELSE c.hash[k]
  /\ d.tags = c.tags \ D
  /\ \A o \in c.names : c.pool[o].key \notin KeysOf(c, D) => o \in d.names
  /\ \A o \in c.sorted : (c.pool[o].key \notin KeysOf(c, D) /\ o \in Undeleted(d)) => o \in d.sorted
  /\ d.sorted \subseteq c.sorted
  /\ d.mem = c.mem - Bytes(c, D)
  /\ d.hot \subseteq c.hot

(* Entries that go as eviction, an update or cache_del takes them.         *)
LEMMA UnindexedSound ==
  ASSUME NEW c, Sound(c), Exact(c), NEW D \in SUBSET Undeleted(c), NEW d \in Unindexed(c, D)
  PROVE  /\ Sound(d) /\ Exact(d) /\ Takes(c, d, D)
         /\ d.sorted = c.sorted /\ d.pool \in Seq(Entry)
<1> DEFINE K == KeysOf(c, D)
<1>1. /\ d.pool = [o \in DOMAIN c.pool |-> IF o \in D THEN Flagged(c.pool[o]) ELSE c.pool[o]]
      /\ d.hash = [k \in Keys |-> IF k \in KeysOf(c, D) THEN 0 ELSE c.hash[k]]
      /\ d.sorted = c.sorted /\ d.names \in ByKeyWithout(c, c.names, D) /\ d.tags = c.tags \ D
      /\ d.hot = {h \in c.hot : h.key \notin KeysOf(c, D)} /\ d.hotCount = Cardinality(d.hot)
      /\ d.count = c.count - Cardinality(D) /\ d.mem = c.mem - Bytes(c, D)
      /\ d.pool \in Seq(Entry)
      /\ (d.count \in Nat /\ d.mem \in Nat /\ d.hotCount \in Nat) => d \in Structs
  BY UnindexedIs DEF Sound
<1>2. /\ c.pool \in Seq(Entry) /\ Len(c.pool) \in Nat /\ DOMAIN c.pool = 1..Len(c.pool) /\ IsFiniteSet(DOMAIN c.pool)
      /\ \A o \in DOMAIN c.pool : c.pool[o] \in Entry /\ c.pool[o].key \in Keys /\ c.pool[o].size \in Nat
      /\ c.mem \in Nat /\ c.count \in Nat /\ Undeleted(c) \subseteq DOMAIN c.pool /\ IsFiniteSet(Undeleted(c))
      /\ Cardinality(Undeleted(c)) \in Nat
  BY SoundIs
<1>3. /\ DOMAIN d.pool = DOMAIN c.pool /\ Len(d.pool) = Len(c.pool)
      /\ \A o \in DOMAIN c.pool : /\ d.pool[o].key = c.pool[o].key /\ d.pool[o].size = c.pool[o].size
                                  /\ d.pool[o].expire = c.pool[o].expire
                                  /\ d.pool[o].deleted = (o \in D \/ c.pool[o].deleted)
  <2>1. DOMAIN d.pool = DOMAIN c.pool
    BY <1>1
  <2>2. Len(d.pool) = Len(c.pool)
    BY <1>1, <1>2, <2>1, PoolIs
  <2>3. ASSUME NEW o \in DOMAIN c.pool
        PROVE  /\ d.pool[o].key = c.pool[o].key /\ d.pool[o].size = c.pool[o].size
               /\ d.pool[o].expire = c.pool[o].expire /\ d.pool[o].deleted = (o \in D \/ c.pool[o].deleted)
    <3>1. d.pool[o] = IF o \in D THEN Flagged(c.pool[o]) ELSE c.pool[o]
      BY <1>1
    <3>2. c.pool[o].deleted \in BOOLEAN
      BY <1>2, EntryIs
    <3> QED
      BY <1>2, <3>1, <3>2, FlaggedIs
  <2> QED
    BY <2>1, <2>2, <2>3
<1>4. Undeleted(d) = Undeleted(c) \ D
  BY <1>3 DEF Undeleted
<1>5. /\ D \subseteq DOMAIN c.pool /\ IsFiniteSet(D)
      /\ Cardinality(D) \in Nat /\ Cardinality(D) <= Cardinality(Undeleted(c))
      /\ Cardinality(Undeleted(c) \ D) = Cardinality(Undeleted(c)) - Cardinality(D)
  <2>1. Undeleted(c) \intersect D = D
    OBVIOUS
  <2>2. IsFiniteSet(D) /\ Cardinality(D) <= Cardinality(Undeleted(c))
    BY <1>2, FS_Subset
  <2>3. Cardinality(D) \in Nat
    BY <2>2, FS_CardinalityType
  <2>4. Cardinality(Undeleted(c) \ D) = Cardinality(Undeleted(c)) - Cardinality(Undeleted(c) \intersect D)
    BY <1>2, FS_Difference
  <2> QED
    BY <1>2, <2>1, <2>2, <2>3, <2>4
<1>6. /\ Bytes(c, Undeleted(c)) = Bytes(c, D) + Bytes(c, Undeleted(c) \ D)
      /\ Bytes(c, D) \in Nat /\ Bytes(c, Undeleted(c) \ D) \in Nat
  <2>1. /\ Undeleted(c) \in SUBSET DOMAIN c.pool /\ D \in SUBSET DOMAIN c.pool
        /\ Undeleted(c) \ D \in SUBSET DOMAIN c.pool
    BY <1>2, <1>5
  <2>2. \A o \in DOMAIN c.pool : c.pool[o].size \in Nat
    BY <1>2
  <2>3. /\ \A S \in SUBSET DOMAIN c.pool : Bytes(c, S) \in Nat
        /\ \A S \in SUBSET DOMAIN c.pool : \A T \in SUBSET S : Bytes(c, S) = Bytes(c, T) + Bytes(c, S \ T)
    BY <1>2, <2>2, BytesFacts
  <2> QED
    BY <2>1, <2>3
<1>7. Bytes(d, Undeleted(d)) = Bytes(c, Undeleted(c) \ D)
  <2>1. IsFiniteSet(Undeleted(c) \ D)
    BY <1>2, FS_Subset
  <2> QED
    BY <1>2, <1>3, <1>4, <2>1, BytesSame
<1>8. d.mem \in Nat /\ Bytes(d, Undeleted(d)) <= d.mem /\ d.mem <= MaxMemory
  <2>1. Bytes(c, Undeleted(c)) <= c.mem /\ c.mem <= MaxMemory /\ MaxMemory \in Nat
    BY LimitsAre DEF Sound
  <2>2. d.mem = c.mem - Bytes(c, D) /\ c.mem \in Nat
    BY <1>1, <1>2
  <2> QED
    BY <1>6, <1>7, <2>1, <2>2
<1>9. /\ IsFiniteSet(d.hot) /\ Cardinality(d.hot) \in Nat /\ Cardinality(d.hot) <= Cardinality(c.hot)
      /\ Cardinality(c.hot) \in Nat
  BY <1>1, FS_Subset, FS_CardinalityType DEF Sound
<1>10. d.count \in Nat /\ d.count = Cardinality(Undeleted(d))
  <2>1. d.count = Cardinality(Undeleted(c)) - Cardinality(D)
    BY <1>1 DEF Exact
  <2> QED
    BY <1>2, <1>4, <1>5, <2>1
<1>11. d.hotCount \in Nat /\ d.hotCount <= HotSize
  BY <1>1, <1>9, CacheAssumption DEF Exact
<1>12. /\ \A o \in c.names : c.pool[o].key \notin K => o \in d.names
       /\ d.names \subseteq c.names
  <2>1. IsFiniteSet(c.names) /\ \A o \in c.names : c.pool[o].key \in Keys
    BY <1>2, FS_Subset DEF Sound
  <2>2. d.names \in ByKeyWithout(c, c.names, D)
    BY <1>1
  <2> HIDE DEF K
  <2>3. /\ d.names \subseteq c.names
        /\ \A o \in c.names : c.pool[o].key \notin KeysOf(c, D) => o \in d.names
    <3>1. \A L \in ByKeyWithout(c, c.names, D) :
             L \subseteq c.names /\ \A o \in c.names : c.pool[o].key \notin KeysOf(c, D) => o \in L
      BY <2>1, ByKeyKeeps, ZenonT(30)
    <3> QED
      BY <2>2, <3>1
  <2> QED
    BY <2>3 DEF K
<1>13. Sound(d)
  <2>1. d \in Structs /\ Len(d.pool) <= PoolMax
    BY <1>1, <1>3, <1>8, <1>10, <1>11 DEF Sound
  <2>2. \A k \in Keys : /\ d.hash[k] \in {0} \union DOMAIN d.pool
                        /\ d.hash[k] # 0 => d.pool[d.hash[k]].key = k
    <3>1. \A k \in Keys : d.hash[k] \in {0, c.hash[k]}
      BY <1>1
    <3>2. \A k \in Keys : /\ c.hash[k] \in {0} \union DOMAIN c.pool
                          /\ c.hash[k] # 0 => c.pool[c.hash[k]].key = k
      BY DEF Sound
    <3> QED
      BY <1>3, <3>1, <3>2
  <2>3. {d.sorted, d.names, d.tags} \subseteq SUBSET DOMAIN d.pool
    BY <1>1, <1>3, <1>12 DEF Sound
  <2>4. /\ \A h \in d.hot : h.at \in DOMAIN d.pool /\ d.pool[h.at].key = h.key
        /\ \A g, h \in d.hot : g.key = h.key => g = h
    BY <1>1, <1>3 DEF Sound
  <2> QED
    BY <1>8, <1>9, <2>1, <2>2, <2>3, <2>4 DEF Sound
<1>14. Takes(c, d, D)
  BY <1>1, <1>3, <1>4, <1>12 DEF Takes
<1> QED
  BY <1>1, <1>10, <1>11, <1>13, <1>14 DEF Exact

LEMMA SortedSound ==
  ASSUME NEW c, Sound(c), Exact(c), NEW L \in SUBSET c.sorted, NEW d, d = [c EXCEPT !.sorted = L]
  PROVE  /\ Sound(d) /\ Exact(d) /\ Undeleted(d) = Undeleted(c)
         /\ d.pool = c.pool /\ d.hash = c.hash /\ d.sorted = L /\ d.names = c.names /\ d.tags = c.tags
         /\ d.hot = c.hot /\ d.mem = c.mem
<1>1. /\ d.pool = c.pool /\ d.hash = c.hash /\ d.sorted = L /\ d.names = c.names /\ d.tags = c.tags
      /\ d.hot = c.hot /\ d.hotCount = c.hotCount /\ d.count = c.count /\ d.mem = c.mem
      /\ d \in Structs
  BY DEF Sound, Structs
<1>2. Undeleted(d) = Undeleted(c)
  BY <1>1 DEF Undeleted
<1>3. Bytes(d, Undeleted(d)) = Bytes(c, Undeleted(c))
  BY <1>1, <1>2 DEF Bytes
<1> QED
  BY <1>1, <1>2, <1>3 DEF Sound, Exact

LEMMA RemovedSound ==
  ASSUME NEW c, Sound(c), Exact(c), NEW D \in SUBSET Undeleted(c), NEW d \in Removed(c, D)
  PROVE  Sound(d) /\ Exact(d) /\ Takes(c, d, D)
<1>1. PICK u \in Unindexed(c, D), L \in ByKeyWithout(c, c.sorted, D) : d = [u EXCEPT !.sorted = L]
  BY DEF Removed
<1>2. Sound(u) /\ Exact(u) /\ Takes(c, u, D) /\ u.sorted = c.sorted
  BY UnindexedSound
<1>3. L \subseteq c.sorted /\ \A o \in c.sorted : c.pool[o].key \notin KeysOf(c, D) => o \in L
  <2>1. IsFiniteSet(c.sorted) /\ \A o \in c.sorted : c.pool[o].key \in Keys
    BY SoundIs, FS_Subset DEF Sound
  <2>2. \A M \in ByKeyWithout(c, c.sorted, D) :
          M \subseteq c.sorted /\ \A o \in c.sorted : c.pool[o].key \notin KeysOf(c, D) => o \in M
    BY <2>1, ByKeyKeeps
  <2> QED
    BY <2>2
<1>4. /\ Sound(d) /\ Exact(d) /\ Undeleted(d) = Undeleted(u)
      /\ d.pool = u.pool /\ d.hash = u.hash /\ d.sorted = L /\ d.names = u.names /\ d.tags = u.tags
      /\ d.hot = u.hot /\ d.mem = u.mem
  BY <1>1, <1>2, <1>3, SortedSound
<1> QED
  BY <1>2, <1>3, <1>4 DEF Takes

(* One undeleted entry per key: nothing else has the key of one that goes. *)
LEMMA TakesShrinks ==
  ASSUME NEW c, Sound(c), NEW l, NEW t, Current(c, l, t),
         NEW D \in SUBSET Undeleted(c), NEW d, Takes(c, d, D)
  PROVE  Shrinks(c, d)
<1>1. \A o \in DOMAIN c.pool : c.pool[o].key \in Keys
  BY SoundIs
<1>2. Undeleted(c) \subseteq DOMAIN c.pool
  BY DEF Undeleted
<1>3. ASSUME NEW o \in Undeleted(d)
      PROVE  o \in Undeleted(c) /\ o \notin D /\ c.pool[o].key \notin KeysOf(c, D)
  <2>1. o \in Undeleted(c) /\ o \notin D
    BY DEF Takes
  <2>2. ASSUME NEW e \in D, c.pool[e].key = c.pool[o].key PROVE FALSE
    BY <2>1, <2>2 DEF Current
  <2> QED
    BY <2>1, <2>2 DEF KeysOf
<1> QED
  BY <1>1, <1>2, <1>3 DEF Shrinks, Takes

(* The entries of N are new, each the only one with its key.               *)
Adds(c, d, N) ==
  /\ DOMAIN d.pool = DOMAIN c.pool \union N
  /\ \A p \in DOMAIN c.pool : d.pool[p] = c.pool[p]
  /\ Undeleted(d) = Undeleted(c) \union N
  /\ \A o \in N : d.pool[o].key \in Keys /\ d.hash[d.pool[o].key] = o
  /\ \A k \in Keys : (\A o \in N : d.pool[o].key # k) => d.hash[k] = c.hash[k]
  /\ d.names = c.names \union N /\ d.tags = c.tags \union N /\ d.sorted = c.sorted \union N

LEMMA AddsCurrent ==
  ASSUME NEW c, Sound(c), NEW l, NEW t, Current(c, l, t), NEW d, NEW N, Adds(c, d, N),
         N \intersect DOMAIN c.pool = {},
         \A o \in N, p \in Undeleted(c) : c.pool[p].key # d.pool[o].key,
         NEW m, \A o \in N : m[d.pool[o].key] = o,
         \A k \in Keys : (\A o \in N : d.pool[o].key # k) => m[k] = l[k]
  PROVE  Current(d, m, t)
<1>1. /\ \A o \in DOMAIN c.pool : c.pool[o].key \in Keys /\ o # 0
      /\ Undeleted(c) \subseteq DOMAIN c.pool /\ c.sorted \subseteq DOMAIN c.pool
  BY SoundIs DEF Sound
<1>2. ASSUME NEW k \in Keys
      PROVE  /\ m[k] \in {0} \union DOMAIN d.pool
             /\ m[k] # 0 => d.pool[m[k]].key = k
  <2>1. CASE \E o \in N : d.pool[o].key = k
    BY <2>1 DEF Adds
  <2>2. CASE \A o \in N : d.pool[o].key # k
    <3>1. m[k] = l[k]
      BY <2>2 DEF Adds
    <3>2. l[k] \in {0} \union DOMAIN c.pool
      BY DEF Current
    <3>3. l[k] # 0 => c.pool[l[k]].key = k
      BY DEF Current
    <3> QED
      BY <3>1, <3>2, <3>3 DEF Adds
  <2> QED
    BY <2>1, <2>2
<1>3. ASSUME NEW o \in N
      PROVE  /\ d.hash[d.pool[o].key] = o /\ m[d.pool[o].key] = o
             /\ o \in d.names \intersect d.tags /\ o \in d.sorted
  BY DEF Adds
<1>4. ASSUME NEW p \in Undeleted(c)
      PROVE  /\ d.hash[d.pool[p].key] = p
             /\ Expired(d.pool[p], t) \/ m[d.pool[p].key] = p
             /\ p \in d.names \intersect d.tags
             /\ \/ p \in d.sorted
                \/ Expired(d.pool[p], t) /\ \A q \in d.sorted : d.pool[q].key # d.pool[p].key
  <2>1. d.pool[p] = c.pool[p] /\ c.pool[p].key \in Keys
    BY <1>1 DEF Adds
  <2>2. \A o \in N : d.pool[o].key # c.pool[p].key
    OBVIOUS
  <2>3. m[c.pool[p].key] = l[c.pool[p].key] /\ d.hash[c.pool[p].key] = c.hash[c.pool[p].key]
    BY <2>1, <2>2 DEF Adds
  <2>4. /\ c.hash[c.pool[p].key] = p
        /\ Expired(c.pool[p], t) \/ l[c.pool[p].key] = p
        /\ p \in c.names \intersect c.tags
    BY DEF Current
  <2>5. CASE p \in c.sorted
    BY <2>1, <2>3, <2>4, <2>5 DEF Adds
  <2>6. CASE p \notin c.sorted
    <3>1. Expired(c.pool[p], t) /\ \A q \in c.sorted : c.pool[q].key # c.pool[p].key
      BY <2>6 DEF Current
    <3>2. \A q \in d.sorted : d.pool[q].key # d.pool[p].key
      BY <1>1, <2>1, <2>2, <3>1 DEF Adds
    <3> QED
      BY <2>1, <2>3, <2>4, <3>1, <3>2 DEF Adds
  <2> QED
    BY <2>5, <2>6
<1> QED
  BY <1>2, <1>3, <1>4 DEF Current, Adds

(* The end of cache_set.                                                   *)
StoredIn(c, k, size, ttl, t) ==
  [Indexed(Appended(c, k, size, ttl, t), k, Len(c.pool) + 1) EXCEPT !.sorted = @ \union {Len(c.pool) + 1}]

NewEntry(k, size, ttl, t) ==
  [key |-> k, size |-> size, access |-> t, deleted |-> FALSE, expire |-> IF ttl > 0 THEN t + ttl ELSE 0]

Grown(c, P, n, m, H, N, T, S) ==
  [c EXCEPT !.pool = P, !.count = n, !.mem = m, !.hash = H, !.names = N, !.tags = T, !.sorted = S]

LEMMA FieldsIs ==
  ASSUME NEW c \in Structs, NEW P \in Seq(Entry), NEW n \in Nat, NEW m \in Nat, NEW H \in [Keys -> Nat],
         NEW N \in SUBSET Nat, NEW T \in SUBSET Nat, NEW S \in SUBSET Nat,
         NEW d, d = Grown(c, P, n, m, H, N, T, S)
  PROVE  /\ d.pool = P /\ d.count = n /\ d.mem = m /\ d.hash = H /\ d.names = N /\ d.tags = T /\ d.sorted = S
         /\ d.hot = c.hot /\ d.hotCount = c.hotCount /\ d \in Structs
BY DEF Structs, Grown

LEMMA StoredIs ==
  ASSUME NEW c \in Structs, NEW k, NEW size, NEW ttl, NEW t,
         NEW d, d = StoredIn(c, k, size, ttl, t)
  PROVE  LET o == Len(c.pool) + 1
         IN  d = Grown(c, Append(c.pool, NewEntry(k, size, ttl, t)), c.count + 1, c.mem + size,
                       [c.hash EXCEPT ![k] = o], c.names \union {o}, c.tags \union {o}, c.sorted \union {o})
<1> DEFINE o == Len(c.pool) + 1
           a == Appended(c, k, size, ttl, t)
           P == Append(c.pool, NewEntry(k, size, ttl, t))
           n == c.count + 1
           m == c.mem + size
           b == [a EXCEPT !.hash = [c.hash EXCEPT ![k] = o], !.names = c.names \union {o}, !.tags = c.tags \union {o}]
<1>1. a = [c EXCEPT !.pool = P, !.count = n, !.mem = m]
  BY Zenon DEF Appended, NewEntry
<1>2. a.hash = c.hash /\ a.names = c.names /\ a.tags = c.tags /\ a.sorted = c.sorted
  <2> HIDE DEF P, n, m, a
  <2> QED
    BY <1>1 DEF Structs
<1>3. Indexed(a, k, o) = b
  <2> HIDE DEF a, o
  <2> QED
    BY <1>2, Zenon DEF Indexed, HashInsert
<1>4. b.sorted = c.sorted
  <2>1. \A H, N, T : [a EXCEPT !.hash = H, !.names = N, !.tags = T].sorted = c.sorted
    <3> HIDE DEF P, n, m, a
    <3> QED
      BY <1>1 DEF Structs
  <2> QED
    BY <2>1
<1>5. d = [b EXCEPT !.sorted = c.sorted \union {o}]
  <2>1. d = [Indexed(a, k, o) EXCEPT !.sorted = Indexed(a, k, o).sorted \union {o}]
    BY Zenon DEF StoredIn
  <2> HIDE DEF a, b, o
  <2> QED
    BY <1>3, <1>4, <2>1
<1> HIDE DEF P, n, m, o, a
<1>6. d = Grown(c, P, n, m, [c.hash EXCEPT ![k] = o], c.names \union {o}, c.tags \union {o}, c.sorted \union {o})
  BY <1>1, <1>5 DEF Grown
<1> QED
  BY <1>6, Zenon DEF P, n, m, o

IsStored(c, k, size, ttl, t, d) == d = StoredIn(c, k, size, ttl, t)

LEMMA StoredSound ==
  ASSUME NEW c, Sound(c), Exact(c), NEW k \in Keys, NEW size \in Sizes, NEW ttl \in TTLs, NEW t \in 1..MaxNow,
         Fits(c, size), Len(c.pool) # PoolMax,
         NEW d, IsStored(c, k, size, ttl, t, d)
  PROVE  /\ Sound(d) /\ Exact(d) /\ Adds(c, d, {Len(c.pool) + 1})
         /\ Len(d.pool) = Len(c.pool) + 1 /\ Len(c.pool) + 1 \notin DOMAIN c.pool
         /\ d.pool[Len(c.pool) + 1].key = k
         /\ d.hot = c.hot
<1> DEFINE o == Len(c.pool) + 1
           e == NewEntry(k, size, ttl, t)
<1>1. e \in Entry /\ e.size \in Nat /\ ~e.deleted /\ e.key = k /\ e.size = size
  BY CacheAssumption DEF Entry, NewEntry
<1> HIDE DEF e
<1>2. /\ c \in Structs /\ c.pool \in Seq(Entry) /\ Len(c.pool) \in Nat /\ DOMAIN c.pool = 1..Len(c.pool)
      /\ \A p \in DOMAIN c.pool : c.pool[p] \in Entry /\ c.pool[p].size \in Nat
      /\ c.mem \in Nat /\ c.count \in Nat /\ Undeleted(c) \subseteq DOMAIN c.pool /\ IsFiniteSet(Undeleted(c))
      /\ Cardinality(Undeleted(c)) \in Nat /\ Len(c.pool) <= PoolMax /\ Bytes(c, Undeleted(c)) \in Nat
  BY SoundIs DEF Sound
<1> DEFINE P == Append(c.pool, e)
<1>3. /\ P \in Seq(Entry) /\ Len(P) = o /\ DOMAIN P = 1..o /\ P[o] = e
      /\ \A p \in DOMAIN c.pool : P[p] = c.pool[p]
  BY <1>1, <1>2
<1>4. /\ DOMAIN P = DOMAIN c.pool \union {o} /\ o \notin DOMAIN c.pool /\ o \in Nat /\ o <= PoolMax
  <2> HIDE DEF P
  <2>1. Len(c.pool) + 1 <= PoolMax
    BY <1>2, LimitsAre
  <2> QED
    BY <1>2, <1>3, <2>1
<1> DEFINE H == [c.hash EXCEPT ![k] = o]
<1>5. d = Grown(c, P, c.count + 1, c.mem + size, H, c.names \union {o}, c.tags \union {o}, c.sorted \union {o})
  <2>1. d = StoredIn(c, k, size, ttl, t)
    BY DEF IsStored
  <2> QED
    BY <1>2, <2>1, StoredIs, Zenon DEF e
<1> HIDE DEF P, o
<1>6. /\ c.names \union {o} \in SUBSET Nat /\ c.tags \union {o} \in SUBSET Nat /\ c.sorted \union {o} \in SUBSET Nat
      /\ H \in [Keys -> Nat] /\ c.hash \in [Keys -> Nat]
      /\ c.count + 1 \in Nat /\ c.mem + size \in Nat /\ size \in Nat
  <2>1. c.hash \in [Keys -> Nat] /\ c.names \in SUBSET Nat /\ c.tags \in SUBSET Nat /\ c.sorted \in SUBSET Nat
    BY <1>2 DEF Structs
  <2>2. H \in [Keys -> Nat]
    BY <1>4, <2>1
  <2>3. size \in Nat
    BY LimitsAre
  <2> HIDE DEF H
  <2> QED
    <3>1. c.names \union {o} \in SUBSET Nat
      BY <1>4, <2>1
    <3>2. c.tags \union {o} \in SUBSET Nat
      BY <1>4, <2>1
    <3>3. c.sorted \union {o} \in SUBSET Nat
      BY <1>4, <2>1
    <3>4. c.count + 1 \in Nat /\ c.mem + size \in Nat
      BY <1>2, <2>3
    <3> QED
      BY <2>1, <2>2, <2>3, <3>1, <3>2, <3>3, <3>4
<1>7. \A j \in Keys : H[j] = IF j = k THEN o ELSE c.hash[j]
  BY <1>6
<1> HIDE DEF H
<1>9. /\ d.pool = P /\ d.count = c.count + 1 /\ d.mem = c.mem + size /\ d.hash = H /\ d.names = c.names \union {o}
      /\ d.tags = c.tags \union {o} /\ d.sorted = c.sorted \union {o} /\ d.hot = c.hot /\ d.hotCount = c.hotCount
      /\ d \in Structs
  <2> DEFINE n == c.count + 1
             m == c.mem + size
             N == c.names \union {o}
             T == c.tags \union {o}
             S == c.sorted \union {o}
  <2>1. d = Grown(c, P, n, m, H, N, T, S)
    BY <1>5
  <2>2. /\ P \in Seq(Entry) /\ n \in Nat /\ m \in Nat /\ H \in [Keys -> Nat]
        /\ N \in SUBSET Nat /\ T \in SUBSET Nat /\ S \in SUBSET Nat
    BY <1>3, <1>6
  <2> HIDE DEF n, m, N, T, S
  <2>3. /\ d.pool = P /\ d.count = n /\ d.mem = m /\ d.hash = H /\ d.names = N /\ d.tags = T /\ d.sorted = S
        /\ d.hot = c.hot /\ d.hotCount = c.hotCount /\ d \in Structs
    <3>1. c \in Structs
      BY <1>2
    <3> QED
      BY <2>1, <2>2, <3>1, FieldsIs
  <2> QED
    BY <2>3 DEF n, m, N, T, S
<1>10. Undeleted(d) = Undeleted(c) \union {o}
  <2>1. DOMAIN d.pool = DOMAIN c.pool \union {o}
    BY <1>4, <1>9
  <2>2. ~d.pool[o].deleted
    BY <1>1, <1>3, <1>9
  <2>3. \A p \in DOMAIN c.pool : d.pool[p].deleted = c.pool[p].deleted
    BY <1>3, <1>9
  <2> QED
    BY <2>1, <2>2, <2>3 DEF Undeleted
<1>11. Cardinality(Undeleted(d)) = Cardinality(Undeleted(c)) + 1
  BY <1>2, <1>4, <1>10, FS_AddElement
<1>12. Bytes(d, Undeleted(d)) = Bytes(c, Undeleted(c)) + size
  <2>1. /\ IsFiniteSet(DOMAIN d.pool) /\ \A p \in DOMAIN d.pool : d.pool[p].size \in Nat
    <3>1. d.pool \in Seq(Entry)
      BY <1>3, <1>9
    <3> QED
      BY <3>1, PoolIs, EntryIs
  <2>2. /\ Undeleted(d) \in SUBSET DOMAIN d.pool /\ {o} \in SUBSET Undeleted(d) /\ o \in DOMAIN d.pool
        /\ Undeleted(d) \ {o} = Undeleted(c)
    BY <1>2, <1>4, <1>9, <1>10
  <2>3. \A p \in Undeleted(c) : c.pool[p].size \in Nat /\ d.pool[p].size = c.pool[p].size
    BY <1>2, <1>3, <1>9
  <2>4. Undeleted(c) \subseteq DOMAIN c.pool /\ Undeleted(c) \subseteq DOMAIN d.pool
    BY <1>2, <1>4, <1>9
  <2>5. d.pool[o].size = size
    BY <1>1, <1>3, <1>9
  <2>6. Bytes(d, Undeleted(d)) = Bytes(c, Undeleted(c)) + d.pool[o].size
    <3>1. IsFiniteSet(Undeleted(c)) /\ Undeleted(c) \subseteq DOMAIN c.pool /\ Undeleted(c) \subseteq DOMAIN d.pool
      BY <1>2, <2>4
    <3>2. OneMoreEntry(c, d, Undeleted(c), Undeleted(d), o)
      BY <2>1, <2>2, <2>3, <3>1 DEF OneMoreEntry
    <3> QED
      BY <3>2, BytesOneMore
  <2> QED
    BY <2>5, <2>6
<1>13. Bytes(d, Undeleted(d)) <= d.mem /\ d.mem <= MaxMemory
  <2>1. Bytes(c, Undeleted(c)) <= c.mem /\ c.mem + size <= MaxMemory
    BY DEF Sound, Fits
  <2> QED
    BY <1>2, <1>6, <1>9, <1>12, <2>1
<1>14. Adds(c, d, {o})
  <2>1. \A j \in Keys : (d.pool[o].key # j) => d.hash[j] = c.hash[j]
    BY <1>1, <1>3, <1>7, <1>9
  <2>2. d.pool[o].key \in Keys /\ d.hash[d.pool[o].key] = o
    BY <1>1, <1>3, <1>7, <1>9
  <2> QED
    BY <1>3, <1>4, <1>9, <1>10, <2>1, <2>2 DEF Adds
<1>15. Sound(d)
  <2>1. Len(d.pool) <= PoolMax
    BY <1>3, <1>4, <1>9
  <2>2. ASSUME NEW j \in Keys
        PROVE  d.hash[j] \in {0} \union DOMAIN d.pool /\ (d.hash[j] # 0 => d.pool[d.hash[j]].key = j)
    <3>1. c.hash[j] \in {0} \union DOMAIN c.pool /\ (c.hash[j] # 0 => c.pool[c.hash[j]].key = j)
      BY DEF Sound
    <3>2. d.hash[j] = IF j = k THEN o ELSE c.hash[j]
      BY <1>7, <1>9
    <3>3. o \in DOMAIN d.pool /\ d.pool[o].key = k
      BY <1>1, <1>3, <1>4, <1>9
    <3>4. \A p \in DOMAIN c.pool : p \in DOMAIN d.pool /\ d.pool[p].key = c.pool[p].key
      BY <1>3, <1>4, <1>9
    <3> QED
      BY <3>1, <3>2, <3>3, <3>4
  <2>3. {d.sorted, d.names, d.tags} \subseteq SUBSET DOMAIN d.pool
    BY <1>4, <1>9 DEF Sound
  <2>4. /\ \A h \in d.hot : h.at \in DOMAIN d.pool /\ d.pool[h.at].key = h.key
        /\ \A g, h \in d.hot : g.key = h.key => g = h
        /\ IsFiniteSet(d.hot)
    <3>1. /\ \A h \in c.hot : h.at \in DOMAIN c.pool /\ c.pool[h.at].key = h.key
          /\ \A g, h \in c.hot : g.key = h.key => g = h
          /\ IsFiniteSet(c.hot)
      BY DEF Sound
    <3>2. DOMAIN c.pool \subseteq DOMAIN d.pool /\ \A p \in DOMAIN c.pool : d.pool[p].key = c.pool[p].key
      BY <1>3, <1>4, <1>9
    <3>3. d.hot = c.hot
      BY <1>9
    <3> QED
      BY <3>1, <3>2, <3>3
  <2> QED
    BY <1>9, <1>13, <2>1, <2>2, <2>3, <2>4 DEF Sound
<1>16. Exact(d)
  BY <1>9, <1>11 DEF Exact
<1> QED
  BY <1>1, <1>3, <1>4, <1>9, <1>14, <1>15, <1>16 DEF o

-----------------------------------------------------------------------------
(* cache_set.                                                              *)

(* Permanent entries stay, except those with a key of K; nothing becomes   *)
(* hot.                                                                    *)
Keeps(c, d, K) ==
  /\ DOMAIN c.pool \subseteq DOMAIN d.pool /\ d.hot \subseteq c.hot
  /\ \A o \in Undeleted(c) :
       (c.pool[o].expire = 0 /\ c.pool[o].key \notin K) =>
          o \in Undeleted(d) /\ d.pool[o].expire = 0 /\ d.pool[o].key = c.pool[o].key

LEMMA KeepsTwice ==
  ASSUME NEW c, NEW d, NEW e, NEW K, Keeps(c, d, K), Keeps(d, e, K)
  PROVE  Keeps(c, e, K)
BY DEF Keeps

LEMMA VictimsAre ==
  ASSUME NEW c, NEW need, NEW A \in {Candidates(c), Evictable(c)}, NEW E \in Victims(c, need, A)
  PROVE  E \in SUBSET Undeleted(c) /\ \A o \in E : c.pool[o].expire # 0
<1>1. E \in SUBSET Evictable(c)
  <2>1. CASE Fits(c, need)
    BY <2>1 DEF Victims
  <2>2. CASE ~Fits(c, need)
    <3>1. Candidates(c) \subseteq Evictable(c)
      BY DEF Candidates
    <3>2. E \in SUBSET A
      BY <2>2 DEF Victims
    <3> QED
      BY <3>1, <3>2
  <2> QED
    BY <2>1, <2>2
<1> QED
  BY <1>1 DEF Evictable

(* Eviction, with or without the sweep of the sorted array after it.       *)
Evicted(c, d, need) ==
  \E A \in {Candidates(c), Evictable(c)} : \E E \in Victims(c, need, A) : \E u \in Unindexed(c, E) :
     d = u \/ d = [u EXCEPT !.sorted = @ \intersect Undeleted(u)]

LEMMA EvictedSound ==
  ASSUME NEW c, Sound(c), Exact(c), NEW need, NEW d, Evicted(c, d, need)
  PROVE  /\ Sound(d) /\ Exact(d) /\ Len(d.pool) = Len(c.pool) /\ Keeps(c, d, {}) /\ d.mem <= c.mem
         /\ \A o \in Undeleted(d) : o \in Undeleted(c) /\ d.pool[o].key = c.pool[o].key
         /\ \A l, t : Current(c, l, t) => Current(d, l, t)
<1>b. PICK A \in {Candidates(c), Evictable(c)} : \E E \in Victims(c, need, A) : \E u \in Unindexed(c, E) :
                d = u \/ d = [u EXCEPT !.sorted = @ \intersect Undeleted(u)]
  BY DEF Evicted
<1>a. PICK E \in Victims(c, need, A) : \E u \in Unindexed(c, E) :
                d = u \/ d = [u EXCEPT !.sorted = @ \intersect Undeleted(u)]
  BY <1>b
<1>1. PICK u \in Unindexed(c, E) : d = u \/ d = [u EXCEPT !.sorted = @ \intersect Undeleted(u)]
  BY <1>a
<1>2. E \in SUBSET Undeleted(c) /\ \A o \in E : c.pool[o].expire # 0
  BY VictimsAre
<1>3. Sound(u) /\ Exact(u) /\ Takes(c, u, E)
  BY <1>2, UnindexedSound
<1>4. \A l, t : Current(c, l, t) => Current(u, l, t)
  <2>1. \A l, t : Current(c, l, t) => Shrinks(c, u)
    BY <1>2, <1>3, TakesShrinks
  <2> QED
    BY <2>1, ShrinksCurrent
<1>5. Keeps(c, u, {}) /\ Len(u.pool) = Len(c.pool)
  BY <1>2, <1>3 DEF Keeps, Takes, Undeleted
<1>9. \A o \in Undeleted(u) : o \in Undeleted(c) /\ u.pool[o].key = c.pool[o].key
  BY <1>3 DEF Takes, Undeleted
<1>6. u.mem <= c.mem
  <2>1. Bytes(c, E) \in Nat
    <3>1. E \in SUBSET DOMAIN c.pool
      BY <1>2 DEF Undeleted
    <3> QED
      BY <3>1, SoundIs, BytesFacts
  <2>2. u.mem = c.mem - Bytes(c, E) /\ c.mem \in Nat
    BY <1>3, SoundIs DEF Takes
  <2> QED
    BY <2>1, <2>2
<1>7. CASE d = u
  BY <1>3, <1>4, <1>5, <1>6, <1>7, <1>9
<1>8. CASE d = [u EXCEPT !.sorted = u.sorted \intersect Undeleted(u)]
  <2> DEFINE L == u.sorted \intersect Undeleted(u)
  <2>1. L \in SUBSET u.sorted /\ d = [u EXCEPT !.sorted = L]
    BY <1>8
  <2>2. /\ Sound(d) /\ Exact(d) /\ Undeleted(d) = Undeleted(u)
        /\ d.pool = u.pool /\ d.hash = u.hash /\ d.sorted = L /\ d.names = u.names /\ d.tags = u.tags
        /\ d.hot = u.hot /\ d.mem = u.mem
    <3> HIDE DEF L
    <3>1. Sound(u) /\ Exact(u)
      BY <1>3
    <3> QED
      BY <2>1, <3>1, SortedSound
  <2>3. Shrinks(u, d)
    BY <2>2 DEF Shrinks
  <2>4. \A l, t : Current(c, l, t) => Current(d, l, t)
    BY <1>3, <1>4, <2>3, ShrinksCurrent
  <2>5. Keeps(c, d, {})
    BY <1>5, <2>2 DEF Keeps
  <2> HIDE DEF L
  <2> QED
    BY <1>5, <1>6, <1>9, <2>2, <2>4, <2>5
<1> QED
  BY <1>1, <1>7, <1>8

OldOf(d, k) == IF d.hash[k] # 0 /\ d.hash[k] \in Undeleted(d) THEN {d.hash[k]} ELSE {}

LEMMA SetIs ==
  ASSUME NEW c, NEW k, NEW size, NEW ttl, NEW t, NEW r \in SetResults(c, k, size, ttl, t)
  PROVE  \E d : /\ Evicted(c, d, size)
                /\ \/ r = [c |-> d, ok |-> FALSE]
                   \/ /\ Fits(d, size)
                      /\ \E v \in Removed(d, OldOf(d, k)) :
                           r = IF Len(v.pool) = PoolMax THEN [c |-> v, ok |-> FALSE]
                               ELSE [c |-> StoredIn(v, k, size, ttl, t), ok |-> TRUE]
<1> DEFINE swept(d) == IF d = c THEN d ELSE [d EXCEPT !.sorted = @ \intersect Undeleted(d)]
           evicted == {swept(d) : d \in UNION {Unindexed(c, E) : E \in Victims(c, size, Candidates(c))}}
           after(d) == {IF Len(v.pool) = PoolMax THEN [c |-> v, ok |-> FALSE]
                        ELSE [c |-> StoredIn(v, k, size, ttl, t), ok |-> TRUE] : v \in Removed(d, OldOf(d, k))}
<1>1. SetResults(c, k, size, ttl, t) =
        {[c |-> d, ok |-> FALSE] : d \in {d \in evicted : ~Fits(d, size)}}
        \union UNION {after(d) : d \in {d \in evicted : Fits(d, size)}}
  BY Zenon DEF SetResults, StoredIn, OldOf
<1>2. \A d \in evicted : Evicted(c, d, size)
  BY DEF Evicted
<1> HIDE DEF evicted
<1>3. CASE r \in {[c |-> d, ok |-> FALSE] : d \in {d \in evicted : ~Fits(d, size)}}
  BY <1>2, <1>3
<1>4. ASSUME NEW d \in evicted, Fits(d, size), r \in after(d)
      PROVE  \E v \in Removed(d, OldOf(d, k)) :
               r = IF Len(v.pool) = PoolMax THEN [c |-> v, ok |-> FALSE]
                   ELSE [c |-> StoredIn(v, k, size, ttl, t), ok |-> TRUE]
  BY <1>4
<1> HIDE DEF after
<1> QED
  BY <1>1, <1>2, <1>3, <1>4

LEMMA SetSound ==
  ASSUME NEW c, Sound(c), Exact(c), NEW k \in Keys, NEW size \in Sizes, NEW ttl \in TTLs, NEW t \in 1..MaxNow,
         NEW r \in SetResults(c, k, size, ttl, t)
  PROVE  /\ Sound(r.c) /\ Exact(r.c) /\ r.ok \in BOOLEAN /\ Keeps(c, r.c, {k})
         /\ Len(r.c.pool) = IF r.ok THEN Len(c.pool) + 1 ELSE Len(c.pool)
         /\ \A l : l \in [Keys -> Nat] /\ Current(c, l, t) =>
                     Current(r.c, IF r.ok THEN [l EXCEPT ![k] = Len(r.c.pool)] ELSE l, t)
<1>1. PICK d : /\ Evicted(c, d, size)
               /\ \/ r = [c |-> d, ok |-> FALSE]
                  \/ /\ Fits(d, size)
                     /\ \E v \in Removed(d, OldOf(d, k)) :
                          r = IF Len(v.pool) = PoolMax THEN [c |-> v, ok |-> FALSE]
                              ELSE [c |-> StoredIn(v, k, size, ttl, t), ok |-> TRUE]
  BY SetIs
<1>2. /\ Sound(d) /\ Exact(d) /\ Len(d.pool) = Len(c.pool) /\ Keeps(c, d, {}) /\ d.mem <= c.mem
      /\ \A l, u : Current(c, l, u) => Current(d, l, u)
  BY <1>1, EvictedSound
<1>3. Keeps(c, d, {k})
  BY <1>2 DEF Keeps
<1>4. CASE r = [c |-> d, ok |-> FALSE]
  <2>1. r.c = d /\ r.ok = FALSE
    BY <1>4
  <2> QED
    BY <1>2, <1>3, <2>1
<1>5. ASSUME Fits(d, size), NEW v \in Removed(d, OldOf(d, k)),
             r = IF Len(v.pool) = PoolMax THEN [c |-> v, ok |-> FALSE]
                 ELSE [c |-> StoredIn(v, k, size, ttl, t), ok |-> TRUE]
      PROVE  /\ Sound(r.c) /\ Exact(r.c) /\ r.ok \in BOOLEAN /\ Keeps(c, r.c, {k})
             /\ Len(r.c.pool) = IF r.ok THEN Len(c.pool) + 1 ELSE Len(c.pool)
             /\ \A l : l \in [Keys -> Nat] /\ Current(c, l, t) =>
                         Current(r.c, IF r.ok THEN [l EXCEPT ![k] = Len(r.c.pool)] ELSE l, t)
  <2> DEFINE D == OldOf(d, k)
  <2>1. D \in SUBSET Undeleted(d)
    BY DEF OldOf
  <2>2. Sound(v) /\ Exact(v) /\ Takes(d, v, D)
    <3> HIDE DEF D
    <3> QED
      BY <1>2, <1>5, <2>1, RemovedSound DEF D
  <2>3. \A l, u : Current(c, l, u) => Shrinks(d, v) /\ Current(d, l, u)
    <3> HIDE DEF D
    <3> QED
      BY <1>2, <2>1, <2>2, TakesShrinks
  <2>4. \A l, u : Current(c, l, u) => Current(v, l, u)
    BY <1>2, <2>3, ShrinksCurrent
  <2>5. Fits(v, size)
    <3>1. v.mem = d.mem - Bytes(d, D)
      BY <2>2 DEF Takes
    <3>2. Bytes(d, D) \in Nat
      <4>1. D \in SUBSET DOMAIN d.pool
        BY <2>1 DEF Undeleted
      <4> HIDE DEF D
      <4> QED
        BY <1>2, <4>1, SoundIs, BytesFacts
    <3>3. d.mem \in Nat /\ size \in Nat
      BY <1>2, SoundIs, LimitsAre
    <3> HIDE DEF D
    <3> QED
      BY <1>5, <3>1, <3>2, <3>3, LimitsAre DEF Fits
  <2>6. Keeps(d, v, {k})
    <3>1. \A o \in D : o = d.hash[k] /\ o # 0
      BY DEF OldOf
    <3>2. \A o \in D : d.pool[o].key = k
      BY <1>2, <3>1 DEF Sound
    <3> HIDE DEF D
    <3> QED
      BY <2>2, <3>2 DEF Keeps, Takes, Undeleted
  <2>7. Keeps(c, v, {k})
    BY <1>3, <2>6, KeepsTwice
  <2>8. Len(v.pool) = Len(c.pool)
    BY <1>2, <2>2 DEF Takes
  <2>9. CASE Len(v.pool) = PoolMax
    <3>1. r.c = v /\ r.ok = FALSE
      BY <1>5, <2>9
    <3> QED
      BY <2>2, <2>4, <2>7, <2>8, <3>1
  <2>10. CASE Len(v.pool) # PoolMax
    <3> DEFINE w == StoredIn(v, k, size, ttl, t)
               o == Len(v.pool) + 1
    <3>1. r.c = w /\ r.ok = TRUE
      BY <1>5, <2>10
    <3>2. /\ Sound(w) /\ Exact(w) /\ Adds(v, w, {o}) /\ Len(w.pool) = o /\ o \notin DOMAIN v.pool
          /\ w.pool[o].key = k /\ w.hot = v.hot
      <4> HIDE DEF w, D
      <4>1. IsStored(v, k, size, ttl, t, w)
        BY DEF w, IsStored
      <4> HIDE DEF o
      <4>2. /\ Sound(w) /\ Exact(w) /\ Adds(v, w, {Len(v.pool) + 1})
            /\ Len(w.pool) = Len(v.pool) + 1 /\ Len(v.pool) + 1 \notin DOMAIN v.pool
            /\ w.pool[Len(v.pool) + 1].key = k
            /\ w.hot = v.hot
        BY <2>2, <2>5, <2>10, <4>1, StoredSound
      <4> QED
        BY <4>2 DEF o
    <3> HIDE DEF w, o
    <3>3. Keeps(v, w, {k})
      BY <3>2 DEF Keeps, Adds, Undeleted
    <3>4. Keeps(c, w, {k})
      BY <2>7, <3>3, KeepsTwice
    <3>5. ASSUME NEW l \in [Keys -> Nat], Current(c, l, t) PROVE Current(w, [l EXCEPT ![k] = o], t)
      <4>1. Current(v, l, t) /\ Current(d, l, t)
        BY <1>2, <2>4, <3>5
      <4>2. \A p \in Undeleted(v) : v.pool[p].key # k
        <5>1. SUFFICES ASSUME NEW p \in Undeleted(v), v.pool[p].key = k PROVE FALSE
          OBVIOUS
        <5>2. p \in Undeleted(d) /\ p \notin D /\ d.pool[p].key = k
          BY <2>2, <5>1 DEF Takes, Undeleted
        <5>3. d.hash[k] = p /\ p # 0
          BY <1>2, <4>1, <5>2, SoundIs DEF Current
        <5> QED
          BY <5>2, <5>3 DEF OldOf
      <4> DEFINE m == [l EXCEPT ![k] = o]
      <4>3. m[k] = o /\ \A j \in Keys : j # k => m[j] = l[j]
        OBVIOUS
      <4> HIDE DEF m, D
      <4>4. {o} \intersect DOMAIN v.pool = {}
        BY <3>2
      <4>5. /\ \A x \in {o}, p \in Undeleted(v) : v.pool[p].key # w.pool[x].key
            /\ \A x \in {o} : m[w.pool[x].key] = x
            /\ \A j \in Keys : (\A x \in {o} : w.pool[x].key # j) => m[j] = l[j]
        BY <3>2, <4>2, <4>3
      <4>6. Current(w, m, t)
        BY <2>2, <3>2, <4>1, <4>4, <4>5, AddsCurrent
      <4> QED
        BY <4>6 DEF m
    <3>6. Len(w.pool) = Len(c.pool) + 1
      BY <2>8, <3>2 DEF o
    <3> QED
      BY <3>1, <3>2, <3>4, <3>5, <3>6
  <2> QED
    BY <2>9, <2>10
<1> QED
  BY <1>1, <1>4, <1>5

-----------------------------------------------------------------------------
(* cache_batch_set.                                                        *)

(* A sum over the numbers b + i is the sum over the numbers i.             *)
Shift(b, S) == {b + i : i \in S}

LEMMA TotalShift ==
  ASSUME NEW f, NEW g, NEW b \in Nat, NEW S \in SUBSET Nat, IsFiniteSet(S), IsFiniteSet(Shift(b, S)),
         \A i \in S : f[b + i] = g[i] /\ g[i] \in Nat
  PROVE  Total(f, Shift(b, S)) = Total(g, S)
<1> DEFINE Bad == {T \in SUBSET S : Total(f, Shift(b, T)) # Total(g, T)}
<1>1. SUFFICES ASSUME Bad # {} PROVE FALSE
  BY DEF Bad
<1>2. PICK T \in Bad : \A U \in SUBSET T : U # T => U \notin Bad
  <2>1. Bad \subseteq SUBSET S
    OBVIOUS
  <2> HIDE DEF Bad
  <2> QED
    BY <1>1, <2>1, SmallestSubset
<1>3. /\ Total(f, {}) = 0 /\ Total(g, {}) = 0
      /\ \A U \in SUBSET S : \A x \in U : Total(g, U) = g[x] + Total(g, U \ {x})
      /\ \A U \in SUBSET Shift(b, S) : \A x \in U : Total(f, U) = f[x] + Total(f, U \ {x})
  <2>1. \A x \in S : g[x] \in Int
    OBVIOUS
  <2>2. \A x \in Shift(b, S) : f[x] \in Int
    BY DEF Shift
  <2> HIDE DEF Bad
  <2>3. Total(g, {}) = 0 /\ \A U \in SUBSET S : \A x \in U : Total(g, U) = g[x] + Total(g, U \ {x})
    BY <2>1, TotalAdd, ZenonT(30)
  <2>4. /\ Total(f, {}) = 0
        /\ \A U \in SUBSET Shift(b, S) : \A x \in U : Total(f, U) = f[x] + Total(f, U \ {x})
    BY <2>2, TotalAdd
  <2> QED
    BY <2>3, <2>4
<1>4. T # {}
  <2>1. Shift(b, {}) = {}
    BY DEF Shift
  <2> QED
    BY <1>3, <2>1
<1>5. PICK x \in T : TRUE
  BY <1>4
<1>6. x \in S /\ x \in Nat
  OBVIOUS
<1>7. Shift(b, T) \in SUBSET Shift(b, S) /\ b + x \in Shift(b, T)
  BY DEF Shift
<1>8. Shift(b, T) \ {b + x} = Shift(b, T \ {x})
  <2>1. \A i \in T : i \in Nat
    OBVIOUS
  <2> HIDE DEF Bad
  <2> QED
    BY <1>6, <2>1 DEF Shift
<1>9. Total(f, Shift(b, T \ {x})) = Total(g, T \ {x})
  BY <1>2, <1>5
<1>10. Total(f, Shift(b, T)) = f[b + x] + Total(f, Shift(b, T \ {x}))
  BY <1>3, <1>7, <1>8
<1>11. Total(g, T) = g[x] + Total(g, T \ {x})
  BY <1>3, <1>5
<1> QED
  BY <1>6, <1>9, <1>10, <1>11

ItemSizes(items) == [i \in DOMAIN items |-> items[i].size]

LEMMA ItemBytes ==
  ASSUME NEW items, NEW S, IsFiniteSet(S), S \subseteq DOMAIN items
  PROVE  MapThenSumSet(LAMBDA i : items[i].size, S) = Total(ItemSizes(items), S)
<1> DEFINE f == ItemSizes(items)
           IsBytes(g) == g = [s \in SUBSET S |->
                                IF s = {} THEN 0
                                ELSE LET x == CHOOSE x \in s : TRUE IN items[x].size + g[s \ {x}]]
           b == CHOOSE g : IsBytes(g)
           k == CHOOSE g : IsSum(f, S, g)
<1>1. MapThenSumSet(LAMBDA i : items[i].size, S) = b[S]
  BY DEF MapThenSumSet, MapThenFoldSet
<1>2. \A g : IsSum(f, S, g) <=> IsBytes(g)
  <2>1. ASSUME NEW g, NEW s \in SUBSET S
        PROVE  SumStep(f, g, s) = IF s = {} THEN 0
                                  ELSE LET x == CHOOSE x \in s : TRUE IN items[x].size + g[s \ {x}]
    <3>1. s # {} => (CHOOSE x \in s : TRUE) \in DOMAIN items
      OBVIOUS
    <3> QED
      BY <3>1 DEF SumStep, ItemSizes
  <2> HIDE DEF f
  <2>2. ASSUME NEW g PROVE IsSum(f, S, g) <=> IsBytes(g)
    <3>1. [s \in SUBSET S |-> SumStep(f, g, s)]
            = [s \in SUBSET S |-> IF s = {} THEN 0
                                  ELSE LET x == CHOOSE x \in s : TRUE IN items[x].size + g[s \ {x}]]
      BY <2>1
    <3> QED
      BY <3>1, Zenon DEF IsSum
  <2> QED
    BY <2>2
<1>3. IsSum(f, S, k)
  BY SumExists
<1>4. IsSum(f, S, b)
  <2> HIDE DEF IsBytes, k, f
  <2> QED
    BY <1>2, <1>3
<1> HIDE DEF f, k, b
<1> QED
  BY <1>1, <1>3, <1>4, SumUnique DEF Total, f, k

LEMMA BatchIs ==
  ASSUME NEW items \in Batches
  PROVE  /\ Len(items) \in {1, 2} /\ DOMAIN items = 1..Len(items) /\ IsFiniteSet(DOMAIN items)
         /\ \A i \in DOMAIN items : /\ i \in Nat /\ i >= 1
                                    /\ items[i].key \in Keys /\ items[i].size \in Sizes /\ items[i].ttl \in TTLs
                                    /\ items[i].size \in Nat
<1>1. PICK n \in 1..2 : items \in [1..n -> Items]
  BY DEF Batches
<1>2. Len(items) = n /\ DOMAIN items = 1..n
  BY <1>1
<1>3. IsFiniteSet(1..n)
  BY FS_Interval
<1>4. \A i \in DOMAIN items : items[i] \in Items
  BY <1>1
<1>5. \A i \in DOMAIN items : items[i].key \in Keys /\ items[i].size \in Sizes /\ items[i].ttl \in TTLs /\ items[i].size \in Nat
  BY <1>4, LimitsAre DEF Items
<1> QED
  BY <1>2, <1>3, <1>5

LEMMA BatchBytesAre ==
  ASSUME NEW items \in Batches
  PROVE  /\ BatchBytes(items) \in Nat
         /\ \A S \in SUBSET DOMAIN items : /\ Total(ItemSizes(items), S) \in Nat
                                           /\ Total(ItemSizes(items), S) <= BatchBytes(items)
<1> DEFINE f == ItemSizes(items)
           D == DOMAIN items
<1>1. IsFiniteSet(D) /\ \A i \in D : f[i] \in Nat /\ f[i] \in Int
  BY BatchIs DEF ItemSizes
<1>2. BatchBytes(items) = Total(f, D)
  BY <1>1, ItemBytes DEF BatchBytes
<1> HIDE DEF f, D
<1>3. \A S \in SUBSET D : Total(f, S) \in Nat
  BY <1>1, TotalNat
<1>4. \A S \in SUBSET D : Total(f, D) = Total(f, S) + Total(f, D \ S)
  BY <1>1, TotalSplit
<1>5. ASSUME NEW S \in SUBSET D PROVE Total(f, S) <= Total(f, D)
  <2>1. Total(f, S) \in Nat /\ Total(f, D \ S) \in Nat
    BY <1>3
  <2> QED
    BY <1>4, <2>1
<1>6. Total(f, D) \in Nat
  BY <1>3
<1> QED
  BY <1>2, <1>3, <1>5, <1>6 DEF f, D

Joined(p, q) == p \o q

LEMMA JoinedIs ==
  ASSUME NEW p \in Seq(Entry), NEW q \in Seq(Entry)
  PROVE  /\ Joined(p, q) \in Seq(Entry) /\ Len(Joined(p, q)) = Len(p) + Len(q)
         /\ DOMAIN Joined(p, q) = 1..(Len(p) + Len(q))
         /\ \A i \in 1..Len(p) : Joined(p, q)[i] = p[i]
         /\ \A i \in 1..Len(q) : Joined(p, q)[Len(p) + i] = q[i]
<1>1. /\ Joined(p, q) \in Seq(Entry) /\ Len(Joined(p, q)) = Len(p) + Len(q)
  BY DEF Joined
<1>2. DOMAIN Joined(p, q) = 1..(Len(p) + Len(q))
  BY <1>1
<1>3. \A i \in 1..Len(p) : Joined(p, q)[i] = p[i]
  BY DEF Joined
<1>4. ASSUME NEW i \in 1..Len(q) PROVE Joined(p, q)[Len(p) + i] = q[i]
  <2>1. Len(p) \in Nat /\ Len(q) \in Nat
    OBVIOUS
  <2>2. Len(p) + i \in 1..(Len(p) + Len(q)) /\ ~(Len(p) + i <= Len(p)) /\ (Len(p) + i) - Len(p) = i
    BY <2>1
  <2> QED
    BY <2>1, <2>2 DEF Joined
<1> QED
  BY <1>1, <1>2, <1>3, <1>4

(* The part of a batch that is on disk: m entries after those of c.        *)
NewEntries(items, m, t) == [i \in 1..m |-> NewEntry(items[i].key, items[i].size, items[i].ttl, t)]

Writes(c, d, items, t, m, P, H, N, T, S) ==
  /\ Len(c.pool) + m <= PoolMax
  /\ P = Joined(c.pool, NewEntries(items, m, t))
  /\ d = Grown(c, P, c.count + m, c.mem + Total(ItemSizes(items), 1..m), H, N, T, S)
  /\ H \in [Keys -> {0} \union DOMAIN P] /\ \A k \in Keys : H[k] # 0 => P[H[k]].key = k
  /\ N \in SUBSET DOMAIN P /\ T \in SUBSET DOMAIN P /\ S \in SUBSET DOMAIN P

LEMMA WrittenSound ==
  ASSUME NEW c, Sound(c), Exact(c), NEW items \in Batches, NEW t \in 1..MaxNow, NEW m \in 0..Len(items),
         Fits(c, BatchBytes(items)),
         NEW P, NEW H, NEW N, NEW T, NEW S, NEW d, Writes(c, d, items, t, m, P, H, N, T, S)
  PROVE  /\ Sound(d) /\ Exact(d) /\ Len(d.pool) = Len(c.pool) + m
         /\ DOMAIN d.pool = DOMAIN c.pool \union Shift(Len(c.pool), 1..m)
         /\ Shift(Len(c.pool), 1..m) \intersect DOMAIN c.pool = {}
         /\ Undeleted(d) = Undeleted(c) \union Shift(Len(c.pool), 1..m)
         /\ \A p \in DOMAIN c.pool : d.pool[p] = c.pool[p]
         /\ \A i \in 1..m : d.pool[Len(c.pool) + i].key = items[i].key
         /\ d.hash = H /\ d.names = N /\ d.tags = T /\ d.sorted = S /\ d.hot = c.hot
<1>0. /\ Len(c.pool) + m <= PoolMax
      /\ P = Joined(c.pool, NewEntries(items, m, t))
      /\ d = Grown(c, P, c.count + m, c.mem + Total(ItemSizes(items), 1..m), H, N, T, S)
      /\ H \in [Keys -> {0} \union DOMAIN P] /\ \A k \in Keys : H[k] # 0 => P[H[k]].key = k
      /\ N \in SUBSET DOMAIN P /\ T \in SUBSET DOMAIN P /\ S \in SUBSET DOMAIN P
  BY DEF Writes
<1> DEFINE q == NewEntries(items, m, t)
           b == Len(c.pool)
           new == Shift(b, 1..m)
           x == Total(ItemSizes(items), 1..m)
<1>1. /\ Len(items) \in {1, 2} /\ DOMAIN items = 1..Len(items) /\ m \in Nat /\ 1..m \in SUBSET DOMAIN items
      /\ \A i \in 1..m : /\ items[i].key \in Keys /\ items[i].size \in Sizes /\ items[i].ttl \in TTLs
                         /\ items[i].size \in Nat
  BY BatchIs
<1>2. /\ c \in Structs /\ c.pool \in Seq(Entry) /\ b \in Nat /\ DOMAIN c.pool = 1..b
      /\ \A p \in DOMAIN c.pool : c.pool[p] \in Entry /\ c.pool[p].size \in Nat /\ c.pool[p].deleted \in BOOLEAN
      /\ c.mem \in Nat /\ c.count \in Nat /\ Undeleted(c) \subseteq DOMAIN c.pool /\ IsFiniteSet(Undeleted(c))
      /\ Cardinality(Undeleted(c)) \in Nat /\ b <= PoolMax /\ Bytes(c, Undeleted(c)) \in Nat
  BY SoundIs DEF Sound
<1>3. /\ DOMAIN q = 1..m /\ q \in Seq(Entry) /\ Len(q) = m
      /\ \A i \in 1..m : q[i].key = items[i].key /\ q[i].size = items[i].size /\ ~q[i].deleted
  <2>1. \A i \in 1..m : q[i] = NewEntry(items[i].key, items[i].size, items[i].ttl, t)
    BY DEF NewEntries
  <2>2. \A i \in 1..m : q[i] \in Entry /\ q[i].key = items[i].key /\ q[i].size = items[i].size /\ ~q[i].deleted
    <3>1. ASSUME NEW k \in Keys, NEW z \in Sizes, NEW l \in TTLs
          PROVE  /\ NewEntry(k, z, l, t) \in Entry /\ NewEntry(k, z, l, t).key = k /\ NewEntry(k, z, l, t).size = z
                 /\ ~NewEntry(k, z, l, t).deleted
      BY LimitsAre DEF Entry, NewEntry
    <3> HIDE DEF q
    <3> QED
      BY <1>1, <2>1, <3>1
  <2>3. DOMAIN q = 1..m /\ q = [i \in 1..m |-> q[i]]
    BY DEF NewEntries
  <2> HIDE DEF q
  <2>4. q \in [1..m -> Entry]
    BY <2>2, <2>3
  <2> QED
    BY <1>1, <2>2, <2>3, <2>4
<1> HIDE DEF q
<1>4. /\ P \in Seq(Entry) /\ Len(P) = b + m /\ DOMAIN P = 1..(b + m)
      /\ \A p \in 1..b : P[p] = c.pool[p]
      /\ \A i \in 1..m : P[b + i] = q[i]
  <2>1. P = Joined(c.pool, q)
    BY <1>0 DEF q
  <2> QED
    <3>1. c.pool \in Seq(Entry) /\ q \in Seq(Entry) /\ Len(q) = m
      BY <1>2, <1>3
    <3> HIDE DEF b
    <3>2. /\ P \in Seq(Entry) /\ Len(P) = Len(c.pool) + Len(q)
          /\ DOMAIN P = 1..(Len(c.pool) + Len(q))
          /\ \A i \in 1..Len(c.pool) : P[i] = c.pool[i]
          /\ \A i \in 1..Len(q) : P[Len(c.pool) + i] = q[i]
      <4> DEFINE p == c.pool
                 J == Joined(p, q)
      <4>1. p \in Seq(Entry) /\ q \in Seq(Entry)
        BY <3>1
      <4> HIDE DEF p
      <4>2. /\ J \in Seq(Entry) /\ Len(J) = Len(p) + Len(q)
            /\ DOMAIN J = 1..(Len(p) + Len(q))
            /\ \A i \in 1..Len(p) : J[i] = p[i]
            /\ \A i \in 1..Len(q) : J[Len(p) + i] = q[i]
        BY <4>1, JoinedIs
      <4>3. P = J
        BY <2>1 DEF p
      <4> HIDE DEF J
      <4> QED
        BY <4>2, <4>3 DEF p
    <3> QED
      BY <3>1, <3>2 DEF b
<1>5. DOMAIN P = DOMAIN c.pool \union new /\ new \intersect DOMAIN c.pool = {}
  <2>1. \A p \in DOMAIN P : p \in DOMAIN c.pool \/ p \in new
    <3>1. SUFFICES ASSUME NEW p \in DOMAIN P, p \notin DOMAIN c.pool PROVE p \in new
      OBVIOUS
    <3>2. p - b \in 1..m /\ p = b + (p - b)
      <4>1. p \in 1..(b + m) /\ p \notin 1..b
        BY <1>2, <1>4, <3>1
      <4>2. b \in Nat /\ m \in Nat
        BY <1>1, <1>2
      <4> HIDE DEF b
      <4>3. p \in Int /\ b < p /\ p <= b + m
        BY <4>1, <4>2
      <4> QED
        BY <4>2, <4>3
    <3> QED
      BY <3>2 DEF Shift
  <2>2. \A p \in new : p \in DOMAIN P /\ p \notin DOMAIN c.pool
    BY <1>1, <1>2, <1>4, SMTT(30) DEF Shift
  <2>3. DOMAIN c.pool \subseteq DOMAIN P
    BY <1>1, <1>2, <1>4
  <2> QED
    BY <2>1, <2>2, <2>3
<1>6. IsFiniteSet(new) /\ Cardinality(new) = m /\ IsFiniteSet(1..m)
  <2>1. new = (b + 1)..(b + m)
    <3>1. \A p \in (b + 1)..(b + m) : p - b \in 1..m /\ p = b + (p - b)
      BY <1>1, <1>2
    <3>2. (b + 1)..(b + m) \subseteq new
      BY <3>1 DEF Shift
    <3>3. new \subseteq (b + 1)..(b + m)
      BY <1>1, <1>2 DEF Shift
    <3> QED
      BY <3>2, <3>3
  <2>2. /\ IsFiniteSet((b + 1)..(b + m))
        /\ Cardinality((b + 1)..(b + m)) = IF b + 1 > b + m THEN 0 ELSE (b + m) - (b + 1) + 1
    <3> DEFINE lo == b + 1
               hi == b + m
    <3>1. lo \in Int /\ hi \in Int
      BY <1>1, <1>2
    <3> HIDE DEF lo, hi
    <3>2. IsFiniteSet(lo..hi) /\ Cardinality(lo..hi) = IF lo > hi THEN 0 ELSE hi - lo + 1
      BY <3>1, FS_Interval
    <3> QED
      BY <3>2 DEF lo, hi
  <2>3. IsFiniteSet(1..m)
    BY <1>1, FS_Interval
  <2> QED
    BY <1>1, <1>2, <2>1, <2>2, <2>3
<1>7. x \in Nat /\ x <= BatchBytes(items) /\ BatchBytes(items) \in Nat
  BY <1>1, BatchBytesAre
<1>8. /\ d.pool = P /\ d.count = c.count + m /\ d.mem = c.mem + x /\ d.hash = H /\ d.names = N /\ d.tags = T
      /\ d.sorted = S /\ d.hot = c.hot /\ d.hotCount = c.hotCount /\ d \in Structs
  <2> DEFINE n == c.count + m
             y == c.mem + x
  <2>1. n \in Nat /\ y \in Nat
    BY <1>1, <1>2, <1>7, SMTT(30)
  <2>2. DOMAIN P \subseteq Nat
    BY <1>1, <1>2, <1>4
  <2>3. H \in [Keys -> Nat] /\ N \in SUBSET Nat /\ T \in SUBSET Nat /\ S \in SUBSET Nat
    BY <1>0, <2>2
  <2>4. d = Grown(c, P, n, y, H, N, T, S) /\ c \in Structs /\ P \in Seq(Entry)
    BY <1>0, <1>2, <1>4
  <2> HIDE DEF n, y, x, new, b
  <2>5. /\ d.pool = P /\ d.count = n /\ d.mem = y /\ d.hash = H /\ d.names = N /\ d.tags = T /\ d.sorted = S
        /\ d.hot = c.hot /\ d.hotCount = c.hotCount /\ d \in Structs
    BY <2>1, <2>3, <2>4, FieldsIs
  <2> QED
    BY <2>5 DEF n, y
<1> HIDE DEF x, b
<1>9. \A i \in 1..m : /\ d.pool[b + i].key = items[i].key /\ d.pool[b + i].size = items[i].size
                      /\ ~d.pool[b + i].deleted
  BY <1>3, <1>4, <1>8
<1>10. \A p \in DOMAIN c.pool : d.pool[p] = c.pool[p]
  BY <1>2, <1>4, <1>8
<1>11. Undeleted(d) = Undeleted(c) \union new
  <2>1. DOMAIN d.pool = DOMAIN c.pool \union new
    BY <1>5, <1>8
  <2>2. \A p \in new : ~d.pool[p].deleted
    BY <1>9 DEF Shift
  <2> HIDE DEF new
  <2> QED
    BY <1>10, <2>1, <2>2 DEF Undeleted
<1> HIDE DEF new
<1>12. Cardinality(Undeleted(d)) = Cardinality(Undeleted(c)) + m
  <2>1. Undeleted(c) \intersect new = {}
    BY <1>2, <1>5
  <2>2. Cardinality(Undeleted(c) \union new) =
          Cardinality(Undeleted(c)) + Cardinality(new) - Cardinality(Undeleted(c) \intersect new)
    BY <1>2, <1>6, FS_Union
  <2>3. Cardinality({}) = 0
    BY FS_EmptySet
  <2>4. Cardinality(Undeleted(c)) \in Nat /\ m \in Nat /\ Cardinality(new) = m
    BY <1>1, <1>2, <1>6
  <2>5. Cardinality(Undeleted(c) \intersect new) = 0
    BY <2>1, <2>3, Zenon
  <2>6. Cardinality(Undeleted(d)) = Cardinality(Undeleted(c) \union new)
    BY <1>11, Zenon
  <2> QED
    BY <2>2, <2>4, <2>5, <2>6
<1>13. Bytes(d, Undeleted(d)) = Bytes(c, Undeleted(c)) + x
  <2>1. IsFiniteSet(DOMAIN d.pool) /\ \A p \in DOMAIN d.pool : d.pool[p].size \in Nat
    <3>1. d.pool \in Seq(Entry)
      BY <1>4, <1>8
    <3> QED
      BY <3>1, PoolIs, EntryIs
  <2>2. /\ Undeleted(d) \in SUBSET DOMAIN d.pool /\ new \in SUBSET Undeleted(d)
        /\ Undeleted(d) \ new = Undeleted(c) /\ Undeleted(c) \in SUBSET DOMAIN d.pool
    BY <1>2, <1>5, <1>8, <1>11
  <2>3. Bytes(d, Undeleted(d)) = Bytes(d, new) + Bytes(d, Undeleted(d) \ new)
    BY <2>1, <2>2, BytesFacts
  <2>4. Bytes(d, Undeleted(c)) = Bytes(c, Undeleted(c))
    <3>1. \A p \in Undeleted(c) : c.pool[p].size \in Nat /\ d.pool[p].size = c.pool[p].size
      BY <1>2, <1>10
    <3>2. Undeleted(c) \subseteq DOMAIN c.pool /\ Undeleted(c) \subseteq DOMAIN d.pool
      BY <1>2, <2>2
    <3> QED
      BY <1>2, <3>1, <3>2, BytesSame
  <2>5. Bytes(d, new) = x
    <3>1. Bytes(d, new) = Total(SizeOf(d), new)
      BY <1>6, <2>2, BytesTotal
    <3>2. \A i \in 1..m : SizeOf(d)[b + i] = ItemSizes(items)[i] /\ ItemSizes(items)[i] \in Nat
      <4>1. \A i \in 1..m : b + i \in DOMAIN d.pool
        BY <2>2 DEF new, Shift
      <4> QED
        BY <1>1, <1>9, <4>1 DEF SizeOf, ItemSizes
    <3>3. b \in Nat /\ 1..m \in SUBSET Nat /\ IsFiniteSet(1..m) /\ IsFiniteSet(Shift(b, 1..m))
      BY <1>1, <1>2, <1>6 DEF new
    <3> DEFINE I == 1..m
               f == SizeOf(d)
               g == ItemSizes(items)
    <3>4. /\ \A i \in I : f[b + i] = g[i] /\ g[i] \in Nat
          /\ b \in Nat /\ I \in SUBSET Nat /\ IsFiniteSet(I) /\ IsFiniteSet(Shift(b, I))
      BY <3>2, <3>3
    <3> HIDE DEF I, f, g
    <3>5. Total(f, Shift(b, I)) = Total(g, I)
      BY <3>4, TotalShift
    <3> QED
      BY <3>1, <3>5 DEF new, x, I, f, g
  <2>6. Bytes(d, Undeleted(d)) = x + Bytes(c, Undeleted(c))
    BY <2>2, <2>3, <2>4, <2>5
  <2> QED
    BY <1>2, <1>7, <2>6
<1>14. Bytes(d, Undeleted(d)) <= d.mem /\ d.mem <= MaxMemory
  <2>1. Bytes(c, Undeleted(c)) <= c.mem /\ c.mem + BatchBytes(items) <= MaxMemory
    BY DEF Sound, Fits
  <2> QED
    BY <1>2, <1>7, <1>8, <1>13, <2>1, LimitsAre, SMTT(30)
<1>15. Sound(d)
  <2>1. Len(d.pool) <= PoolMax
    BY <1>0, <1>4, <1>8 DEF b
  <2>2. \A k \in Keys : d.hash[k] \in {0} \union DOMAIN d.pool /\ (d.hash[k] # 0 => d.pool[d.hash[k]].key = k)
    BY <1>0, <1>8
  <2>3. {d.sorted, d.names, d.tags} \subseteq SUBSET DOMAIN d.pool
    BY <1>0, <1>8
  <2>4. /\ \A h \in d.hot : h.at \in DOMAIN d.pool /\ d.pool[h.at].key = h.key
        /\ \A g, h \in d.hot : g.key = h.key => g = h
        /\ IsFiniteSet(d.hot)
    <3>1. /\ \A h \in c.hot : h.at \in DOMAIN c.pool /\ c.pool[h.at].key = h.key
          /\ \A g, h \in c.hot : g.key = h.key => g = h
          /\ IsFiniteSet(c.hot)
      BY DEF Sound
    <3> QED
      BY <1>5, <1>8, <1>10, <3>1
  <2> QED
    BY <1>8, <1>14, <2>1, <2>2, <2>3, <2>4 DEF Sound
<1>16. Exact(d)
  BY <1>8, <1>12 DEF Exact
<1> QED
  BY <1>4, <1>5, <1>8, <1>9, <1>10, <1>11, <1>15, <1>16 DEF b, new

LastOf(items, k) ==
  {i \in DOMAIN items : items[i].key = k /\ \A j \in DOMAIN items : j > i => items[j].key # k}

TogetherHash(c, items) ==
  [k \in Keys |-> IF LastOf(items, k) = {} THEN c.hash[k] ELSE Len(c.pool) + (CHOOSE i \in LastOf(items, k) : TRUE)]

(* The struct after m entries of a batch, before and after the indexes.    *)
PartWritten(c, items, t, m) ==
  Grown(c, Joined(c.pool, NewEntries(items, m, t)), c.count + m, c.mem + Total(ItemSizes(items), 1..m),
        c.hash, c.names, c.tags, c.sorted)

AllWritten(c, items, t, m) ==
  Grown(c, Joined(c.pool, NewEntries(items, m, t)), c.count + m, c.mem + Total(ItemSizes(items), 1..m),
        TogetherHash(c, items), c.names \union Shift(Len(c.pool), 1..m), c.tags \union Shift(Len(c.pool), 1..m),
        c.sorted \union Shift(Len(c.pool), 1..m))

LEMMA TogetherIs ==
  ASSUME NEW c, Sound(c), NEW items \in Batches, NEW t, NEW r, r = Together(c, items, t)
  PROVE  \E m \in 0..Len(items) :
           /\ Len(c.pool) + m <= PoolMax
           /\ \/ m # Len(items) /\ Len(c.pool) + Len(items) > PoolMax
                 /\ r = [c |-> PartWritten(c, items, t, m), ok |-> FALSE, stored |-> 0]
              \/ m = Len(items)
                 /\ r = [c |-> AllWritten(c, items, t, m), ok |-> TRUE, stored |-> Len(items)]
<1> DEFINE b == Len(c.pool)
           n == Len(items)
           m == IF b + n <= PoolMax THEN n ELSE PoolMax - b
           fitting == {i \in DOMAIN items : b + i <= PoolMax}
           new == {b + i : i \in fitting}
           written == [c EXCEPT !.pool  = @ \o [i \in fitting |-> NewEntry(items[i].key, items[i].size, items[i].ttl, t)],
                                !.count = @ + Cardinality(fitting),
                                !.mem   = @ + MapThenSumSet(LAMBDA i : items[i].size, fitting)]
           all == [written EXCEPT !.hash   = [k \in Keys |-> IF LastOf(items, k) = {} THEN @[k]
                                                             ELSE b + (CHOOSE i \in LastOf(items, k) : TRUE)],
                                  !.names  = @ \union new,
                                  !.tags   = @ \union new,
                                  !.sorted = @ \union new]
<1>1. r = IF fitting # DOMAIN items THEN [c |-> written, ok |-> FALSE, stored |-> 0]
          ELSE [c |-> all, ok |-> TRUE, stored |-> n]
  BY Zenon DEF Together, NewEntry, LastOf
<1>2. /\ b \in Nat /\ n \in {1, 2} /\ DOMAIN items = 1..n /\ b <= PoolMax /\ c \in Structs
  BY SoundIs, BatchIs DEF Sound
<1>3. m \in 0..n /\ m \in Nat /\ b + m <= PoolMax /\ (m # n <=> b + n > PoolMax)
  <2> HIDE DEF b, n
  <2> QED
    BY <1>2, LimitsAre
<1>4. fitting = 1..m
  <2> HIDE DEF b, n
  <2>1. \A i \in 1..n : b + i <= PoolMax <=> i \in 1..m
    BY <1>2, LimitsAre
  <2>2. 1..m \subseteq 1..n
    BY <1>2, <1>3
  <2> HIDE DEF m
  <2> QED
    BY <1>2, <2>1, <2>2
<1>5. fitting # DOMAIN items <=> m # n
  <2> HIDE DEF m, n, fitting
  <2>1. 1..m = 1..n => m = n
    <3>1. m # n /\ m \in 0..n => n \in 1..n /\ n \notin 1..m
      BY <1>2, <1>3
    <3> QED
      BY <1>3, <3>1
  <2> QED
    BY <1>2, <1>4, <2>1, Zenon
<1>6. new = Shift(b, 1..m)
  <2> HIDE DEF m, fitting, b
  <2> QED
    BY <1>4, Zenon DEF Shift
<1>7. /\ [i \in fitting |-> NewEntry(items[i].key, items[i].size, items[i].ttl, t)] = NewEntries(items, m, t)
  <2> HIDE DEF m, fitting
  <2> QED
    BY <1>4, Zenon DEF NewEntries
<1>8. Cardinality(fitting) = m
  <2>1. 1 \in Int /\ m \in Int
    BY <1>3
  <2> HIDE DEF m, fitting
  <2>2. Cardinality(1..m) = IF 1 > m THEN 0 ELSE m - 1 + 1
    BY <2>1, FS_Interval
  <2>3. Cardinality(1..m) = m
    BY <1>3, <2>2
  <2> QED
    BY <1>4, <2>3, Zenon
<1>9. MapThenSumSet(LAMBDA i : items[i].size, fitting) = Total(ItemSizes(items), 1..m)
  <2>1. fitting \subseteq DOMAIN items /\ IsFiniteSet(fitting)
    <3>1. IsFiniteSet(DOMAIN items)
      BY BatchIs
    <3> QED
      BY <3>1, FS_Subset
  <2> HIDE DEF m, fitting
  <2>2. MapThenSumSet(LAMBDA i : items[i].size, fitting) = Total(ItemSizes(items), fitting)
    BY <2>1, ItemBytes
  <2> QED
    BY <1>4, <2>2, Zenon
<1> DEFINE P == Joined(c.pool, NewEntries(items, m, t))
           k == c.count + m
           x == c.mem + Total(ItemSizes(items), 1..m)
<1>10. written = [c EXCEPT !.pool = P, !.count = k, !.mem = x]
  <2> HIDE DEF m, fitting
  <2> QED
    BY <1>7, <1>8, <1>9, Zenon DEF Joined
<1> HIDE DEF written, P, k, x, m, fitting, new
<1>11. /\ written.hash = c.hash /\ written.names = c.names /\ written.tags = c.tags /\ written.sorted = c.sorted
       /\ written = Grown(c, P, k, x, c.hash, c.names, c.tags, c.sorted)
  BY <1>2, <1>10 DEF Structs, Grown
<1> DEFINE H == TogetherHash(c, items)
<1>12. all = [written EXCEPT !.hash = H, !.names = c.names \union new, !.tags = c.tags \union new,
                             !.sorted = c.sorted \union new]
  <2> DEFINE G == [key \in Keys |-> IF LastOf(items, key) = {} THEN written.hash[key]
                                    ELSE b + (CHOOSE i \in LastOf(items, key) : TRUE)]
  <2>1. all = [written EXCEPT !.hash = G, !.names = written.names \union new, !.tags = written.tags \union new,
                              !.sorted = written.sorted \union new]
    BY Zenon
  <2>2. G = H
    <3>1. written.hash = c.hash
      BY <1>11
    <3>2. \A key \in Keys : G[key] = H[key]
      BY <3>1 DEF TogetherHash
    <3> QED
      BY <3>2, Zenon DEF TogetherHash
  <2> HIDE DEF all, G, H
  <2> QED
    BY <1>11, <2>1, <2>2, Zenon
<1> HIDE DEF all, H
<1>13. all = Grown(c, P, k, x, H, c.names \union new, c.tags \union new, c.sorted \union new)
  BY <1>10, <1>12 DEF Grown
<1>14. all = AllWritten(c, items, t, m)
  BY <1>6, <1>13, Zenon DEF AllWritten, P, k, x, H
<1>15. written = PartWritten(c, items, t, m)
  BY <1>11, Zenon DEF PartWritten, P, k, x
<1> HIDE DEF n, b
<1>16. CASE m = n
  <2>1. r = [c |-> all, ok |-> TRUE, stored |-> n]
    BY <1>1, <1>5, <1>16
  <2> QED
    BY <1>3, <1>14, <1>16, <2>1 DEF b, n
<1>17. CASE m # n
  <2>1. r = [c |-> written, ok |-> FALSE, stored |-> 0]
    BY <1>1, <1>5, <1>17
  <2> QED
    BY <1>3, <1>15, <1>17, <2>1 DEF b, n
<1> QED
  BY <1>16, <1>17

LEMMA LastIs ==
  ASSUME NEW items \in Batches, NEW k \in Keys
  PROVE  /\ LastOf(items, k) \subseteq DOMAIN items /\ \A i \in LastOf(items, k) : items[i].key = k
         /\ (CHOOSE i \in LastOf(items, k) : TRUE) \in LastOf(items, k) \/ LastOf(items, k) = {}
BY DEF LastOf

(* What cache_batch_set reports as stored, put into l.                     *)
LatestAfter(l, items, r) ==
  [k \in Keys |-> LET mine == {i \in 1..r.stored : items[i].key = k}
                  IN  IF mine = {} THEN l[k] ELSE (Len(r.c.pool) - r.stored) + Max(mine)]

BatchKeys(items) == {items[i].key : i \in DOMAIN items}

LEMMA MaxIs ==
  ASSUME NEW S \in SUBSET {1, 2}, S # {}
  PROVE  Max(S) \in S /\ \A x \in S : x <= Max(S)
<1>1. \E m \in S : \A x \in S : m >= x
  <2>1. CASE 2 \in S
    BY <2>1
  <2>2. CASE 2 \notin S
    <3>1. S = {1}
      BY <2>2
    <3> QED
      BY <3>1
  <2> QED
    BY <2>1, <2>2
<1>2. Max(S) \in S /\ \A x \in S : Max(S) >= x
  BY <1>1 DEF Max
<1>3. Max(S) \in {1, 2} /\ \A x \in S : x \in {1, 2}
  BY <1>2
<1> QED
  BY <1>2, <1>3

LEMMA TogetherSound ==
  ASSUME NEW c, Sound(c), Exact(c), NEW items \in Batches, NEW t \in 1..MaxNow,
         Fits(c, BatchBytes(items)), NEW r, r = Together(c, items, t)
  PROVE  /\ Sound(r.c) /\ Exact(r.c) /\ r.stored \in 0..Len(items) /\ r.stored <= Len(r.c.pool)
         /\ Keeps(c, r.c, {})
         /\ IsCareful(c, items) => \A l : Current(c, l, t) => Current(r.c, LatestAfter(l, items, r), t)
<1>1. PICK m \in 0..Len(items) :
           /\ Len(c.pool) + m <= PoolMax
           /\ \/ m # Len(items) /\ Len(c.pool) + Len(items) > PoolMax
                 /\ r = [c |-> PartWritten(c, items, t, m), ok |-> FALSE, stored |-> 0]
              \/ m = Len(items)
                 /\ r = [c |-> AllWritten(c, items, t, m), ok |-> TRUE, stored |-> Len(items)]
  BY TogetherIs
<1> DEFINE b == Len(c.pool)
           P == Joined(c.pool, NewEntries(items, m, t))
           new == Shift(b, 1..m)
           n == c.count + m
           x == c.mem + Total(ItemSizes(items), 1..m)
<1>2. /\ b \in Nat /\ Len(items) \in {1, 2} /\ DOMAIN items = 1..Len(items) /\ m \in Nat /\ DOMAIN c.pool = 1..b
      /\ \A i \in DOMAIN items : items[i].key \in Keys /\ items[i].size \in Sizes /\ items[i].ttl \in TTLs
      /\ c.hash \in [Keys -> {0} \union DOMAIN c.pool]
  BY SoundIs, BatchIs DEF Sound, Structs
<1>3. Len(c.pool) + Len(items) <= PoolMax => m = Len(items)
  <2>1. m = Len(items) \/ Len(c.pool) + Len(items) > PoolMax
    BY <1>1
  <2>2. Len(c.pool) \in Nat /\ Len(items) \in Nat
    BY <1>2
  <2> QED
    BY <2>1, <2>2, LimitsAre
<1>4. /\ DOMAIN P = 1..(b + m) /\ \A i \in 1..b : P[i] = c.pool[i]
      /\ \A i \in 1..m : P[b + i].key = items[i].key
  <2> DEFINE q == NewEntries(items, m, t)
             p == c.pool
  <2>1. \A i \in 1..m : q[i] = NewEntry(items[i].key, items[i].size, items[i].ttl, t)
    BY DEF NewEntries
  <2>2. \A i \in 1..m : items[i].key \in Keys /\ items[i].size \in Sizes /\ items[i].ttl \in TTLs
    BY <1>2
  <2>3. \A k \in Keys, z \in Sizes, l \in TTLs : NewEntry(k, z, l, t) \in Entry /\ NewEntry(k, z, l, t).key = k
    BY LimitsAre DEF Entry, NewEntry
  <2>4. q = [i \in 1..m |-> q[i]]
    BY DEF NewEntries
  <2>5. p \in Seq(Entry) /\ Len(p) = b
    BY SoundIs
  <2> HIDE DEF q, p, b
  <2>6. \A i \in 1..m : q[i] \in Entry /\ q[i].key = items[i].key
    BY <2>1, <2>2, <2>3
  <2>7. q \in Seq(Entry) /\ Len(q) = m
    <3>1. q \in [1..m -> Entry]
      BY <2>4, <2>6
    <3> QED
      BY <1>2, <3>1
  <2> DEFINE J == Joined(p, q)
  <2>8. /\ DOMAIN J = 1..(Len(p) + Len(q))
        /\ \A i \in 1..Len(p) : J[i] = p[i]
        /\ \A i \in 1..Len(q) : J[Len(p) + i] = q[i]
    BY <2>5, <2>7, JoinedIs
  <2>9. P = J
    BY DEF p, q
  <2> HIDE DEF J, P
  <2> QED
    BY <2>5, <2>6, <2>7, <2>8, <2>9 DEF p
<1> HIDE DEF P
<1>5. /\ DOMAIN c.pool \subseteq DOMAIN P /\ new \subseteq DOMAIN P
      /\ \A k \in Keys : c.hash[k] # 0 => P[c.hash[k]].key = k
  <2>1. DOMAIN c.pool \subseteq DOMAIN P
    BY <1>2, <1>4
  <2>2. new \subseteq DOMAIN P
    BY <1>2, <1>4 DEF Shift
  <2>3. \A k \in Keys : c.hash[k] # 0 => c.hash[k] \in DOMAIN c.pool /\ c.pool[c.hash[k]].key = k
    BY DEF Sound
  <2> QED
    BY <1>2, <1>4, <2>1, <2>2, <2>3
<1>6. c.names \in SUBSET DOMAIN P /\ c.tags \in SUBSET DOMAIN P /\ c.sorted \in SUBSET DOMAIN P
  BY <1>5 DEF Sound
<1>7. CASE m # Len(items)
  <2> DEFINE d == PartWritten(c, items, t, m)
  <2>1. r.c = d /\ r.stored = 0 /\ ~IsCareful(c, items)
    <3>1. r = [c |-> d, ok |-> FALSE, stored |-> 0]
      BY <1>1, <1>7
    <3>2. r.c = d /\ r.stored = 0
      BY <3>1
    <3> QED
      BY <1>3, <1>7, <3>2 DEF IsCareful
  <2>2. c.hash \in [Keys -> {0} \union DOMAIN P]
    BY <1>2, <1>5
  <2>3. d = Grown(c, P, n, x, c.hash, c.names, c.tags, c.sorted)
    BY DEF PartWritten, P
  <2>6. Writes(c, d, items, t, m, P, c.hash, c.names, c.tags, c.sorted)
    <3>1. Len(c.pool) + m <= PoolMax
      BY <1>1
    <3> HIDE DEF d
    <3> QED
      BY <1>5, <1>6, <2>2, <2>3, <3>1 DEF P, Writes
  <2> HIDE DEF d, new, b
  <2>4. /\ Sound(d) /\ Exact(d)
        /\ DOMAIN d.pool = DOMAIN c.pool \union Shift(Len(c.pool), 1..m)
        /\ Undeleted(d) = Undeleted(c) \union Shift(Len(c.pool), 1..m)
        /\ \A p \in DOMAIN c.pool : d.pool[p] = c.pool[p]
        /\ d.hot = c.hot
    BY <2>6, WrittenSound
  <2>5. Keeps(c, d, {})
    BY <2>4 DEF Keeps, Undeleted
  <2> QED
    BY <1>2, <2>1, <2>4, <2>5, SoundIs
<1>8. CASE m = Len(items)
  <2> DEFINE d == AllWritten(c, items, t, m)
             H == TogetherHash(c, items)
  <2>1. r.c = d /\ r.stored = m
    <3>1. r = [c |-> d, ok |-> TRUE, stored |-> Len(items)]
      BY <1>1, <1>8
    <3> QED
      BY <1>8, <3>1
  <2>2. ASSUME NEW k \in Keys
        PROVE  H[k] = IF LastOf(items, k) = {} THEN c.hash[k] ELSE b + (CHOOSE i \in LastOf(items, k) : TRUE)
    BY DEF TogetherHash
  <2>3. \A k \in Keys : LastOf(items, k) # {} => \E i \in 1..m : items[i].key = k /\ H[k] = b + i
    BY <1>2, <1>8, <2>2, LastIs
  <2>4. \A k \in Keys : (H[k] # 0 => P[H[k]].key = k) /\ H[k] \in {0} \union DOMAIN P
    <3>1. ASSUME NEW k \in Keys, LastOf(items, k) = {}
          PROVE  (H[k] # 0 => P[H[k]].key = k) /\ H[k] \in {0} \union DOMAIN P
      <4>1. H[k] = c.hash[k]
        BY <2>2, <3>1
      <4> HIDE DEF H
      <4> QED
        BY <1>2, <1>5, <4>1
    <3>2. ASSUME NEW k \in Keys, LastOf(items, k) # {}
          PROVE  (H[k] # 0 => P[H[k]].key = k) /\ H[k] \in {0} \union DOMAIN P
      <4> HIDE DEF H
      <4>1. PICK i \in 1..m : items[i].key = k /\ H[k] = b + i
        BY <2>3, <3>2
      <4>2. b + i \in new
        BY DEF Shift
      <4> QED
        BY <1>4, <1>5, <4>1, <4>2
    <3> QED
      BY <3>1, <3>2
  <2>5. H \in [Keys -> {0} \union DOMAIN P]
    <3>1. H = [k \in Keys |-> H[k]]
      BY DEF TogetherHash
    <3> HIDE DEF H
    <3> QED
      BY <2>4, <3>1
  <2>6. Writes(c, d, items, t, m, P, H, c.names \union new, c.tags \union new, c.sorted \union new)
    <3>1. Len(c.pool) + m <= PoolMax
      BY <1>1
    <3>2. c.names \union new \in SUBSET DOMAIN P /\ c.tags \union new \in SUBSET DOMAIN P
          /\ c.sorted \union new \in SUBSET DOMAIN P
      BY <1>5, <1>6
    <3>3. d = Grown(c, P, n, x, H, c.names \union new, c.tags \union new, c.sorted \union new)
      BY DEF AllWritten, P
    <3>4. P = Joined(c.pool, NewEntries(items, m, t))
      BY DEF P
    <3> HIDE DEF d, H
    <3> QED
      BY <2>4, <2>5, <3>1, <3>2, <3>3, <3>4 DEF Writes
  <2> HIDE DEF d, H, new, b
  <2>7. /\ Sound(d) /\ Exact(d) /\ Len(d.pool) = Len(c.pool) + m
        /\ DOMAIN d.pool = DOMAIN c.pool \union Shift(Len(c.pool), 1..m)
        /\ Shift(Len(c.pool), 1..m) \intersect DOMAIN c.pool = {}
        /\ Undeleted(d) = Undeleted(c) \union Shift(Len(c.pool), 1..m)
        /\ \A p \in DOMAIN c.pool : d.pool[p] = c.pool[p]
        /\ \A i \in 1..m : d.pool[Len(c.pool) + i].key = items[i].key
        /\ d.hash = H /\ d.names = c.names \union new /\ d.tags = c.tags \union new
        /\ d.sorted = c.sorted \union new /\ d.hot = c.hot
    BY <2>6, WrittenSound
  <2>8. Keeps(c, d, {})
    BY <2>7 DEF Keeps, Undeleted
  <2>9. ASSUME IsCareful(c, items), NEW l, Current(c, l, t) PROVE Current(d, LatestAfter(l, items, r), t)
    <3> DEFINE g == LatestAfter(l, items, r)
    <3>1. new = Shift(Len(c.pool), 1..m) /\ b = Len(c.pool)
      BY DEF new, b
    <3>2. ASSUME NEW i \in 1..m
          PROVE  items[i].key \in Keys /\ H[items[i].key] = b + i /\ g[items[i].key] = b + i
      <4> DEFINE k == items[i].key
                 mine == {j \in 1..r.stored : items[j].key = k}
      <4>1. k \in Keys /\ \A j \in 1..m : items[j].key = k => i = j
        BY <1>2, <1>8, <2>9 DEF IsCareful
      <4>2. i \in LastOf(items, k)
        BY <1>2, <1>8, <4>1 DEF LastOf
      <4>3. H[k] = b + i
        BY <2>3, <4>1, <4>2
      <4>4. mine = {i}
        BY <2>1, <4>1
      <4>5. Max({i}) = i
        <5>1. {i} \in SUBSET {1, 2} /\ {i} # {}
          BY <1>2, <1>8
        <5> QED
          BY <5>1, MaxIs
      <4>6. g[k] = IF mine = {} THEN l[k] ELSE (Len(r.c.pool) - r.stored) + Max(mine)
        BY <4>1 DEF LatestAfter
      <4>7. Max(mine) = i /\ mine # {}
        BY <4>4, <4>5, Zenon
      <4> HIDE DEF mine, g
      <4>8. g[k] = (Len(d.pool) - m) + i
        BY <2>1, <4>6, <4>7
      <4>9. Len(d.pool) = b + m /\ b \in Nat
        BY <1>2, <2>7, <3>1
      <4>10. g[k] = b + i
        BY <1>2, <4>8, <4>9
      <4> QED
        BY <4>1, <4>3, <4>10
    <3>3. ASSUME NEW k \in Keys, \A i \in 1..m : items[i].key # k
          PROVE  H[k] = c.hash[k] /\ g[k] = l[k]
      <4>1. LastOf(items, k) = {}
        BY <1>2, <1>8, <3>3 DEF LastOf
      <4>2. H[k] = c.hash[k]
        BY <2>2, <4>1
      <4>3. {j \in 1..r.stored : items[j].key = k} = {}
        BY <2>1, <3>3
      <4> QED
        BY <4>2, <4>3 DEF LatestAfter
    <3>4. \A o \in new : \E i \in 1..m : o = b + i /\ d.pool[o].key = items[i].key
      BY <2>7, <3>1, ZenonT(30) DEF Shift
    <3>5. \A i \in 1..m : b + i \in new /\ d.pool[b + i].key = items[i].key
      BY <2>7, <3>1 DEF Shift
    <3> HIDE DEF g
    <3>6. Adds(c, d, new)
      <4>1. \A o \in new : d.pool[o].key \in Keys /\ d.hash[d.pool[o].key] = o
        <5>1. ASSUME NEW o \in new PROVE d.pool[o].key \in Keys /\ d.hash[d.pool[o].key] = o
          <6>1. PICK i \in 1..m : o = b + i /\ d.pool[o].key = items[i].key
            BY <3>4
          <6> QED
            BY <2>7, <3>2, <6>1
        <5> QED
          BY <5>1
      <4>2. \A k \in Keys : (\A o \in new : d.pool[o].key # k) => d.hash[k] = c.hash[k]
        <5>1. ASSUME NEW k \in Keys, \A o \in new : d.pool[o].key # k PROVE d.hash[k] = c.hash[k]
          <6>1. \A i \in 1..m : items[i].key # k
            BY <3>5, <5>1
          <6> QED
            BY <2>7, <3>3, <6>1
        <5> QED
          BY <5>1
      <4> QED
        BY <2>7, <3>1, <4>1, <4>2 DEF Adds
    <3>7. new \intersect DOMAIN c.pool = {}
      BY <2>7, <3>1
    <3>8. \A o \in new, p \in Undeleted(c) : c.pool[p].key # d.pool[o].key
      <4>1. \A i \in DOMAIN items, p \in Undeleted(c) : c.pool[p].key # items[i].key
        BY <2>9 DEF IsCareful, OfKey
      <4> QED
        BY <1>2, <1>8, <3>4, <4>1
    <3>9. /\ \A o \in new : g[d.pool[o].key] = o
          /\ \A k \in Keys : (\A o \in new : d.pool[o].key # k) => g[k] = l[k]
      BY <3>2, <3>3, <3>4, <3>5
    <3>10. Current(d, g, t)
      BY <2>9, <3>6, <3>7, <3>8, <3>9, AddsCurrent
    <3> QED
      BY <3>10 DEF g
  <2>10. m <= Len(d.pool) /\ m \in 0..Len(items)
    BY <1>2, <2>7, SoundIs
  <2> QED
    BY <2>1, <2>7, <2>8, <2>9, <2>10
<1> QED
  BY <1>7, <1>8

(* The fallback, one item further.                                         *)
OneMore(R, items, i, t) ==
  UNION {IF ~r.ok THEN {r}
         ELSE {[c |-> s.c, ok |-> s.ok, stored |-> r.stored + (IF s.ok THEN 1 ELSE 0)]
                 : s \in SetResults(r.c, items[i].key, items[i].size, items[i].ttl, t)}
         : r \in R}

Started(c) == [c |-> c, ok |-> TRUE, stored |-> 0]

LEMMA OneByOneIs ==
  ASSUME NEW c, NEW items, Len(items) \in {1, 2}, NEW t
  PROVE  OneByOne(c, items, t) = IF Len(items) = 1 THEN OneMore({Started(c)}, items, 1, t)
                                 ELSE OneMore(OneMore({Started(c)}, items, 1, t), items, 2, t)
<1> DEFINE n == Len(items)
           none == {Started(c)}
           IsAfter(f) == f = [i \in 0..n |-> IF i = 0 THEN none ELSE OneMore(f[i - 1], items, i, t)]
           after == CHOOSE f : IsAfter(f)
           one == OneMore(none, items, 1, t)
           two == OneMore(one, items, 2, t)
           g == [i \in 0..n |-> IF i = 0 THEN none ELSE IF i = 1 THEN one ELSE two]
<1>1. OneByOne(c, items, t) = after[n]
  BY Zenon DEF OneByOne, OneMore, Started
<1>2. g = [i \in 0..n |-> IF i = 0 THEN none ELSE OneMore(g[i - 1], items, i, t)]
  <2>1. ASSUME NEW i \in 0..n PROVE g[i] = IF i = 0 THEN none ELSE OneMore(g[i - 1], items, i, t)
    <3>1. i \in {0, 1, 2}
      OBVIOUS
    <3>2. CASE i = 0
      BY <3>2
    <3>3. CASE i = 1
      <4>1. i - 1 = 0 /\ g[0] = none
        BY <3>3
      <4>2. g[i] = one
        BY <3>3
      <4> HIDE DEF g, none
      <4> QED
        BY <3>3, <4>1, <4>2, Zenon
    <3>4. CASE i = 2
      <4>1. i # 0 /\ i - 1 = 1 /\ g[1] = one
        BY <3>4
      <4>2. g[i] = two
        BY <3>4
      <4> HIDE DEF g, none, one
      <4> QED
        BY <3>4, <4>1, <4>2, Zenon
    <3> QED
      BY <3>1, <3>2, <3>3, <3>4
  <2>2. g = [i \in 0..n |-> g[i]]
    OBVIOUS
  <2> HIDE DEF g
  <2> QED
    BY <2>1, <2>2
<1>3. IsAfter(after)
  <2>1. IsAfter(g)
    <3> HIDE DEF g
    <3> QED
      BY <1>2
  <2> HIDE DEF IsAfter, g
  <2> QED
    BY <2>1
<1> HIDE DEF after, none
<1>4. after[0] = none /\ after[1] = OneMore(after[0], items, 1, t)
  BY <1>3
<1>5. n = 2 => after[2] = OneMore(after[1], items, 2, t)
  BY <1>3
<1>6. after[1] = one
  BY <1>4, Zenon
<1>7. CASE n = 1
  <2>1. OneByOne(c, items, t) = one
    BY <1>1, <1>6, <1>7, Zenon
  <2> QED
    BY <1>7, <2>1, Zenon DEF none
<1>8. CASE n = 2
  <2>1. OneByOne(c, items, t) = two
    BY <1>1, <1>5, <1>6, <1>8, Zenon
  <2>2. n # 1
    BY <1>8
  <2> QED
    BY <2>1, <2>2, Zenon DEF none
<1> QED
  BY <1>7, <1>8

(* What holds after i items of the fallback.                               *)
DoneTo(c, items, t, i, r) ==
  /\ Sound(r.c) /\ Exact(r.c) /\ r.ok \in BOOLEAN /\ r.stored \in 0..i /\ (r.ok => r.stored = i)
  /\ Len(r.c.pool) = Len(c.pool) + r.stored
  /\ Keeps(c, r.c, BatchKeys(items))
  /\ \A l : l \in [Keys -> Nat] /\ Current(c, l, t) => Current(r.c, LatestAfter(l, items, r), t)

LEMMA LatestType ==
  ASSUME NEW items \in Batches, NEW r, NEW n \in Nat, r.stored \in 0..Len(items), Len(r.c.pool) = n + r.stored,
         NEW l \in [Keys -> Nat]
  PROVE  /\ LatestAfter(l, items, r) \in [Keys -> Nat]
         /\ \A k \in Keys : LatestAfter(l, items, r)[k] \in {l[k]} \union 1..Len(r.c.pool)
<1>1. Len(items) \in {1, 2}
  BY BatchIs
<1>2. ASSUME NEW k \in Keys
      PROVE  LatestAfter(l, items, r)[k] \in Nat /\ LatestAfter(l, items, r)[k] \in {l[k]} \union 1..Len(r.c.pool)
  <2> DEFINE mine == {i \in 1..r.stored : items[i].key = k}
  <2>1. LatestAfter(l, items, r)[k] = IF mine = {} THEN l[k] ELSE (Len(r.c.pool) - r.stored) + Max(mine)
    BY DEF LatestAfter
  <2>2. mine \in SUBSET {1, 2} /\ \A i \in mine : i \in 1..r.stored
    BY <1>1
  <2> HIDE DEF mine
  <2>3. CASE mine = {}
    BY <2>1, <2>3
  <2>4. CASE mine # {}
    <3>1. Max(mine) \in 1..r.stored
      BY <2>2, <2>4, MaxIs
    <3>2. LatestAfter(l, items, r)[k] = (Len(r.c.pool) - r.stored) + Max(mine)
      BY <2>1, <2>4
    <3>3. r.stored \in Nat
      BY <1>1
    <3> QED
      BY <3>1, <3>2, <3>3
  <2> QED
    BY <2>3, <2>4
<1>3. LatestAfter(l, items, r) = [k \in Keys |-> LatestAfter(l, items, r)[k]]
  BY DEF LatestAfter
<1> QED
  BY <1>2, <1>3

LEMMA OneMoreDone ==
  ASSUME NEW c, Sound(c), NEW items \in Batches, NEW t \in 1..MaxNow, NEW i \in DOMAIN items,
         NEW R, \A r \in R : DoneTo(c, items, t, i - 1, r),
         NEW q \in OneMore(R, items, i, t)
  PROVE  DoneTo(c, items, t, i, q)
<1> DEFINE k == items[i].key
<1>1. PICK r \in R : q \in IF ~r.ok THEN {r}
                           ELSE {[c |-> s.c, ok |-> s.ok, stored |-> r.stored + (IF s.ok THEN 1 ELSE 0)]
                                   : s \in SetResults(r.c, items[i].key, items[i].size, items[i].ttl, t)}
  BY DEF OneMore
<1>2. /\ i \in Nat /\ i >= 1 /\ k \in Keys /\ items[i].size \in Sizes /\ items[i].ttl \in TTLs
      /\ Len(items) \in {1, 2} /\ i \in 1..Len(items) /\ Len(c.pool) \in Nat
  BY BatchIs, SoundIs
<1>3. /\ Sound(r.c) /\ Exact(r.c) /\ r.ok \in BOOLEAN /\ r.stored \in 0..(i - 1) /\ (r.ok => r.stored = i - 1)
      /\ Len(r.c.pool) = Len(c.pool) + r.stored
      /\ Keeps(c, r.c, BatchKeys(items))
      /\ \A l : l \in [Keys -> Nat] /\ Current(c, l, t) => Current(r.c, LatestAfter(l, items, r), t)
  BY DEF DoneTo
<1>4. CASE ~r.ok
  <2>1. q = r
    BY <1>1, <1>4
  <2> QED
    BY <1>2, <1>3, <1>4, <2>1 DEF DoneTo
<1>5. ASSUME r.ok, NEW s \in SetResults(r.c, items[i].key, items[i].size, items[i].ttl, t),
             q = [c |-> s.c, ok |-> s.ok, stored |-> r.stored + (IF s.ok THEN 1 ELSE 0)]
      PROVE  DoneTo(c, items, t, i, q)
  <2>1. q.c = s.c /\ q.ok = s.ok /\ q.stored = r.stored + (IF s.ok THEN 1 ELSE 0)
    BY <1>5
  <2>2. /\ Sound(s.c) /\ Exact(s.c) /\ s.ok \in BOOLEAN /\ Keeps(r.c, s.c, {items[i].key})
        /\ Len(s.c.pool) = IF s.ok THEN Len(r.c.pool) + 1 ELSE Len(r.c.pool)
        /\ \A l : l \in [Keys -> Nat] /\ Current(r.c, l, t) =>
                    Current(s.c, IF s.ok THEN [l EXCEPT ![items[i].key] = Len(s.c.pool)] ELSE l, t)
    BY <1>2, <1>3, <1>5, SetSound
  <2>3. r.stored = i - 1
    BY <1>3, <1>5
  <2>4. /\ q.stored \in 0..i /\ (q.ok => q.stored = i) /\ Len(q.c.pool) = Len(c.pool) + q.stored
        /\ q.stored \in 0..Len(items) /\ r.stored \in 0..Len(items)
    BY <1>2, <1>3, <2>1, <2>2, <2>3, SMTT(30)
  <2>5. Keeps(c, q.c, BatchKeys(items))
    <3>1. k \in BatchKeys(items)
      BY DEF BatchKeys
    <3>2. Keeps(r.c, s.c, BatchKeys(items))
      BY <2>2, <3>1 DEF Keeps
    <3> QED
      BY <1>3, <2>1, <3>2, KeepsTwice
  <2>6. ASSUME NEW l \in [Keys -> Nat], Current(c, l, t) PROVE Current(q.c, LatestAfter(l, items, q), t)
    <3> DEFINE a == LatestAfter(l, items, r)
               b == LatestAfter(l, items, q)
    <3>1. a \in [Keys -> Nat] /\ b \in [Keys -> Nat]
      BY <1>2, <1>3, <2>4, LatestType
    <3>2. Current(r.c, a, t)
      BY <1>3, <2>6
    <3>3. ASSUME NEW j \in Keys PROVE b[j] = IF s.ok /\ j = k THEN Len(s.c.pool) ELSE a[j]
      <4> DEFINE was == {x \in 1..r.stored : items[x].key = j}
                 is == {x \in 1..q.stored : items[x].key = j}
      <4>1. /\ a[j] = IF was = {} THEN l[j] ELSE (Len(r.c.pool) - r.stored) + Max(was)
            /\ b[j] = IF is = {} THEN l[j] ELSE (Len(q.c.pool) - q.stored) + Max(is)
        BY DEF LatestAfter
      <4>2. Len(q.c.pool) - q.stored = Len(c.pool) /\ Len(r.c.pool) - r.stored = Len(c.pool)
        BY <1>2, <1>3, <2>4, SMTT(30)
      <4>3. CASE ~(s.ok /\ j = k)
        <5>1. is = was
          <6>1. CASE ~s.ok
            <7>1. q.stored = r.stored
              BY <2>1, <2>3, <1>2, <6>1
            <7> QED
              BY <7>1, Zenon
          <6>2. CASE s.ok
            <7>1. q.stored = i /\ r.stored = i - 1 /\ items[i].key # j
              BY <1>2, <2>1, <2>3, <4>3, <6>2
            <7> QED
              BY <1>2, <7>1
          <6> QED
            BY <6>1, <6>2
        <5> HIDE DEF is, was, a, b
        <5> QED
          BY <4>1, <4>2, <4>3, <5>1, Zenon
      <4>4. CASE s.ok /\ j = k
        <5>1. q.stored = i
          BY <2>1, <2>4, <4>4
        <5>2. is \in SUBSET {1, 2} /\ i \in is /\ \A x \in is : x <= i
          BY <1>2, <4>4, <5>1
        <5> HIDE DEF is, was, a, b
        <5>3. Max(is) = i
          <6>1. Max(is) \in is /\ i <= Max(is)
            BY <5>2, MaxIs
          <6> DEFINE m == Max(is)
          <6>2. m \in is /\ i <= m
            BY <6>1
          <6> HIDE DEF m
          <6>3. m \in {1, 2} /\ m <= i
            BY <5>2, <6>2
          <6>4. m = i
            BY <1>2, <6>2, <6>3
          <6> QED
            BY <6>4 DEF m
        <5>4. b[j] = Len(c.pool) + i
          BY <4>1, <4>2, <5>2, <5>3
        <5>5. Len(s.c.pool) = Len(c.pool) + i
          BY <2>1, <2>4, <5>1
        <5> QED
          BY <4>4, <5>4, <5>5
      <4> QED
        BY <4>3, <4>4
    <3>4. b = IF s.ok THEN [a EXCEPT ![items[i].key] = Len(s.c.pool)] ELSE a
      <4> HIDE DEF a, b
      <4>1. CASE s.ok
        BY <3>1, <3>3, <4>1
      <4>2. CASE ~s.ok
        BY <3>1, <3>3, <4>2
      <4> QED
        BY <4>1, <4>2
    <3> HIDE DEF a, b
    <3>5. Current(s.c, b, t)
      BY <2>2, <3>1, <3>2, <3>4, Zenon
    <3> QED
      BY <2>1, <3>5 DEF b
  <2> QED
    BY <2>1, <2>2, <2>4, <2>5, <2>6 DEF DoneTo
<1> QED
  BY <1>1, <1>4, <1>5

LEMMA BatchSound ==
  ASSUME NEW c, Sound(c), Exact(c), NEW items \in Batches, NEW t \in 1..MaxNow, NEW r \in BatchResults(c, items, t)
  PROVE  /\ Sound(r.c) /\ Exact(r.c) /\ r.stored \in 0..Len(items) /\ r.stored <= Len(r.c.pool)
         /\ Keeps(c, r.c, BatchKeys(items))
         /\ IsCareful(c, items) => \A l : l \in [Keys -> Nat] /\ Current(c, l, t) =>
                                            Current(r.c, LatestAfter(l, items, r), t)
<1> DEFINE need == BatchBytes(items)
<1>1. PICK d \in UNION {Unindexed(c, E) : E \in Victims(c, need, Evictable(c))} :
             r \in IF Fits(d, need) THEN {Together(d, items, t)} ELSE OneByOne(d, items, t)
  BY DEF BatchResults
<1>2. Evicted(c, d, need)
  BY DEF Evicted
<1>3. /\ Sound(d) /\ Exact(d) /\ Len(d.pool) = Len(c.pool) /\ Keeps(c, d, {})
      /\ \A o \in Undeleted(d) : o \in Undeleted(c) /\ d.pool[o].key = c.pool[o].key
      /\ \A l : Current(c, l, t) => Current(d, l, t)
  <2> HIDE DEF need
  <2> QED
    BY <1>2, EvictedSound
<1>4. IsCareful(c, items) => IsCareful(d, items)
  <2>1. ASSUME IsCareful(c, items), NEW i \in DOMAIN items PROVE OfKey(d, Undeleted(d), items[i].key) = {}
    <3>1. OfKey(c, Undeleted(c), items[i].key) = {}
      BY <2>1 DEF IsCareful
    <3> QED
      BY <1>3, <3>1 DEF OfKey
  <2> QED
    BY <1>3, <2>1 DEF IsCareful
<1>5. Keeps(c, d, BatchKeys(items))
  BY <1>3 DEF Keeps
<1>6. CASE Fits(d, need)
  <2>1. r = Together(d, items, t)
    BY <1>1, <1>6
  <2>2. /\ Sound(r.c) /\ Exact(r.c) /\ r.stored \in 0..Len(items) /\ r.stored <= Len(r.c.pool)
        /\ Keeps(d, r.c, {})
        /\ IsCareful(d, items) => \A l : Current(d, l, t) => Current(r.c, LatestAfter(l, items, r), t)
    BY <1>3, <1>6, <2>1, TogetherSound
  <2>3. Keeps(d, r.c, BatchKeys(items))
    BY <2>2 DEF Keeps
  <2>4. Keeps(c, r.c, BatchKeys(items))
    BY <1>5, <2>3, KeepsTwice
  <2> QED
    BY <1>3, <1>4, <2>2, <2>4
<1>7. CASE ~Fits(d, need)
  <2>1. r \in OneByOne(d, items, t)
    BY <1>1, <1>7
  <2>2. Len(items) \in {1, 2} /\ DOMAIN items = 1..Len(items) /\ Len(d.pool) \in Nat
    BY <1>3, BatchIs, SoundIs
  <2>3. DoneTo(d, items, t, 0, Started(d))
    <3> DEFINE z == Started(d)
    <3>1. z.c = d /\ z.ok = TRUE /\ z.stored = 0
      BY DEF Started
    <3>2. Keeps(d, d, BatchKeys(items))
      BY DEF Keeps
    <3>3. ASSUME NEW l \in [Keys -> Nat] PROVE LatestAfter(l, items, z) = l
      <4>1. \A k \in Keys : {i \in 1..z.stored : items[i].key = k} = {}
        BY <3>1
      <4>2. \A k \in Keys : LatestAfter(l, items, z)[k] = l[k]
        BY <4>1 DEF LatestAfter
      <4>3. LatestAfter(l, items, z) = [k \in Keys |-> LatestAfter(l, items, z)[k]]
        BY DEF LatestAfter
      <4> QED
        BY <4>2, <4>3
    <3> HIDE DEF z
    <3>4. \A l : l \in [Keys -> Nat] /\ Current(d, l, t) => Current(z.c, LatestAfter(l, items, z), t)
      BY <3>1, <3>3, Zenon
    <3>5. Len(z.c.pool) = Len(d.pool) + z.stored /\ z.ok \in BOOLEAN /\ z.stored \in 0..0
      <4>1. Len(z.c.pool) = Len(d.pool)
        BY <3>1, Zenon
      <4>2. Len(d.pool) = Len(d.pool) + 0
        BY <2>2
      <4>3. Len(z.c.pool) = Len(d.pool) + z.stored
        BY <3>1, <4>1, <4>2, Zenon
      <4>4. z.ok \in BOOLEAN
        BY <3>1, Zenon
      <4>5. z.stored \in 0..0
        BY <3>1
      <4> QED
        BY <4>3, <4>4, <4>5
    <3>6. Sound(z.c) /\ Exact(z.c) /\ Keeps(d, z.c, BatchKeys(items))
      BY <1>3, <3>1, <3>2, Zenon
    <3>7. DoneTo(d, items, t, 0, z)
      BY <3>1, <3>4, <3>5, <3>6 DEF DoneTo
    <3> QED
      BY <3>7 DEF z
  <2> DEFINE R == {Started(d)}
             first == OneMore(R, items, 1, t)
  <2>4. OneByOne(d, items, t) = IF Len(items) = 1 THEN first ELSE OneMore(first, items, 2, t)
    <3>1. Len(items) \in {1, 2}
      BY <2>2
    <3> QED
      BY <3>1, OneByOneIs
  <2>5. \A q \in R : DoneTo(d, items, t, 0, q)
    BY <2>3
  <2> HIDE DEF R
  <2>6. ASSUME NEW q \in first PROVE DoneTo(d, items, t, 1, q)
    <3>1. \A x \in R : DoneTo(d, items, t, 1 - 1, x)
      BY <2>5
    <3>2. 1 \in DOMAIN items
      BY <2>2
    <3> QED
      BY <1>3, <3>1, <3>2, OneMoreDone
  <2> HIDE DEF first
  <2>7. DoneTo(d, items, t, Len(items), r)
    <3>1. CASE Len(items) = 1
      BY <2>1, <2>4, <2>6, <3>1
    <3>2. CASE Len(items) = 2
      <4>1. \A x \in first : DoneTo(d, items, t, 2 - 1, x)
        BY <2>6
      <4>2. 2 \in DOMAIN items
        BY <2>2, <3>2
      <4>3. r \in OneMore(first, items, 2, t)
        BY <2>1, <2>4, <3>2
      <4>4. DoneTo(d, items, t, 2, r)
        BY <1>3, <4>1, <4>2, <4>3, OneMoreDone
      <4> QED
        BY <3>2, <4>4
    <3> QED
      BY <2>2, <3>1, <3>2
  <2>8. /\ Sound(r.c) /\ Exact(r.c) /\ r.stored \in 0..Len(items)
        /\ Len(r.c.pool) = Len(d.pool) + r.stored
        /\ Keeps(d, r.c, BatchKeys(items))
        /\ \A l : l \in [Keys -> Nat] /\ Current(d, l, t) => Current(r.c, LatestAfter(l, items, r), t)
    BY <2>7 DEF DoneTo
  <2>9. r.stored <= Len(r.c.pool)
    BY <2>2, <2>8
  <2>10. Keeps(c, r.c, BatchKeys(items))
    BY <1>5, <2>8, KeepsTwice
  <2> QED
    BY <1>3, <2>8, <2>9, <2>10
<1> QED
  BY <1>6, <1>7

-----------------------------------------------------------------------------
(* Look-ups, expiry, compaction and cache_del_namespace.                   *)

(* What flagging leaves of the entries.                                    *)
LEMMA MarkedEntries ==
  ASSUME NEW c, Sound(c), NEW D,
         NEW P, P = [o \in DOMAIN c.pool |-> IF o \in D THEN Flagged(c.pool[o]) ELSE c.pool[o]]
  PROVE  /\ DOMAIN P = DOMAIN c.pool
         /\ \A o \in DOMAIN c.pool : /\ P[o].key = c.pool[o].key /\ P[o].size = c.pool[o].size
                                     /\ P[o].deleted = (o \in D \/ c.pool[o].deleted)
                                     /\ P[o].expire = c.pool[o].expire /\ P[o] \in Entry
<1>1. ASSUME NEW o \in DOMAIN c.pool
      PROVE  /\ P[o].key = c.pool[o].key /\ P[o].size = c.pool[o].size
             /\ P[o].deleted = (o \in D \/ c.pool[o].deleted)
             /\ P[o].expire = c.pool[o].expire /\ P[o] \in Entry
  <2>1. c.pool[o] \in Entry /\ c.pool[o].deleted \in BOOLEAN
    BY SoundIs
  <2>2. CASE o \in D
    <3>1. P[o] = Flagged(c.pool[o])
      BY <2>2
    <3>2. /\ P[o] \in Entry /\ P[o].deleted /\ P[o].key = c.pool[o].key /\ P[o].size = c.pool[o].size
          /\ P[o].expire = c.pool[o].expire
      BY <2>1, <3>1, FlaggedIs
    <3>3. P[o].deleted \in BOOLEAN
      BY <3>2, EntryIs
    <3>4. P[o].deleted = (o \in D \/ c.pool[o].deleted)
      BY <2>2, <3>2, <3>3, Zenon
    <3> QED
      BY <3>2, <3>4
  <2>3. CASE o \notin D
    <3>1. P[o] = c.pool[o]
      BY <2>3
    <3>2. P[o].deleted = (o \in D \/ c.pool[o].deleted)
      BY <2>1, <2>3, <3>1, Zenon
    <3> QED
      BY <2>1, <3>1, <3>2
  <2> QED
    BY <2>2, <2>3
<1> QED
  BY <1>1

LEMMA GoneCounts ==
  ASSUME NEW c, Sound(c), Exact(c), NEW D \in SUBSET Undeleted(c)
  PROVE  /\ IsFiniteSet(D) /\ Cardinality(D) \in Nat
         /\ c.count - Cardinality(D) \in Nat /\ c.count - Cardinality(D) = Cardinality(Undeleted(c) \ D)
         /\ Bytes(c, D) \in Nat /\ c.mem - Bytes(c, D) \in Nat
         /\ Bytes(c, Undeleted(c) \ D) \in Nat /\ Bytes(c, Undeleted(c) \ D) <= c.mem - Bytes(c, D)
<1>1. /\ Undeleted(c) \subseteq DOMAIN c.pool /\ IsFiniteSet(Undeleted(c)) /\ Cardinality(Undeleted(c)) \in Nat
      /\ IsFiniteSet(DOMAIN c.pool) /\ \A o \in DOMAIN c.pool : c.pool[o].size \in Nat
      /\ c.mem \in Nat /\ Bytes(c, Undeleted(c)) <= c.mem /\ c.count = Cardinality(Undeleted(c))
  BY SoundIs DEF Sound, Exact
<1>2. IsFiniteSet(D) /\ Cardinality(D) <= Cardinality(Undeleted(c))
  BY <1>1, FS_Subset
<1>3. Cardinality(D) \in Nat
  BY <1>2, FS_CardinalityType
<1>4. Undeleted(c) \intersect D = D
  OBVIOUS
<1>5. Cardinality(Undeleted(c) \ D) = Cardinality(Undeleted(c)) - Cardinality(Undeleted(c) \intersect D)
  BY <1>1, FS_Difference
<1>6. Cardinality(Undeleted(c) \ D) = c.count - Cardinality(D)
  BY <1>1, <1>4, <1>5, Zenon
<1>7. /\ Undeleted(c) \in SUBSET DOMAIN c.pool /\ D \in SUBSET DOMAIN c.pool
      /\ Undeleted(c) \ D \in SUBSET DOMAIN c.pool
  BY <1>1
<1>8. /\ Bytes(c, D) \in Nat /\ Bytes(c, Undeleted(c) \ D) \in Nat
      /\ Bytes(c, Undeleted(c)) = Bytes(c, D) + Bytes(c, Undeleted(c) \ D)
  <2>1. /\ \A S \in SUBSET DOMAIN c.pool : Bytes(c, S) \in Nat
        /\ \A S \in SUBSET DOMAIN c.pool : \A T \in SUBSET S : Bytes(c, S) = Bytes(c, T) + Bytes(c, S \ T)
    BY <1>1, BytesFacts
  <2> QED
    BY <1>7, <2>1
<1> QED
  BY <1>1, <1>2, <1>3, <1>6, <1>8

(* The hot cache of a struct.                                              *)
HotSound(c) ==
  /\ IsFiniteSet(c.hot) /\ c.hotCount = Cardinality(c.hot) /\ c.hotCount <= HotSize
  /\ \A h \in c.hot : h.at \in DOMAIN c.pool /\ c.pool[h.at].key = h.key
  /\ \A g, h \in c.hot : g.key = h.key => g = h

(* The entries of D are flagged, lists may have become shorter; the hot    *)
(* cache and what is in the flagged entries is left open.                  *)
Gone(c, d, D) ==
  /\ DOMAIN d.pool = DOMAIN c.pool
  /\ \A o \in DOMAIN c.pool : /\ d.pool[o].key = c.pool[o].key /\ d.pool[o].size = c.pool[o].size
                              /\ d.pool[o].deleted = (o \in D \/ c.pool[o].deleted)
                              /\ o \notin D => d.pool[o].expire = c.pool[o].expire
  /\ \A k \in Keys : d.hash[k] \in {0, c.hash[k]}
  /\ d.sorted \subseteq c.sorted /\ d.names \subseteq c.names /\ d.tags \subseteq c.tags
  /\ d.mem \in {c.mem, c.mem - Bytes(c, D)}

LEMMA GoneSound ==
  ASSUME NEW c, Sound(c), Exact(c), NEW D \in SUBSET Undeleted(c), NEW d \in Structs, Gone(c, d, D), HotSound(d)
  PROVE  /\ Sound(d) /\ Undeleted(d) = Undeleted(c) \ D /\ Len(d.pool) = Len(c.pool)
         /\ d.count = c.count - Cardinality(D) => Exact(d)
<1>1. /\ c.pool \in Seq(Entry) /\ d.pool \in Seq(Entry) /\ Len(c.pool) \in Nat /\ Len(d.pool) \in Nat
      /\ DOMAIN c.pool = 1..Len(c.pool) /\ DOMAIN d.pool = 1..Len(d.pool)
      /\ IsFiniteSet(DOMAIN c.pool) /\ Undeleted(c) \subseteq DOMAIN c.pool
      /\ \A o \in DOMAIN c.pool : c.pool[o].size \in Nat
      /\ c.mem \in Nat /\ Len(c.pool) <= PoolMax /\ c.mem <= MaxMemory
  <2>1. d.pool \in Seq(Entry)
    BY DEF Structs
  <2>2. c.mem <= MaxMemory /\ Len(c.pool) <= PoolMax
    BY DEF Sound
  <2> QED
    BY <2>1, <2>2, SoundIs
<1>2. Len(d.pool) = Len(c.pool)
  <2>1. 1..Len(d.pool) = 1..Len(c.pool)
    BY <1>1 DEF Gone
  <2>2. \A m, n \in Nat : 1..m = 1..n => m = n
    <3>1. ASSUME NEW m \in Nat, NEW n \in Nat, 1..m = 1..n PROVE m = n
      <4>1. m > n => m \in 1..m /\ m \notin 1..n
        OBVIOUS
      <4>2. n > m => n \in 1..n /\ n \notin 1..m
        OBVIOUS
      <4> QED
        BY <3>1, <4>1, <4>2
    <3> QED
      BY <3>1
  <2> QED
    BY <1>1, <2>1, <2>2
<1>3. Undeleted(d) = Undeleted(c) \ D
  BY DEF Undeleted, Gone
<1>4. /\ Cardinality(D) \in Nat
      /\ c.count - Cardinality(D) = Cardinality(Undeleted(c) \ D)
      /\ Bytes(c, D) \in Nat /\ c.mem - Bytes(c, D) \in Nat
      /\ Bytes(c, Undeleted(c) \ D) \in Nat /\ Bytes(c, Undeleted(c) \ D) <= c.mem - Bytes(c, D)
  BY GoneCounts
<1>5. Bytes(d, Undeleted(d)) = Bytes(c, Undeleted(c) \ D)
  <2> DEFINE S == Undeleted(c) \ D
  <2>1. IsFiniteSet(S) /\ S \subseteq DOMAIN c.pool /\ S \subseteq DOMAIN d.pool
    BY <1>1, FS_Subset DEF Gone
  <2>2. \A o \in S : c.pool[o].size \in Nat /\ d.pool[o].size = c.pool[o].size
    BY <1>1 DEF Gone
  <2> HIDE DEF S
  <2>3. Bytes(d, S) = Bytes(c, S)
    BY <2>1, <2>2, BytesSame
  <2> QED
    BY <1>3, <2>3, Zenon DEF S
<1>6. Bytes(d, Undeleted(d)) <= d.mem /\ d.mem <= MaxMemory
  <2>1. d.mem = c.mem \/ d.mem = c.mem - Bytes(c, D)
    BY DEF Gone
  <2> QED
    BY <1>1, <1>4, <1>5, <2>1, LimitsAre
<1>7. \A k \in Keys : /\ d.hash[k] \in {0} \union DOMAIN d.pool
                      /\ d.hash[k] # 0 => d.pool[d.hash[k]].key = k
  BY DEF Sound, Gone
<1>8. {d.sorted, d.names, d.tags} \subseteq SUBSET DOMAIN d.pool
  BY DEF Sound, Gone
<1>9. Sound(d)
  BY <1>1, <1>2, <1>6, <1>7, <1>8 DEF Sound, HotSound
<1>10. d.count = c.count - Cardinality(D) => Exact(d)
  <2>1. SUFFICES ASSUME d.count = c.count - Cardinality(D) PROVE d.count = Cardinality(Undeleted(d))
    BY DEF Exact, HotSound
  <2> QED
    BY <1>3, <1>4, <2>1, Zenon
<1> QED
  BY <1>2, <1>3, <1>9, <1>10

(* What calls rewrite of the struct, each under a name.                    *)
WithHot(c, hot) == [c EXCEPT !.hot = hot, !.hotCount = Cardinality(hot)]
Strayed(c, o) == [c EXCEPT !.hotCount = HotSize + 1, !.count = OffsetOf(o)]
WithAccess(c, o, t) == [c EXCEPT !.pool[o].access = t]

(* A look-up of k leaves one slot new at most, and that one is k's.        *)
Unique(hot) == \A g, h \in hot : g.key = h.key => g = h

NewSlot(c, k, t, s) ==
  s \in Slots /\ s.key = k /\ s.used = t /\ s.at \in DOMAIN c.pool /\ c.pool[s.at].key = k

HotTurn(c, hot, k, t) ==
  /\ \E s : NewSlot(c, k, t, s) /\ hot \subseteq c.hot \union {s}
  /\ Cardinality(hot) <= HotSize /\ Unique(hot)

LEMMA HotTurnSound ==
  ASSUME NEW c, c.hot \in SUBSET Slots, HotSound(c), NEW k, NEW t, NEW d, HotTurn(c, d.hot, k, t),
         d.hotCount = Cardinality(d.hot), DOMAIN d.pool = DOMAIN c.pool,
         \A o \in DOMAIN c.pool : d.pool[o].key = c.pool[o].key
  PROVE  /\ HotSound(d) /\ d.hot \in SUBSET Slots
         /\ \A n \in Nat : Heat(c, t, n) /\ t \in Nat => Heat(d, t, n + 1)
<1>1. PICK s : NewSlot(c, k, t, s) /\ d.hot \subseteq c.hot \union {s}
  BY DEF HotTurn
<1>2. IsFiniteSet(c.hot)
  BY DEF HotSound
<1>3. IsFiniteSet(c.hot \union {s})
  BY <1>2, FS_AddElement
<1>4. IsFiniteSet(d.hot)
  BY <1>1, <1>3, FS_Subset
<1>5. \A h \in d.hot : h.at \in DOMAIN d.pool /\ d.pool[h.at].key = h.key
  BY <1>1 DEF HotSound, NewSlot
<1>6. HotSound(d)
  BY <1>4, <1>5 DEF HotSound, HotTurn, Unique
<1>7. ASSUME NEW n \in Nat, Heat(c, t, n), t \in Nat PROVE Heat(d, t, n + 1)
  <2>1. \A h \in d.hot : h.used <= t
    BY <1>1, <1>7 DEF Heat, NewSlot
  <2>2. Fresh(c, t) \subseteq c.hot /\ Fresh(d, t) \subseteq Fresh(c, t) \union {s}
    BY <1>1 DEF Fresh
  <2>3. IsFiniteSet(Fresh(c, t)) /\ Cardinality(Fresh(c, t)) \in Nat
    BY <1>2, <2>2, FS_Subset, FS_CardinalityType
  <2> DEFINE A == Fresh(c, t)
             B == Fresh(d, t)
  <2> HIDE DEF A, B
  <2>4. IsFiniteSet(A \union {s}) /\ Cardinality(A \union {s}) <= Cardinality(A) + 1 /\ Cardinality(A \union {s}) \in Nat
    <3>1. IsFiniteSet(A) /\ Cardinality(A) \in Nat
      BY <2>3 DEF A
    <3>2. IsFiniteSet(A \union {s}) /\ (Cardinality(A \union {s}) = IF s \in A THEN Cardinality(A) ELSE Cardinality(A) + 1)
      BY <3>1, FS_AddElement
    <3> QED
      BY <3>1, <3>2
  <2>5. B \subseteq A \union {s}
    BY <2>2 DEF A, B
  <2>6. Cardinality(B) <= Cardinality(A \union {s}) /\ IsFiniteSet(B)
    BY <2>4, <2>5, FS_Subset
  <2>7. Cardinality(B) \in Nat
    BY <2>6, FS_CardinalityType
  <2>8. Cardinality(A) <= n /\ Cardinality(A) \in Nat
    BY <1>7, <2>3 DEF Heat, A
  <2>9. Cardinality(B) <= n + 1
    BY <2>4, <2>6, <2>7, <2>8
  <2> QED
    BY <2>1, <2>9 DEF Heat, B
<1> QED
  BY <1>1, <1>6, <1>7 DEF NewSlot

LEMMA SlotIn ==
  ASSUME NEW hot, IsFiniteSet(hot), Unique(hot), NEW s, \A h \in hot : h.key # s.key
  PROVE  /\ IsFiniteSet(hot \union {s}) /\ Cardinality(hot \union {s}) = Cardinality(hot) + 1
         /\ Unique(hot \union {s}) /\ Cardinality(hot) \in Nat
<1>1. s \notin hot
  OBVIOUS
<1>2. IsFiniteSet(hot \union {s}) /\ Cardinality(hot \union {s}) = Cardinality(hot) + 1
  BY <1>1, FS_AddElement
<1>3. Unique(hot \union {s})
  BY DEF Unique
<1>4. Cardinality(hot) \in Nat
  BY FS_CardinalityType
<1> QED
  BY <1>2, <1>3, <1>4

LEMMA SlotSwapped ==
  ASSUME NEW hot, IsFiniteSet(hot), Unique(hot), NEW g \in hot, NEW s, \A h \in hot \ {g} : h.key # s.key
  PROVE  /\ IsFiniteSet((hot \ {g}) \union {s}) /\ Cardinality((hot \ {g}) \union {s}) = Cardinality(hot)
         /\ Unique((hot \ {g}) \union {s})
<1> DEFINE H == hot \ {g}
<1>1. IsFiniteSet(H) /\ Cardinality(H) = Cardinality(hot) - 1
  BY FS_RemoveElement
<1>2. Unique(H) /\ \A h \in H : h.key # s.key
  BY DEF Unique
<1>3. Cardinality(hot) \in Nat
  BY FS_CardinalityType
<1> HIDE DEF H
<1>4. IsFiniteSet(H \union {s}) /\ Cardinality(H \union {s}) = Cardinality(H) + 1 /\ Unique(H \union {s})
  BY <1>1, <1>2, SlotIn
<1> QED
  BY <1>1, <1>3, <1>4 DEF H

LEMMA HeatedIs ==
  ASSUME NEW c \in Structs, HotSound(c), NEW k \in Keys, NEW o \in DOMAIN c.pool, c.pool[o].key = k, o \in Nat,
         NEW t \in 0..MaxNow, NEW e \in Heated(c, k, o, t)
  PROVE  \/ /\ c.hotCount = HotSize /\ \A h \in c.hot : ~(h.used < t)
            /\ e = Strayed(c, o)
         \/ \E hot \in SUBSET Slots : HotTurn(c, hot, k, t) /\ e = WithHot(c, hot)
<1> DEFINE slot == [key |-> k, at |-> o, used |-> t]
           mine == {h \in c.hot : h.key = k}
           older == {h \in c.hot : h.used < t}
           oldest == {h \in older : \A g \in older : h.used <= g.used}
<1>1. e \in IF mine # {} THEN {[c EXCEPT !.hot = (@ \ mine) \union {slot}]}
            ELSE IF c.hotCount < HotSize THEN {[c EXCEPT !.hot = @ \union {slot}, !.hotCount = @ + 1]}
            ELSE IF older # {} THEN {[c EXCEPT !.hot = (@ \ {h}) \union {slot}] : h \in oldest}
            ELSE {[c EXCEPT !.hotCount = HotSize + 1, !.count = OffsetOf(o)]}
  BY DEF Heated
<1>2. NewSlot(c, k, t, slot) /\ slot.key = k
  BY DEF NewSlot, Slots
<1>3. /\ c.hot \in SUBSET Slots /\ IsFiniteSet(c.hot) /\ Unique(c.hot) /\ c.hotCount = Cardinality(c.hot)
      /\ c.hotCount <= HotSize /\ c.hotCount \in Nat
  BY DEF HotSound, Structs, Unique
<1> HIDE DEF slot
<1>4. ASSUME NEW g \in c.hot, \A h \in c.hot \ {g} : h.key # k
      PROVE  LET hot == (c.hot \ {g}) \union {slot}
             IN  hot \in SUBSET Slots /\ HotTurn(c, hot, k, t) /\ Cardinality(hot) = c.hotCount
  <2> DEFINE hot == (c.hot \ {g}) \union {slot}
  <2>1. IsFiniteSet(hot) /\ Cardinality(hot) = Cardinality(c.hot) /\ Unique(hot)
    <3>1. \A h \in c.hot \ {g} : h.key # slot.key
      BY <1>2, <1>4
    <3> QED
      BY <1>3, <3>1, SlotSwapped
  <2>2. hot \in SUBSET Slots /\ hot \subseteq c.hot \union {slot}
    BY <1>2, <1>3 DEF NewSlot
  <2> HIDE DEF hot
  <2>3. HotTurn(c, hot, k, t) /\ Cardinality(hot) = c.hotCount
    BY <1>2, <1>3, <2>1, <2>2 DEF HotTurn
  <2> QED
    BY <2>2, <2>3 DEF hot
<1>5. ASSUME NEW hot, Cardinality(hot) = c.hotCount
      PROVE  [c EXCEPT !.hot = hot] = [c EXCEPT !.hot = hot, !.hotCount = Cardinality(hot)]
  BY <1>5 DEF Structs
<1>6. CASE mine # {}
  <2>1. PICK g \in c.hot : g.key = k
    BY <1>6
  <2>2. mine = {g}
    BY <1>3, <2>1 DEF Unique
  <2> DEFINE hot == (c.hot \ {g}) \union {slot}
  <2>3. e = [c EXCEPT !.hot = hot]
    <3>1. e = [c EXCEPT !.hot = (c.hot \ mine) \union {slot}]
      BY <1>1, <1>6
    <3> HIDE DEF mine
    <3> QED
      BY <2>2, <3>1, Zenon
  <2>4. hot \in SUBSET Slots /\ HotTurn(c, hot, k, t) /\ Cardinality(hot) = c.hotCount
    BY <1>4, <2>1, <2>2
  <2> HIDE DEF hot
  <2>5. e = [c EXCEPT !.hot = hot, !.hotCount = Cardinality(hot)]
    BY <1>5, <2>3, <2>4, Zenon
  <2> QED
    BY <2>4, <2>5 DEF WithHot
<1>7. CASE mine = {} /\ c.hotCount < HotSize
  <2> DEFINE hot == c.hot \union {slot}
  <2>1. e = [c EXCEPT !.hot = hot, !.hotCount = c.hotCount + 1]
    BY <1>1, <1>7
  <2>2. IsFiniteSet(hot) /\ Cardinality(hot) = Cardinality(c.hot) + 1 /\ Unique(hot)
    <3>1. \A h \in c.hot : h.key # slot.key
      BY <1>2, <1>7
    <3> QED
      BY <1>3, <3>1, SlotIn
  <2>3. hot \in SUBSET Slots /\ hot \subseteq c.hot \union {slot}
    BY <1>2, <1>3 DEF NewSlot
  <2> HIDE DEF hot
  <2>4. HotTurn(c, hot, k, t) /\ Cardinality(hot) = c.hotCount + 1
    BY <1>2, <1>3, <1>7, <2>2, <2>3, LimitsAre DEF HotTurn
  <2>5. e = WithHot(c, hot)
    <3>1. Cardinality(hot) = c.hotCount + 1
      BY <2>4
    <3> QED
      BY <2>1, <3>1, Zenon DEF WithHot
  <2> QED
    BY <2>3, <2>4, <2>5
<1>8. CASE mine = {} /\ ~(c.hotCount < HotSize) /\ older # {}
  <2>1. PICK g \in oldest : e = [c EXCEPT !.hot = (c.hot \ {g}) \union {slot}]
    BY <1>1, <1>8
  <2>2. g \in c.hot /\ \A h \in c.hot \ {g} : h.key # k
    BY <1>8
  <2> DEFINE hot == (c.hot \ {g}) \union {slot}
  <2>3. hot \in SUBSET Slots /\ HotTurn(c, hot, k, t) /\ Cardinality(hot) = c.hotCount
    BY <1>4, <2>2
  <2>4. e = [c EXCEPT !.hot = hot]
    BY <2>1
  <2> HIDE DEF hot
  <2>5. e = [c EXCEPT !.hot = hot, !.hotCount = Cardinality(hot)]
    BY <1>5, <2>3, <2>4, Zenon
  <2> QED
    BY <2>3, <2>5 DEF WithHot
<1>9. CASE mine = {} /\ ~(c.hotCount < HotSize) /\ older = {}
  <2>1. e = [c EXCEPT !.hotCount = HotSize + 1, !.count = OffsetOf(o)]
    BY <1>1, <1>9
  <2>2. c.hotCount = HotSize
    BY <1>3, <1>9, LimitsAre
  <2>3. \A h \in c.hot : ~(h.used < t)
    BY <1>9
  <2> QED
    BY <2>1, <2>2, <2>3 DEF Strayed
<1> QED
  BY <1>6, <1>7, <1>8, <1>9

LEMMA WarmedIs ==
  ASSUME NEW c \in Structs, HotSound(c), NEW k \in Keys, NEW o \in DOMAIN c.pool, c.pool[o].key = k, o \in Nat,
         NEW t \in 0..MaxNow, NEW e, e = Warmed(c, k, t)
  PROVE  \E hot \in SUBSET Slots : HotTurn(c, hot, k, t) /\ e = WithHot(c, hot)
<1> DEFINE hot == {IF h \in HotHits(c, k, t) THEN [h EXCEPT !.used = t] ELSE h : h \in c.hot}
           slot == [key |-> k, at |-> o, used |-> t]
<1>1. e = [c EXCEPT !.hot = hot]
  BY Zenon DEF Warmed
<1>2. /\ c.hot \in SUBSET Slots /\ IsFiniteSet(c.hot) /\ Unique(c.hot) /\ c.hotCount = Cardinality(c.hot)
      /\ c.hotCount <= HotSize
      /\ \A h \in c.hot : h.at \in DOMAIN c.pool /\ c.pool[h.at].key = h.key
  BY DEF HotSound, Structs, Unique
<1>3. hot \in SUBSET Slots /\ HotTurn(c, hot, k, t) /\ Cardinality(hot) = c.hotCount
  <2>1. CASE HotHits(c, k, t) = {}
    <3>1. hot = c.hot
      BY <2>1
    <3>2. NewSlot(c, k, t, slot)
      BY DEF NewSlot, Slots
    <3>3. HotTurn(c, c.hot, k, t)
      <4>1. c.hot \subseteq c.hot \union {slot}
        OBVIOUS
      <4> HIDE DEF slot
      <4> QED
        BY <1>2, <3>2, <4>1 DEF HotTurn
    <3> HIDE DEF hot
    <3> QED
      BY <1>2, <3>1, <3>3, Zenon
  <2>2. CASE HotHits(c, k, t) # {}
    <3>1. PICK g \in HotHits(c, k, t) : TRUE
      BY <2>2
    <3>2. g \in c.hot /\ g.key = k
      BY DEF HotHits
    <3>3. HotHits(c, k, t) = {g}
      <4>1. \A h \in HotHits(c, k, t) : h \in c.hot /\ h.key = k
        BY DEF HotHits
      <4> QED
        BY <1>2, <3>2, <4>1 DEF Unique
    <3> DEFINE s == [g EXCEPT !.used = t]
    <3>4. hot = (c.hot \ {g}) \union {s}
      BY <3>2, <3>3
    <3>5. NewSlot(c, k, t, s) /\ s.key = k
      BY <1>2, <3>2 DEF NewSlot, Slots
    <3> HIDE DEF s, hot
    <3>6. \A h \in c.hot \ {g} : h.key # s.key
      BY <1>2, <3>2, <3>5 DEF Unique
    <3> DEFINE H == (c.hot \ {g}) \union {s}
    <3>7. IsFiniteSet(H) /\ Cardinality(H) = Cardinality(c.hot) /\ Unique(H)
      BY <1>2, <3>2, <3>6, SlotSwapped
    <3>8. H \subseteq c.hot \union {s} /\ H \in SUBSET Slots
      BY <1>2, <3>5 DEF NewSlot
    <3> HIDE DEF H
    <3>9. HotTurn(c, H, k, t) /\ Cardinality(H) = c.hotCount
      BY <1>2, <3>5, <3>7, <3>8 DEF HotTurn
    <3>10. hot = H
      BY <3>4 DEF H
    <3> QED
      BY <3>8, <3>9, <3>10, Zenon
  <2> QED
    BY <2>1, <2>2
<1> HIDE DEF hot
<1>4. [c EXCEPT !.hot = hot] = [c EXCEPT !.hot = hot, !.hotCount = Cardinality(hot)]
  BY <1>3 DEF Structs
<1>5. e = [c EXCEPT !.hot = hot, !.hotCount = Cardinality(hot)]
  BY <1>1, <1>4, Zenon
<1> QED
  BY <1>3, <1>5 DEF WithHot

(* The same entries and indexes, but for access times and the hot cache.   *)
Same(c, d) ==
  /\ DOMAIN d.pool = DOMAIN c.pool
  /\ \A o \in DOMAIN c.pool : /\ d.pool[o].key = c.pool[o].key /\ d.pool[o].size = c.pool[o].size
                              /\ d.pool[o].deleted = c.pool[o].deleted /\ d.pool[o].expire = c.pool[o].expire
  /\ d.hash = c.hash /\ d.sorted = c.sorted /\ d.names = c.names /\ d.tags = c.tags /\ d.mem = c.mem

LEMMA SameIs ==
  ASSUME NEW c, Sound(c), NEW d, Same(c, d)
  PROVE  Gone(c, d, {}) /\ Shrinks(c, d) /\ Undeleted(d) = Undeleted(c)
<1>1. \A o \in DOMAIN c.pool : d.pool[o].deleted = (o \in {} \/ c.pool[o].deleted)
  <2>1. \A o \in DOMAIN c.pool : c.pool[o].deleted \in BOOLEAN /\ d.pool[o].deleted = c.pool[o].deleted
    BY SoundIs DEF Same
  <2> QED
    BY <2>1, Zenon
<1>2. Gone(c, d, {})
  BY <1>1 DEF Gone, Same
<1>3. Undeleted(d) = Undeleted(c)
  BY DEF Undeleted, Same
<1>4. \A o \in Undeleted(d) : o \in DOMAIN c.pool
  BY <1>3 DEF Undeleted
<1>5. Shrinks(c, d)
  BY <1>3, <1>4 DEF Shrinks, Same
<1> QED
  BY <1>2, <1>3, <1>5

(* The new access time.                                                    *)
LEMMA Accessed ==
  ASSUME NEW c \in Structs, NEW o \in DOMAIN c.pool, NEW t \in 0..MaxNow, NEW d, d = WithAccess(c, o, t)
  PROVE  /\ Same(c, d) /\ d \in Structs /\ d.hot = c.hot /\ d.hotCount = c.hotCount /\ d.count = c.count
<1> DEFINE P == [c.pool EXCEPT ![o].access = t]
<1>1. d = [c EXCEPT !.pool = P]
  BY Zenon DEF WithAccess
<1>2. c.pool \in Seq(Entry)
  BY DEF Structs
<1>3. \A e \in Entry : LET f == [e EXCEPT !.access = t]
                       IN  f \in Entry /\ f.key = e.key /\ f.size = e.size /\ f.deleted = e.deleted /\ f.expire = e.expire
  BY DEF Entry
<1>4. /\ DOMAIN P = DOMAIN c.pool
      /\ \A x \in DOMAIN c.pool : P[x] = IF x = o THEN [c.pool[x] EXCEPT !.access = t] ELSE c.pool[x]
      /\ P = [x \in DOMAIN P |-> P[x]]
  OBVIOUS
<1>5. \A x \in DOMAIN c.pool : c.pool[x] \in Entry
  BY <1>2
<1> HIDE DEF P
<1>6. \A x \in DOMAIN c.pool : /\ P[x] \in Entry /\ P[x].key = c.pool[x].key /\ P[x].size = c.pool[x].size
                               /\ P[x].deleted = c.pool[x].deleted /\ P[x].expire = c.pool[x].expire
  BY <1>3, <1>4, <1>5, ZenonT(30)
<1>7. P \in Seq(Entry)
  BY <1>2, <1>4, <1>6, PoolIs
<1>8. /\ d.pool = P /\ d.hash = c.hash /\ d.sorted = c.sorted /\ d.names = c.names /\ d.tags = c.tags
      /\ d.hot = c.hot /\ d.hotCount = c.hotCount /\ d.count = c.count /\ d.mem = c.mem
      /\ d \in Structs
  BY <1>1, <1>7 DEF Structs
<1> QED
  BY <1>4, <1>6, <1>8 DEF Same

(* Find under a sound struct gives an entry of the key that can be read.   *)
LEMMA FindIs ==
  ASSUME NEW c, Sound(c), NEW k \in Keys, NEW t, NEW o, o = Find(c, k, t), o # 0
  PROVE  /\ o \in DOMAIN c.pool /\ c.pool[o].key = k /\ o \in Undeleted(c) /\ ~Expired(c.pool[o], t)
         /\ o \in Nat
<1> DEFINE f == IF HotHits(c, k, t) # {} THEN (CHOOSE h \in HotHits(c, k, t) : TRUE).at ELSE c.hash[k]
<1>1. o = IF f # 0 /\ Readable(c, f, t) THEN f ELSE 0
  BY DEF Find
<1>2. f = o /\ Readable(c, o, t)
  <2> HIDE DEF f
  <2> QED
    BY <1>1
<1>3. o \in DOMAIN c.pool /\ c.pool[o].key = k
  <2>1. CASE HotHits(c, k, t) # {}
    <3>1. PICK h \in HotHits(c, k, t) : o = h.at
      BY <1>2, <2>1
    <3> QED
      BY <3>1 DEF HotHits, Sound
  <2>2. CASE HotHits(c, k, t) = {}
    <3>1. o = c.hash[k]
      BY <1>2, <2>2
    <3> QED
      BY <3>1 DEF Sound
  <2> QED
    BY <2>1, <2>2
<1>4. o \in Undeleted(c)
  BY <1>2, <1>3 DEF Undeleted, Readable
<1> QED
  BY <1>2, <1>3, <1>4, SoundIs DEF Readable

(* For careful callers it is the entry the hash index has, whatever the    *)
(* hot cache holds.                                                        *)
LEMMA FindIsHash ==
  ASSUME NEW c, Sound(c), NEW l, NEW t, Current(c, l, t), NEW k \in Keys
  PROVE  /\ Find(c, k, t) = IF c.hash[k] # 0 /\ Readable(c, c.hash[k], t) THEN c.hash[k] ELSE 0
         /\ Find(c, k, t) = IF l[k] # 0 /\ Readable(c, l[k], t) THEN l[k] ELSE 0
         /\ \A o \in Undeleted(c) : c.pool[o].key = k /\ ~Expired(c.pool[o], t) => Find(c, k, t) = o
<1> DEFINE f == IF HotHits(c, k, t) # {} THEN (CHOOSE h \in HotHits(c, k, t) : TRUE).at ELSE c.hash[k]
<1>0. Find(c, k, t) = IF f # 0 /\ Readable(c, f, t) THEN f ELSE 0
  BY DEF Find
<1>1. \A o \in DOMAIN c.pool : o # 0 /\ (Readable(c, o, t) /\ c.pool[o].key = k => c.hash[k] = o /\ l[k] = o)
  <2>1. \A o \in DOMAIN c.pool : Readable(c, o, t) => o \in Undeleted(c)
    BY DEF Readable, Undeleted
  <2>2. \A o \in DOMAIN c.pool : o # 0
    BY SoundIs
  <2> QED
    BY <2>1, <2>2 DEF Current, Readable
<1>2. /\ c.hash[k] \in {0} \union DOMAIN c.pool /\ (c.hash[k] # 0 => c.pool[c.hash[k]].key = k)
      /\ l[k] \in {0} \union DOMAIN c.pool /\ (l[k] # 0 => c.pool[l[k]].key = k)
  BY DEF Sound, Current
<1>3. Find(c, k, t) = IF c.hash[k] # 0 /\ Readable(c, c.hash[k], t) THEN c.hash[k] ELSE 0
  <2>1. CASE HotHits(c, k, t) = {}
    BY <1>0, <2>1
  <2>2. CASE HotHits(c, k, t) # {}
    <3>1. PICK h \in HotHits(c, k, t) : f = h.at
      BY <2>2
    <3>2. f \in DOMAIN c.pool /\ c.pool[f].key = k /\ Readable(c, f, t)
      BY <3>1 DEF HotHits, Sound
    <3> HIDE DEF f
    <3>3. f # 0 /\ c.hash[k] = f
      BY <1>1, <3>2
    <3> QED
      BY <1>0, <3>2, <3>3, Zenon
  <2> QED
    BY <2>1, <2>2
<1>4. Find(c, k, t) = IF l[k] # 0 /\ Readable(c, l[k], t) THEN l[k] ELSE 0
  <2> DEFINE x == c.hash[k]
             y == l[k]
  <2>1. x # 0 /\ Readable(c, x, t) => y = x
    BY <1>1, <1>2
  <2>2. y # 0 /\ Readable(c, y, t) => x = y
    BY <1>1, <1>2
  <2>3. Find(c, k, t) = IF x # 0 /\ Readable(c, x, t) THEN x ELSE 0
    BY <1>3
  <2> HIDE DEF x, y
  <2>4. Find(c, k, t) = IF y # 0 /\ Readable(c, y, t) THEN y ELSE 0
    <3>1. CASE x # 0 /\ Readable(c, x, t)
      BY <2>1, <2>3, <3>1, Zenon
    <3>2. CASE ~(x # 0 /\ Readable(c, x, t))
      <4>1. ~(y # 0 /\ Readable(c, y, t))
        BY <2>2, <3>2, Zenon
      <4> QED
        BY <2>3, <3>2, <4>1, Zenon
    <3> QED
      BY <3>1, <3>2
  <2> QED
    BY <2>4 DEF y
<1>5. ASSUME NEW o \in Undeleted(c), c.pool[o].key = k, ~Expired(c.pool[o], t) PROVE Find(c, k, t) = o
  <2>1. o \in DOMAIN c.pool /\ Readable(c, o, t)
    BY <1>5 DEF Undeleted, Readable
  <2>2. o # 0 /\ c.hash[k] = o
    BY <1>1, <1>5, <2>1
  <2> QED
    BY <1>3, <2>1, <2>2, Zenon
<1> QED
  BY <1>3, <1>4, <1>5

LEMMA HotFewer ==
  ASSUME NEW c, IsFiniteSet(c.hot), NEW d, d.hot \subseteq c.hot, NEW t, NEW n \in Nat, Heat(c, t, n)
  PROVE  Heat(d, t, n)
<1>1. Fresh(d, t) \subseteq Fresh(c, t) /\ Fresh(c, t) \subseteq c.hot
  BY DEF Fresh
<1>2. IsFiniteSet(Fresh(c, t)) /\ Cardinality(Fresh(c, t)) \in Nat
  BY <1>1, FS_Subset, FS_CardinalityType
<1>3. IsFiniteSet(Fresh(d, t)) /\ Cardinality(Fresh(d, t)) <= Cardinality(Fresh(c, t))
  BY <1>1, <1>2, FS_Subset
<1>4. Cardinality(Fresh(d, t)) \in Nat
  BY <1>3, FS_CardinalityType
<1>5. Cardinality(Fresh(c, t)) <= n /\ \A h \in c.hot : h.used <= t
  BY DEF Heat
<1>6. Cardinality(Fresh(d, t)) <= n
  BY <1>2, <1>3, <1>4, <1>5
<1> QED
  BY <1>5, <1>6 DEF Heat

LEMMA HotSoundIs ==
  ASSUME NEW c, Sound(c), Exact(c)
  PROVE  HotSound(c)
BY DEF HotSound, Sound, Exact

LEMMA HotSet ==
  ASSUME NEW c \in Structs, HotSound(c), NEW hot \in SUBSET Slots, NEW k, NEW t \in Nat, HotTurn(c, hot, k, t),
         NEW d, d = WithHot(c, hot)
  PROVE  /\ d \in Structs /\ Same(c, d) /\ d.count = c.count /\ d.pool = c.pool /\ HotSound(d)
         /\ \A n \in Nat : Heat(c, t, n) => Heat(d, t, n + 1)
<1> DEFINE hc == Cardinality(hot)
<1>1. hc \in Nat
  <2>1. PICK s : hot \subseteq c.hot \union {s}
    BY DEF HotTurn
  <2>2. IsFiniteSet(c.hot \union {s})
    <3>1. IsFiniteSet(c.hot)
      BY DEF HotSound
    <3> QED
      BY <3>1, FS_AddElement
  <2>3. IsFiniteSet(hot)
    BY <2>1, <2>2, FS_Subset
  <2> QED
    BY <2>3, FS_CardinalityType
<1>2. d = [c EXCEPT !.hot = hot, !.hotCount = hc]
  BY DEF WithHot
<1> HIDE DEF hc
<1>3. /\ d.pool = c.pool /\ d.hash = c.hash /\ d.sorted = c.sorted /\ d.names = c.names /\ d.tags = c.tags
      /\ d.hot = hot /\ d.hotCount = hc /\ d.count = c.count /\ d.mem = c.mem
      /\ d \in Structs
  BY <1>1, <1>2 DEF Structs
<1>4. Same(c, d)
  BY <1>3 DEF Same
<1>5. HotTurn(c, d.hot, k, t) /\ d.hotCount = Cardinality(d.hot)
  BY <1>3, Zenon DEF hc
<1>6. c.hot \in SUBSET Slots
  BY DEF Structs
<1>7. DOMAIN d.pool = DOMAIN c.pool /\ \A o \in DOMAIN c.pool : d.pool[o].key = c.pool[o].key
  BY <1>3
<1>8. HotSound(d) /\ \A n \in Nat : Heat(c, t, n) /\ t \in Nat => Heat(d, t, n + 1)
  BY <1>5, <1>6, <1>7, HotTurnSound
<1> QED
  BY <1>3, <1>4, <1>8

LEMMA SameTwice ==
  ASSUME NEW c, NEW d, NEW e, Same(c, d), Same(d, e)
  PROVE  Same(c, e)
BY DEF Same

LEMMA SameSound ==
  ASSUME NEW c, Sound(c), Exact(c), NEW d \in Structs, Same(c, d), HotSound(d), d.count = c.count
  PROVE  Sound(d) /\ Exact(d)
<1>1. Gone(c, d, {}) /\ {} \in SUBSET Undeleted(c)
  BY SameIs
<1>2. Sound(d) /\ (d.count = c.count - Cardinality({}) => Exact(d))
  BY <1>1, GoneSound
<1>3. Cardinality({}) = 0 /\ c.count \in Nat
  BY SoundIs, FS_EmptySet
<1>4. d.count = c.count - Cardinality({})
  <2>1. c.count = c.count - 0
    BY <1>3
  <2> QED
    BY <1>3, <2>1, Zenon
<1> QED
  BY <1>2, <1>4

(* The slot a look-up answered from is marked.                             *)
LEMMA WarmSound ==
  ASSUME NEW c, Sound(c), Exact(c), NEW k \in Keys, NEW t \in 1..MaxNow, NEW o, o = Find(c, k, t), o # 0,
         NEW w, w = Warmed(c, k, t)
  PROVE  /\ Sound(w) /\ Exact(w) /\ Same(c, w)
         /\ \A n \in Nat : Heat(c, t, n) => Heat(w, t, n + 1)
<1>1. o \in DOMAIN c.pool /\ c.pool[o].key = k /\ o \in Nat
  BY FindIs
<1>2. c \in Structs /\ HotSound(c) /\ t \in 0..MaxNow /\ t \in Nat
  BY SoundIs, HotSoundIs, LimitsAre
<1>3. PICK hot \in SUBSET Slots : HotTurn(c, hot, k, t) /\ w = WithHot(c, hot)
  BY <1>1, <1>2, WarmedIs
<1>4. /\ w \in Structs /\ Same(c, w) /\ w.count = c.count /\ HotSound(w)
      /\ \A n \in Nat : Heat(c, t, n) => Heat(w, t, n + 1)
  BY <1>2, <1>3, HotSet
<1> QED
  BY <1>4, SameSound

(* cache_touch.                                                            *)
LEMMA TouchSound ==
  ASSUME NEW c, Sound(c), Exact(c), NEW k \in Keys, NEW t \in 1..MaxNow, NEW o, o = Find(c, k, t), o # 0,
         NEW e, e = WithAccess(Warmed(c, k, t), o, t)
  PROVE  /\ Sound(e) /\ Exact(e) /\ Same(c, e)
         /\ \A n \in Nat : Heat(c, t, n) => Heat(e, t, n + 1)
<1>1. o \in DOMAIN c.pool
  BY FindIs
<1>2. t \in 0..MaxNow
  BY LimitsAre
<1> DEFINE w == Warmed(c, k, t)
<1>3. /\ Sound(w) /\ Exact(w) /\ Same(c, w)
      /\ \A n \in Nat : Heat(c, t, n) => Heat(w, t, n + 1)
  <2> HIDE DEF w
  <2>1. w = Warmed(c, k, t)
    BY DEF w
  <2> QED
    BY <2>1, WarmSound
<1>4. e = WithAccess(w, o, t)
  OBVIOUS
<1> HIDE DEF w
<1>5. w \in Structs /\ HotSound(w) /\ o \in DOMAIN w.pool
  BY <1>1, <1>3, SoundIs, HotSoundIs DEF Same
<1>6. Same(w, e) /\ e \in Structs /\ e.hot = w.hot /\ e.hotCount = w.hotCount /\ e.count = w.count
  BY <1>2, <1>4, <1>5, Accessed
<1>7. HotSound(e)
  BY <1>5, <1>6 DEF HotSound, Same
<1>8. Same(c, e)
  BY <1>3, <1>6, SameTwice
<1>9. Sound(e) /\ Exact(e)
  BY <1>3, <1>6, <1>7, SameSound
<1>10. \A n \in Nat : Heat(c, t, n) => Heat(e, t, n + 1)
  BY <1>3, <1>6 DEF Heat, Fresh
<1> QED
  BY <1>8, <1>9, <1>10

(* cache_get.                                                              *)
LEMMA GetSound ==
  ASSUME NEW c, Sound(c), Exact(c), NEW k \in Keys, NEW t \in 1..MaxNow, NEW o, o = Find(c, k, t), o # 0,
         NEW e \in Heated(WithAccess(c, o, t), k, o, t)
  PROVE  /\ Sound(e) /\ Same(c, e)
         /\ \/ Exact(e) /\ \A n \in Nat : Heat(c, t, n) => Heat(e, t, n + 1)
            \/ e.hotCount = HotSize + 1 /\ \A n \in Nat : Heat(c, t, n) => HotSize <= n
<1>1. o \in DOMAIN c.pool /\ c.pool[o].key = k /\ o \in Nat
  BY FindIs
<1>2. c \in Structs /\ HotSound(c) /\ t \in 0..MaxNow /\ t \in Nat
  BY SoundIs, HotSoundIs, LimitsAre
<1> DEFINE a == WithAccess(c, o, t)
<1>3. Same(c, a) /\ a \in Structs /\ a.hot = c.hot /\ a.hotCount = c.hotCount /\ a.count = c.count
  <2> HIDE DEF a
  <2>1. a = WithAccess(c, o, t)
    BY DEF a
  <2> QED
    BY <1>1, <1>2, <2>1, Accessed
<1>4. e \in Heated(a, k, o, t)
  OBVIOUS
<1> HIDE DEF a
<1>5. HotSound(a) /\ o \in DOMAIN a.pool /\ a.pool[o].key = k
  BY <1>1, <1>2, <1>3 DEF HotSound, Same
<1>6. \/ /\ a.hotCount = HotSize /\ \A h \in a.hot : ~(h.used < t)
         /\ e = Strayed(a, o)
      \/ \E hot \in SUBSET Slots : HotTurn(a, hot, k, t) /\ e = WithHot(a, hot)
  BY <1>1, <1>2, <1>3, <1>4, <1>5, HeatedIs
<1>7. \A n \in Nat : Heat(c, t, n) => Heat(a, t, n)
  BY <1>3 DEF Heat, Fresh
<1>8. Sound(a) /\ Exact(a)
  BY <1>3, <1>5, SameSound
<1>9. CASE /\ a.hotCount = HotSize /\ \A h \in a.hot : ~(h.used < t)
           /\ e = Strayed(a, o)
  <2> DEFINE n == HotSize + 1
             m == OffsetOf(o)
  <2>1. n \in Nat /\ m \in Nat /\ e = [a EXCEPT !.hotCount = n, !.count = m]
    BY <1>1, <1>9, LimitsAre DEF OffsetOf, Strayed
  <2> HIDE DEF n, m
  <2>2. /\ e.pool = a.pool /\ e.hash = a.hash /\ e.sorted = a.sorted /\ e.names = a.names /\ e.tags = a.tags
        /\ e.hot = a.hot /\ e.hotCount = n /\ e.count = m /\ e.mem = a.mem
        /\ e \in Structs
    BY <1>3, <2>1 DEF Structs
  <2>3. Same(a, e)
    BY <2>2 DEF Same
  <2>4. Bytes(e, Undeleted(e)) = Bytes(a, Undeleted(a))
    <3>1. Undeleted(e) = Undeleted(a)
      BY <2>2 DEF Undeleted
    <3> QED
      BY <2>2, <3>1 DEF Bytes
  <2>5. Sound(e)
    BY <1>8, <2>2, <2>4 DEF Sound
  <2>6. ASSUME NEW i \in Nat, Heat(c, t, i) PROVE HotSize <= i
    <3>1. Heat(a, t, i)
      BY <1>7, <2>6
    <3>2. Fresh(a, t) = a.hot
      <4>1. \A h \in a.hot : h.used \in Nat
        BY <1>3, LimitsAre DEF Structs, Slots
      <4> QED
        BY <1>2, <1>9, <3>1, <4>1 DEF Heat, Fresh
    <3>3. Cardinality(Fresh(a, t)) <= i
      BY <3>1 DEF Heat
    <3>4. Cardinality(a.hot) = HotSize
      BY <1>8, <1>9 DEF Exact
    <3>5. Cardinality(Fresh(a, t)) = HotSize
      BY <3>2, <3>4, Zenon
    <3> QED
      BY <3>3, <3>5
  <2>7. Same(c, e)
    BY <1>3, <2>3, SameTwice
  <2> QED
    BY <2>2, <2>5, <2>6, <2>7 DEF n
<1>10. ASSUME NEW hot \in SUBSET Slots, HotTurn(a, hot, k, t), e = WithHot(a, hot)
       PROVE  Sound(e) /\ Exact(e) /\ Same(c, e) /\ \A n \in Nat : Heat(c, t, n) => Heat(e, t, n + 1)
  <2>1. /\ e \in Structs /\ Same(a, e) /\ e.count = a.count /\ e.pool = a.pool /\ HotSound(e)
        /\ \A n \in Nat : Heat(a, t, n) => Heat(e, t, n + 1)
    BY <1>2, <1>3, <1>5, <1>10, HotSet
  <2>2. Same(c, e)
    BY <1>3, <2>1, SameTwice
  <2>3. Sound(e) /\ Exact(e)
    BY <1>3, <2>1, <2>2, SameSound
  <2> QED
    BY <1>7, <2>1, <2>2, <2>3
<1> QED
  BY <1>6, <1>9, <1>10

(* The entry of a key that has been called off leaves none with that key.  *)
LEMMA Forgets ==
  ASSUME NEW d, NEW l, NEW t, Current(d, l, t), NEW K, NEW m, \A k \in Keys : m[k] = IF k \in K THEN 0 ELSE l[k],
         \A o \in Undeleted(d) : d.pool[o].key \in Keys /\ (d.pool[o].key \in K => Expired(d.pool[o], t))
  PROVE  Current(d, m, t)
<1>1. ASSUME NEW k \in Keys
      PROVE  /\ m[k] \in {0} \union DOMAIN d.pool
             /\ m[k] # 0 => d.pool[m[k]].key = k
  <2>1. CASE k \in K
    BY <2>1
  <2>2. CASE k \notin K
    BY <2>2 DEF Current
  <2> QED
    BY <2>1, <2>2
<1>2. ASSUME NEW o \in Undeleted(d) PROVE Expired(d.pool[o], t) \/ m[d.pool[o].key] = o
  BY DEF Current
<1> QED
  BY <1>1, <1>2 DEF Current

Forgotten(l, k) == [l EXCEPT ![k] = 0]

LEMMA OneForgets ==
  ASSUME NEW c, Sound(c), NEW l \in [Keys -> Nat], NEW t, Current(c, l, t), NEW o \in Undeleted(c), NEW k, c.pool[o].key = k,
         NEW d, Sound(d), Undeleted(d) = Undeleted(c) \ {o}, Current(d, l, t),
         \A p \in DOMAIN c.pool : d.pool[p].key = c.pool[p].key
  PROVE  Current(d, Forgotten(l, k), t)
<1> DEFINE m == Forgotten(l, k)
<1>1. \A x \in Keys : m[x] = IF x \in {k} THEN 0 ELSE l[x]
  BY DEF Forgotten
<1>2. ASSUME NEW p \in Undeleted(d) PROVE d.pool[p].key \in Keys /\ d.pool[p].key \notin {k}
  <2>1. p \in Undeleted(c) /\ p # o /\ p \in DOMAIN c.pool /\ o \in DOMAIN c.pool
    BY DEF Undeleted
  <2>2. d.pool[p].key = c.pool[p].key /\ c.pool[p].key \in Keys
    BY <2>1, SoundIs
  <2>3. c.hash[c.pool[p].key] = p /\ c.hash[c.pool[o].key] = o
    BY <2>1 DEF Current
  <2> QED
    BY <2>1, <2>2, <2>3
<1> HIDE DEF m
<1>3. Current(d, m, t)
  BY <1>1, <1>2, Forgets, ZenonT(30)
<1> QED
  BY <1>3 DEF m

(* cache_del.                                                              *)
LEMMA DelSound ==
  ASSUME NEW c, Sound(c), Exact(c), NEW k \in Keys, NEW t \in 1..MaxNow, NEW o, o = Find(c, k, t), o # 0,
         NEW e \in Removed(c, {o})
  PROVE  /\ Sound(e) /\ Exact(e) /\ Keeps(c, e, {k}) /\ Len(e.pool) = Len(c.pool)
         /\ \A l : l \in [Keys -> Nat] /\ Current(c, l, t) => Current(e, Forgotten(l, k), t)
<1>1. o \in DOMAIN c.pool /\ c.pool[o].key = k /\ o \in Undeleted(c) /\ {o} \in SUBSET Undeleted(c)
  BY FindIs
<1>2. Sound(e) /\ Exact(e) /\ Takes(c, e, {o})
  BY <1>1, RemovedSound
<1>3. Keeps(c, e, {k})
  <2>1. ASSUME NEW p \in Undeleted(c), c.pool[p].key \notin {k}
        PROVE  p \in Undeleted(e) /\ e.pool[p].expire = c.pool[p].expire /\ e.pool[p].key = c.pool[p].key
    BY <1>1, <1>2, <2>1 DEF Takes, Undeleted
  <2> QED
    BY <1>2, <2>1 DEF Keeps, Takes
<1>4. ASSUME NEW l \in [Keys -> Nat], Current(c, l, t) PROVE Current(e, Forgotten(l, k), t)
  <2>1. Current(e, l, t)
    <3>1. Shrinks(c, e)
      BY <1>1, <1>2, <1>4, TakesShrinks
    <3> QED
      BY <1>4, <3>1, ShrinksCurrent
  <2>2. Undeleted(e) = Undeleted(c) \ {o} /\ \A p \in DOMAIN c.pool : e.pool[p].key = c.pool[p].key
    BY <1>2 DEF Takes
  <2> QED
    BY <1>1, <1>2, <1>4, <2>1, <2>2, OneForgets
<1>5. Len(e.pool) = Len(c.pool)
  BY <1>2 DEF Takes
<1> QED
  BY <1>2, <1>3, <1>4, <1>5

(* The lists and the index as they were, the entries of D flagged.         *)
LEMMA GoneShrinks ==
  ASSUME NEW c, Sound(c), NEW D, NEW d, Gone(c, d, D), Undeleted(d) = Undeleted(c) \ D,
         d.hash = c.hash, d.names = c.names, d.tags = c.tags, d.sorted = c.sorted
  PROVE  Shrinks(c, d)
<1>1. \A o \in Undeleted(d) : o \in Undeleted(c) /\ o \notin D /\ o \in DOMAIN c.pool
  BY DEF Undeleted
<1> QED
  BY <1>1 DEF Shrinks, Gone

(* cache_purge_expired.                                                    *)
Purged(c, D) == [Marked(c, D) EXCEPT !.mem = @ - Bytes(c, D)]

LEMMA PurgeSound ==
  ASSUME NEW c, Sound(c), Exact(c), NEW t, NEW D \in SUBSET Undeleted(c), \A o \in D : Expired(c.pool[o], t),
         NEW e, e = Purged(c, D)
  PROVE  /\ Sound(e) /\ Exact(e) /\ Keeps(c, e, {}) /\ Len(e.pool) = Len(c.pool) /\ e.hot = c.hot
         /\ \A l : Current(c, l, t) => Current(e, l, t)
<1>1. D \in SUBSET Undeleted(c) /\ c \in Structs /\ HotSound(c)
  BY SoundIs, HotSoundIs
<1>2. /\ c.count - Cardinality(D) \in Nat /\ c.mem - Bytes(c, D) \in Nat
  BY <1>1, GoneCounts
<1> DEFINE m == Marked(c, D)
           x == c.mem - Bytes(c, D)
<1>3. /\ m.pool = [o \in DOMAIN c.pool |-> IF o \in D THEN Flagged(c.pool[o]) ELSE c.pool[o]]
      /\ m.count = c.count - Cardinality(D)
      /\ m.hash = c.hash /\ m.sorted = c.sorted /\ m.names = c.names /\ m.tags = c.tags
      /\ m.hot = c.hot /\ m.hotCount = c.hotCount /\ m.mem = c.mem
      /\ m \in Structs
  <2> HIDE DEF m
  <2>1. m = Marked(c, D)
    BY DEF m
  <2> QED
    BY <1>1, <1>2, <2>1, MarkedIs
<1>4. e = [m EXCEPT !.mem = x]
  BY <1>3, Zenon DEF Purged
<1>5. /\ e.pool = m.pool /\ e.count = c.count - Cardinality(D) /\ e.hash = c.hash /\ e.sorted = c.sorted
      /\ e.names = c.names /\ e.tags = c.tags /\ e.hot = c.hot /\ e.hotCount = c.hotCount
      /\ e.mem = c.mem - Bytes(c, D) /\ e \in Structs
  <2>1. x \in Nat
    BY <1>2
  <2> HIDE DEF m, x
  <2>2. /\ e.pool = m.pool /\ e.count = m.count /\ e.hash = m.hash /\ e.sorted = m.sorted
        /\ e.names = m.names /\ e.tags = m.tags /\ e.hot = m.hot /\ e.hotCount = m.hotCount
        /\ e.mem = x /\ e \in Structs
    BY <1>3, <1>4, <2>1 DEF Structs
  <2> QED
    BY <1>3, <2>2 DEF x
<1> HIDE DEF m, x
<1>6. /\ DOMAIN e.pool = DOMAIN c.pool
      /\ \A o \in DOMAIN c.pool : /\ e.pool[o].key = c.pool[o].key /\ e.pool[o].size = c.pool[o].size
                                  /\ e.pool[o].deleted = (o \in D \/ c.pool[o].deleted)
                                  /\ e.pool[o].expire = c.pool[o].expire
  <2>1. m.pool = [o \in DOMAIN c.pool |-> IF o \in D THEN Flagged(c.pool[o]) ELSE c.pool[o]]
    BY <1>3
  <2>2. /\ DOMAIN m.pool = DOMAIN c.pool
        /\ \A o \in DOMAIN c.pool : /\ m.pool[o].key = c.pool[o].key /\ m.pool[o].size = c.pool[o].size
                                    /\ m.pool[o].deleted = (o \in D \/ c.pool[o].deleted)
                                    /\ m.pool[o].expire = c.pool[o].expire
    BY <2>1, MarkedEntries
  <2> QED
    BY <1>5, <2>2, Zenon
<1>7. Gone(c, e, D)
  BY <1>5, <1>6 DEF Gone
<1>8. HotSound(e)
  <2>1. \A h \in c.hot : h.at \in DOMAIN c.pool /\ c.pool[h.at].key = h.key
    BY <1>1 DEF HotSound
  <2>2. \A h \in e.hot : h.at \in DOMAIN e.pool /\ e.pool[h.at].key = h.key
    BY <1>5, <1>6, <2>1
  <2> QED
    BY <1>1, <1>5, <2>2 DEF HotSound
<1>9. /\ Sound(e) /\ Undeleted(e) = Undeleted(c) \ D /\ Len(e.pool) = Len(c.pool)
      /\ e.count = c.count - Cardinality(D) => Exact(e)
  BY <1>1, <1>5, <1>7, <1>8, GoneSound
<1>10. Keeps(c, e, {})
  <2>1. \A o \in Undeleted(c) : o \in DOMAIN c.pool /\ (c.pool[o].expire = 0 => o \notin D)
    BY DEF Undeleted, Expired
  <2> QED
    BY <1>5, <1>6, <1>9, <2>1 DEF Keeps
<1>11. Shrinks(c, e)
  BY <1>5, <1>7, <1>9, GoneShrinks
<1>12. \A l : Current(c, l, t) => Current(e, l, t)
  BY <1>11, ShrinksCurrent
<1> QED
  BY <1>5, <1>9, <1>10, <1>12

Stays(c, d, K) ==
  \A o \in Undeleted(c) :
    (c.pool[o].expire = 0 /\ c.pool[o].key \notin K) =>
       o \in Undeleted(d) /\ d.pool[o].expire = 0 /\ d.pool[o].key = c.pool[o].key

LEMMA KeepsStays ==
  ASSUME NEW c, NEW d, NEW K, Keeps(c, d, K)
  PROVE  Stays(c, d, K)
BY DEF Keeps, Stays

SamePlaces(c, d) == DOMAIN d.pool = DOMAIN c.pool

(* An entry called off: flagged, its expiry in the past.                   *)
Expunged(w, o) == [Marked(w, {o}) EXCEPT !.pool[o].expire = 1]

LEMMA ExpungedIs ==
  ASSUME NEW w, Sound(w), Exact(w), NEW o \in Undeleted(w), NEW e, e = Expunged(w, o)
  PROVE  /\ e \in Structs /\ Gone(w, e, {o}) /\ e.hot = w.hot /\ e.hotCount = w.hotCount
         /\ e.count = w.count - Cardinality({o})
         /\ e.hash = w.hash /\ e.names = w.names /\ e.tags = w.tags /\ e.sorted = w.sorted
<1> DEFINE D == {o}
           m == Marked(w, D)
           P == [m.pool EXCEPT ![o].expire = 1]
<1>1. w \in Structs /\ D \in SUBSET Undeleted(w) /\ o \in DOMAIN w.pool /\ \A x : x \notin D => x # o
  BY SoundIs
<1> HIDE DEF D
<1>2. w.count - Cardinality(D) \in Nat
  BY <1>1, GoneCounts
<1>3. /\ m.pool = [x \in DOMAIN w.pool |-> IF x \in D THEN Flagged(w.pool[x]) ELSE w.pool[x]]
      /\ m.count = w.count - Cardinality(D)
      /\ m.hash = w.hash /\ m.sorted = w.sorted /\ m.names = w.names /\ m.tags = w.tags
      /\ m.hot = w.hot /\ m.hotCount = w.hotCount /\ m.mem = w.mem
      /\ m.pool \in Seq(Entry) /\ m \in Structs
  <2> HIDE DEF m
  <2>1. m = Marked(w, D)
    BY DEF m
  <2> QED
    BY <1>1, <1>2, <2>1, MarkedIs
<1> HIDE DEF m
<1>4. /\ DOMAIN m.pool = DOMAIN w.pool
      /\ \A x \in DOMAIN w.pool : /\ m.pool[x].key = w.pool[x].key /\ m.pool[x].size = w.pool[x].size
                                  /\ m.pool[x].deleted = (x \in D \/ w.pool[x].deleted)
                                  /\ m.pool[x].expire = w.pool[x].expire /\ m.pool[x] \in Entry
  BY <1>3, MarkedEntries
<1>5. e = [m EXCEPT !.pool = P]
  BY Zenon DEF Expunged, m, D
<1>6. \A f \in Entry : LET g == [f EXCEPT !.expire = 1]
                       IN  g \in Entry /\ g.key = f.key /\ g.size = f.size /\ g.deleted = f.deleted
  BY DEF Entry
<1>7. /\ DOMAIN P = DOMAIN m.pool
      /\ \A x \in DOMAIN m.pool : P[x] = IF x = o THEN [m.pool[x] EXCEPT !.expire = 1] ELSE m.pool[x]
      /\ P = [x \in DOMAIN P |-> P[x]]
  OBVIOUS
<1> HIDE DEF P
<1>8. \A x \in DOMAIN w.pool : /\ P[x] \in Entry /\ P[x].key = m.pool[x].key /\ P[x].size = m.pool[x].size
                               /\ P[x].deleted = m.pool[x].deleted /\ (x # o => P[x].expire = m.pool[x].expire)
  BY <1>4, <1>6, <1>7, ZenonT(30)
<1>9. P \in Seq(Entry)
  <2>1. m.pool \in Seq(Entry) /\ DOMAIN P = DOMAIN m.pool /\ P = [x \in DOMAIN m.pool |-> P[x]]
    BY <1>3, <1>7
  <2>2. \A x \in DOMAIN m.pool : P[x] \in Entry
    BY <1>4, <1>8
  <2> QED
    BY <2>1, <2>2, PoolIs
<1>10. /\ e.pool = P /\ e.count = m.count /\ e.hash = m.hash /\ e.sorted = m.sorted
       /\ e.names = m.names /\ e.tags = m.tags /\ e.hot = m.hot /\ e.hotCount = m.hotCount
       /\ e.mem = m.mem /\ e \in Structs
  BY <1>3, <1>5, <1>9 DEF Structs
<1>11. DOMAIN e.pool = DOMAIN w.pool
  BY <1>4, <1>7, <1>10
<1>12. ASSUME NEW x \in DOMAIN w.pool
       PROVE  /\ e.pool[x].key = w.pool[x].key /\ e.pool[x].size = w.pool[x].size
              /\ e.pool[x].deleted = (x \in D \/ w.pool[x].deleted)
              /\ x \notin D => e.pool[x].expire = w.pool[x].expire
  <2>1. e.pool[x].deleted = (x \in D \/ w.pool[x].deleted)
    BY <1>4, <1>8, <1>10, Zenon
  <2>2. e.pool[x] = P[x]
    BY <1>10
  <2> QED
    BY <1>1, <1>4, <1>8, <2>1, <2>2
<1>13. Gone(w, e, D)
  BY <1>3, <1>10, <1>11, <1>12 DEF Gone
<1> QED
  BY <1>3, <1>10, <1>13 DEF D

(* cache_expire.                                                           *)
LEMMA ExpireSound ==
  ASSUME NEW c, Sound(c), Exact(c), NEW k \in Keys, NEW t \in 1..MaxNow, NEW o, o = Find(c, k, t), o # 0,
         NEW e, e = Expunged(Warmed(c, k, t), o)
  PROVE  /\ Sound(e) /\ Exact(e) /\ Stays(c, e, {k}) /\ SamePlaces(c, e)
         /\ \A n \in Nat : Heat(c, t, n) => Heat(e, t, n + 1)
         /\ \A l : l \in [Keys -> Nat] /\ Current(c, l, t) => Current(e, Forgotten(l, k), t)
<1>1. o \in DOMAIN c.pool /\ c.pool[o].key = k /\ o \in Nat /\ o \in Undeleted(c)
  BY FindIs
<1> DEFINE w == Warmed(c, k, t)
<1>2. /\ Sound(w) /\ Exact(w) /\ Same(c, w)
      /\ \A n \in Nat : Heat(c, t, n) => Heat(w, t, n + 1)
  <2> HIDE DEF w
  <2>1. w = Warmed(c, k, t)
    BY DEF w
  <2> QED
    BY <2>1, WarmSound
<1>3. e = Expunged(w, o)
  OBVIOUS
<1> HIDE DEF w
<1>4. Undeleted(w) = Undeleted(c) /\ Shrinks(c, w)
  BY <1>2, SameIs
<1>5. o \in Undeleted(w) /\ {o} \in SUBSET Undeleted(w)
  BY <1>1, <1>4
<1>6. /\ e \in Structs /\ Gone(w, e, {o}) /\ e.hot = w.hot /\ e.hotCount = w.hotCount
      /\ e.count = w.count - Cardinality({o})
      /\ e.hash = w.hash /\ e.names = w.names /\ e.tags = w.tags /\ e.sorted = w.sorted
  BY <1>2, <1>3, <1>5, ExpungedIs
<1>7. HotSound(e)
  <2>1. HotSound(w)
    BY <1>2, HotSoundIs
  <2> QED
    BY <1>6, <2>1 DEF HotSound, Gone
<1>8. Sound(e) /\ Undeleted(e) = Undeleted(w) \ {o} /\ Exact(e)
  BY <1>2, <1>5, <1>6, <1>7, GoneSound
<1>9. DOMAIN e.pool = DOMAIN c.pool /\ \A p \in DOMAIN c.pool : e.pool[p].key = c.pool[p].key
  BY <1>2, <1>6 DEF Same, Gone
<1>11. Undeleted(e) = Undeleted(c) \ {o}
  BY <1>4, <1>8, Zenon
<1>12. \A n \in Nat : Heat(c, t, n) => Heat(e, t, n + 1)
  BY <1>2, <1>6 DEF Heat, Fresh
<1>13. ASSUME NEW l \in [Keys -> Nat], Current(c, l, t) PROVE Current(e, Forgotten(l, k), t)
  <2>1. Current(w, l, t)
    BY <1>4, <1>13, ShrinksCurrent
  <2>2. Shrinks(w, e)
    BY <1>2, <1>6, <1>8, GoneShrinks
  <2>3. Current(e, l, t)
    BY <1>2, <2>1, <2>2, ShrinksCurrent
  <2> QED
    BY <1>1, <1>8, <1>9, <1>11, <1>13, <2>3, OneForgets
<1>14. Stays(c, e, {k})
  <2>1. ASSUME NEW p \in Undeleted(c), c.pool[p].key \notin {k}
        PROVE  p \in Undeleted(e) /\ e.pool[p].expire = c.pool[p].expire /\ e.pool[p].key = c.pool[p].key
    <3>1. p \in DOMAIN c.pool /\ p # o
      BY <1>1, <2>1 DEF Undeleted
    <3>2. p \in Undeleted(e)
      BY <1>11, <3>1
    <3> QED
      BY <1>2, <1>6, <3>1, <3>2 DEF Same, Gone
  <2> QED
    BY <2>1 DEF Stays
<1> QED
  BY <1>8, <1>9, <1>12, <1>13, <1>14 DEF SamePlaces

(* cache_compact.                                                          *)
Compacted(c, t) == [c EXCEPT !.sorted = {o \in @ : Readable(c, o, t)}, !.hot = {}, !.hotCount = 0]

LEMMA CompactSound ==
  ASSUME NEW c, Sound(c), Exact(c), NEW t, NEW e, e = Compacted(c, t)
  PROVE  /\ Sound(e) /\ Exact(e) /\ Keeps(c, e, {}) /\ Len(e.pool) = Len(c.pool)
         /\ \A l : Current(c, l, t) => Current(e, l, t)
<1> DEFINE S == {o \in c.sorted : Readable(c, o, t)}
<1>1. c \in Structs /\ S \subseteq c.sorted
  BY SoundIs
<1>2. e = [c EXCEPT !.sorted = S, !.hot = {}, !.hotCount = 0]
  BY Zenon DEF Compacted
<1> HIDE DEF S
<1>3. /\ e.pool = c.pool /\ e.count = c.count /\ e.hash = c.hash /\ e.sorted = S
      /\ e.names = c.names /\ e.tags = c.tags /\ e.hot = {} /\ e.hotCount = 0 /\ e.mem = c.mem
      /\ e \in Structs
  <2> DEFINE none == {}
             zero == 0
  <2>1. S \in SUBSET Nat /\ none \in SUBSET Slots /\ zero \in Nat
    BY <1>1 DEF Structs
  <2>2. e = [c EXCEPT !.sorted = S, !.hot = none, !.hotCount = zero]
    BY <1>2
  <2> HIDE DEF none, zero
  <2>3. /\ e.pool = c.pool /\ e.count = c.count /\ e.hash = c.hash /\ e.sorted = S
        /\ e.names = c.names /\ e.tags = c.tags /\ e.hot = none /\ e.hotCount = zero /\ e.mem = c.mem
        /\ e \in Structs
    BY <1>1, <2>1, <2>2 DEF Structs
  <2> QED
    BY <2>3 DEF none, zero
<1>4. Undeleted(e) = Undeleted(c)
  BY <1>3 DEF Undeleted
<1>5. Bytes(e, Undeleted(e)) = Bytes(c, Undeleted(c))
  BY <1>3, <1>4 DEF Bytes
<1>6. IsFiniteSet({}) /\ Cardinality({}) = 0
  BY FS_EmptySet
<1>7. Sound(e) /\ Exact(e)
  <2>1. IsFiniteSet(e.hot) /\ Cardinality(e.hot) = 0
    BY <1>3, <1>6, Zenon
  <2>2. e.count = Cardinality(Undeleted(e))
    <3>1. c.count = Cardinality(Undeleted(c))
      BY DEF Exact
    <3> QED
      BY <1>3, <1>4, <3>1, Zenon
  <2>3. Exact(e)
    BY <1>3, <2>1, <2>2, LimitsAre DEF Exact
  <2>4. Sound(e)
    BY <1>1, <1>3, <1>5, <2>1 DEF Sound
  <2> QED
    BY <2>3, <2>4
<1>8. Keeps(c, e, {})
  BY <1>3, <1>4 DEF Keeps
<1>9. ASSUME NEW l, Current(c, l, t) PROVE Current(e, l, t)
  <2>1. ASSUME NEW o \in Undeleted(e), o \notin e.sorted
        PROVE  Expired(e.pool[o], t) /\ \A p \in e.sorted : e.pool[p].key # e.pool[o].key
    <3>1. o \in Undeleted(c)
      BY <1>4
    <3>2. CASE o \notin c.sorted
      BY <1>1, <1>3, <1>9, <3>1, <3>2 DEF Current
    <3>3. CASE o \in c.sorted
      <4>1. ~Readable(c, o, t)
        BY <1>3, <2>1, <3>3 DEF S
      <4>2. Expired(c.pool[o], t)
        BY <3>1, <4>1 DEF Readable, Undeleted
      <4>3. ASSUME NEW p \in e.sorted, e.pool[p].key = e.pool[o].key PROVE FALSE
        <5>1. p \in c.sorted /\ Readable(c, p, t)
          BY <1>3 DEF S
        <5>2. p \in Undeleted(c)
          BY <5>1 DEF Sound, Undeleted, Readable
        <5>3. c.hash[c.pool[p].key] = p /\ c.hash[c.pool[o].key] = o
          BY <1>9, <3>1, <5>2 DEF Current
        <5>4. p = o
          BY <1>3, <4>3, <5>3
        <5> QED
          BY <4>1, <5>1, <5>4
      <4> QED
        BY <1>3, <4>2, <4>3
    <3> QED
      BY <3>2, <3>3
  <2>2. ASSUME NEW o \in Undeleted(e)
        PROVE  /\ e.hash[e.pool[o].key] = o
               /\ Expired(e.pool[o], t) \/ l[e.pool[o].key] = o
               /\ o \in e.names \intersect e.tags
    BY <1>3, <1>4, <1>9 DEF Current
  <2>3. \A k \in Keys : /\ l[k] \in {0} \union DOMAIN e.pool
                        /\ l[k] # 0 => e.pool[l[k]].key = k
    BY <1>3, <1>9 DEF Current
  <2> QED
    BY <2>1, <2>2, <2>3 DEF Current
<1> QED
  BY <1>3, <1>7, <1>8, <1>9

(* cache_del_namespace.                                                    *)
Listed(c) == {o \in c.sorted : c.pool[o].key \in Group}
Deletes(c) == {o \in Listed(c) : ~c.pool[o].deleted}
CalledOff(P, D) == [o \in DOMAIN P |-> IF o \in D THEN [P[o] EXCEPT !.expire = 1] ELSE P[o]]
ZeroedOn(hash, K) == [k \in Keys |-> IF k \in K THEN 0 ELSE hash[k]]

Cleared(c, N) ==
  LET m == Marked(c, Deletes(c))
  IN  [m EXCEPT !.pool = CalledOff(m.pool, Deletes(c)), !.mem = c.mem - Bytes(c, Deletes(c)), !.tags = c.tags \ Deletes(c),
                !.hash = ZeroedOn(c.hash, KeysOf(c, Listed(c))), !.names = N, !.sorted = c.sorted \ Listed(c)]

LEMMA ClearedIs ==
  ASSUME NEW c, Sound(c), Exact(c), NEW N \in ByKeyWithout(c, c.names, Listed(c)), NEW e, e = Cleared(c, N)
  PROVE  /\ e \in Structs /\ Gone(c, e, Deletes(c)) /\ e.hot = c.hot /\ e.hotCount = c.hotCount
         /\ e.count = c.count - Cardinality(Deletes(c))
         /\ e.hash = ZeroedOn(c.hash, KeysOf(c, Listed(c))) /\ e.names = N
         /\ e.sorted = c.sorted \ Listed(c) /\ e.tags = c.tags \ Deletes(c)
         /\ Deletes(c) \in SUBSET Undeleted(c)
<1> DEFINE D == Deletes(c)
           m == Marked(c, D)
           P == CalledOff(m.pool, D)
           x == c.mem - Bytes(c, D)
           H == ZeroedOn(c.hash, KeysOf(c, Listed(c)))
<1>1. c \in Structs /\ D \in SUBSET Undeleted(c)
  BY SoundIs DEF Deletes, Listed, Undeleted, Sound
<1> HIDE DEF D
<1>2. c.count - Cardinality(D) \in Nat /\ x \in Nat
  BY <1>1, GoneCounts
<1>3. /\ m.pool = [o \in DOMAIN c.pool |-> IF o \in D THEN Flagged(c.pool[o]) ELSE c.pool[o]]
      /\ m.count = c.count - Cardinality(D)
      /\ m.hash = c.hash /\ m.sorted = c.sorted /\ m.names = c.names /\ m.tags = c.tags
      /\ m.hot = c.hot /\ m.hotCount = c.hotCount /\ m.mem = c.mem
      /\ m.pool \in Seq(Entry) /\ m \in Structs
  <2> HIDE DEF m
  <2>1. m = Marked(c, D)
    BY DEF m
  <2> QED
    BY <1>1, <1>2, <2>1, MarkedIs
<1> HIDE DEF m
<1>4. /\ DOMAIN m.pool = DOMAIN c.pool
      /\ \A o \in DOMAIN c.pool : /\ m.pool[o].key = c.pool[o].key /\ m.pool[o].size = c.pool[o].size
                                  /\ m.pool[o].deleted = (o \in D \/ c.pool[o].deleted)
                                  /\ m.pool[o].expire = c.pool[o].expire /\ m.pool[o] \in Entry
  BY <1>3, MarkedEntries, SMTT(30)
<1>5. \A f \in Entry : LET g == [f EXCEPT !.expire = 1]
                       IN  g \in Entry /\ g.key = f.key /\ g.size = f.size /\ g.deleted = f.deleted
  BY DEF Entry
<1>6. /\ DOMAIN P = DOMAIN m.pool /\ P = [o \in DOMAIN m.pool |-> P[o]]
      /\ \A o \in DOMAIN m.pool : P[o] = IF o \in D THEN [m.pool[o] EXCEPT !.expire = 1] ELSE m.pool[o]
  BY DEF CalledOff
<1>7. /\ N \in SUBSET Nat /\ H \in [Keys -> Nat] /\ c.tags \ D \in SUBSET Nat /\ c.sorted \ Listed(c) \in SUBSET Nat
      /\ N \subseteq c.names /\ \A k \in Keys : H[k] \in {0, c.hash[k]}
  BY <1>1 DEF ByKeyWithout, Structs, ZeroedOn
<1>8. e = [m EXCEPT !.pool = P, !.mem = x, !.tags = c.tags \ D, !.hash = H, !.names = N, !.sorted = c.sorted \ Listed(c)]
  BY Zenon DEF Cleared, m, D
<1> HIDE DEF P, x, H
<1>9. \A o \in DOMAIN c.pool : /\ P[o] \in Entry /\ P[o].key = m.pool[o].key /\ P[o].size = m.pool[o].size
                               /\ P[o].deleted = m.pool[o].deleted /\ (o \notin D => P[o].expire = m.pool[o].expire)
  BY <1>4, <1>5, <1>6, ZenonT(30)
<1>10. P \in Seq(Entry)
  <2>1. \A o \in DOMAIN m.pool : P[o] \in Entry
    BY <1>4, <1>9
  <2> QED
    BY <1>3, <1>6, <2>1, PoolIs
<1>11. /\ e.pool = P /\ e.count = m.count /\ e.hash = H /\ e.sorted = c.sorted \ Listed(c)
       /\ e.names = N /\ e.tags = c.tags \ D /\ e.hot = m.hot /\ e.hotCount = m.hotCount
       /\ e.mem = x /\ e \in Structs
  <2> DEFINE T == c.tags \ D
             S == c.sorted \ Listed(c)
  <2>1. T \in SUBSET Nat /\ S \in SUBSET Nat /\ e = [m EXCEPT !.pool = P, !.mem = x, !.tags = T, !.hash = H, !.names = N, !.sorted = S]
    BY <1>7, <1>8
  <2> HIDE DEF T, S
  <2>2. /\ e.pool = P /\ e.count = m.count /\ e.hash = H /\ e.sorted = S
        /\ e.names = N /\ e.tags = T /\ e.hot = m.hot /\ e.hotCount = m.hotCount
        /\ e.mem = x /\ e \in Structs
    <3>1. m \in Structs /\ P \in Seq(Entry) /\ x \in Nat /\ H \in [Keys -> Nat] /\ N \in SUBSET Nat
      BY <1>2, <1>3, <1>7, <1>10
    <3>2. e = Grown(m, P, m.count, x, H, N, T, S)
      BY <2>1, <3>1 DEF Structs, Grown
    <3>3. m.count \in Nat
      BY <3>1 DEF Structs
    <3> QED
      BY <2>1, <3>1, <3>2, <3>3, FieldsIs
  <2> QED
    BY <2>2 DEF T, S
<1>12. DOMAIN e.pool = DOMAIN c.pool
  BY <1>4, <1>6, <1>11
<1>13. ASSUME NEW o \in DOMAIN c.pool
       PROVE  /\ e.pool[o].key = c.pool[o].key /\ e.pool[o].size = c.pool[o].size
              /\ e.pool[o].deleted = (o \in D \/ c.pool[o].deleted)
              /\ o \notin D => e.pool[o].expire = c.pool[o].expire
  <2>1. e.pool[o].deleted = (o \in D \/ c.pool[o].deleted)
    BY <1>4, <1>9, <1>11, Zenon
  <2>2. e.pool[o] = P[o]
    BY <1>11
  <2> QED
    BY <1>4, <1>9, <2>1, <2>2
<1>14. Gone(c, e, D)
  BY <1>7, <1>11, <1>12, <1>13 DEF Gone, x
<1> QED
  BY <1>1, <1>3, <1>11, <1>14 DEF D, H

LEMMA ClearSound ==
  ASSUME NEW c, Sound(c), Exact(c), NEW t, NEW N \in ByKeyWithout(c, c.names, Listed(c)), NEW e, e = Cleared(c, N)
  PROVE  /\ Sound(e) /\ Exact(e) /\ Keeps(c, e, Group) /\ Len(e.pool) = Len(c.pool) /\ e.hot = c.hot
         /\ \A l, m : (Current(c, l, t) /\ \A k \in Keys : m[k] = IF k \in Group THEN 0 ELSE l[k]) => Current(e, m, t)
<1> DEFINE D == Deletes(c)
           K == KeysOf(c, Listed(c))
<1>1. /\ e \in Structs /\ Gone(c, e, D) /\ e.hot = c.hot /\ e.hotCount = c.hotCount
      /\ e.count = c.count - Cardinality(D)
      /\ \A k \in Keys : e.hash[k] = IF k \in K THEN 0 ELSE c.hash[k]
      /\ e.names = N /\ e.sorted = c.sorted \ Listed(c) /\ e.tags = c.tags \ D
      /\ D \in SUBSET Undeleted(c)
  <2>1. /\ e \in Structs /\ Gone(c, e, D) /\ e.hot = c.hot /\ e.hotCount = c.hotCount
        /\ e.count = c.count - Cardinality(D)
        /\ e.hash = ZeroedOn(c.hash, K)
        /\ e.names = N /\ e.sorted = c.sorted \ Listed(c) /\ e.tags = c.tags \ D
        /\ D \in SUBSET Undeleted(c)
    BY ClearedIs
  <2> HIDE DEF D, K
  <2>2. \A k \in Keys : e.hash[k] = IF k \in K THEN 0 ELSE c.hash[k]
    BY <2>1 DEF ZeroedOn
  <2> QED
    BY <2>1, <2>2
<1>2. /\ \A o \in Listed(c) : o \in c.sorted /\ c.pool[o].key \in Group
      /\ \A k \in K : k \in Group /\ \E q \in c.sorted : c.pool[q].key = k
      /\ \A o \in D : c.pool[o].key \in Group
      /\ \A o \in Undeleted(c) : (o \in c.sorted /\ c.pool[o].key \in Group) => o \in D
  BY DEF Deletes, Listed, KeysOf, Undeleted
<1>3. \A o \in c.names : c.pool[o].key \notin K => o \in N
  <2>1. IsFiniteSet(c.names) /\ \A o \in c.names : c.pool[o].key \in Keys
    BY SoundIs, FS_Subset DEF Sound
  <2>2. \A M \in ByKeyWithout(c, c.names, Listed(c)) : \A o \in c.names : c.pool[o].key \notin KeysOf(c, Listed(c)) => o \in M
    BY <2>1, ByKeyKeeps
  <2> QED
    BY <2>2
<1> HIDE DEF D, K
<1>4. HotSound(e)
  <2>1. HotSound(c)
    BY HotSoundIs
  <2> QED
    BY <1>1, <2>1 DEF HotSound, Gone
<1>5. Sound(e) /\ Undeleted(e) = Undeleted(c) \ D /\ Len(e.pool) = Len(c.pool) /\ Exact(e)
  BY <1>1, <1>4, GoneSound
<1>6. Keeps(c, e, Group)
  <2>1. ASSUME NEW o \in Undeleted(c), c.pool[o].key \notin Group
        PROVE  o \in Undeleted(e) /\ e.pool[o].expire = c.pool[o].expire /\ e.pool[o].key = c.pool[o].key
    <3>1. o \notin D /\ o \in DOMAIN c.pool
      BY <1>2, <2>1 DEF Undeleted
    <3> QED
      BY <1>1, <1>5, <3>1 DEF Gone
  <2> QED
    BY <1>1, <2>1 DEF Keeps, Gone
<1>7. ASSUME NEW l, NEW m, Current(c, l, t), \A k \in Keys : m[k] = IF k \in Group THEN 0 ELSE l[k]
      PROVE  Current(e, m, t)
  <2>1. ASSUME NEW o \in Undeleted(e)
        PROVE  /\ o \in Undeleted(c) /\ o \notin D /\ o \in DOMAIN c.pool /\ c.pool[o].key \in Keys
               /\ e.pool[o].key = c.pool[o].key /\ e.pool[o].expire = c.pool[o].expire
    <3>1. o \in Undeleted(c) /\ o \notin D /\ o \in DOMAIN c.pool
      BY <1>5 DEF Undeleted
    <3> QED
      BY <1>1, <3>1, SoundIs DEF Gone
  <2>2. ASSUME NEW o \in Undeleted(e), c.pool[o].key \in Group
        PROVE  Expired(c.pool[o], t) /\ \A p \in c.sorted : c.pool[p].key # c.pool[o].key
    <3>1. o \notin c.sorted
      BY <1>2, <2>1, <2>2
    <3> QED
      BY <1>7, <2>1, <3>1 DEF Current
  <2>3. ASSUME NEW o \in Undeleted(e) PROVE c.pool[o].key \notin K
    BY <1>2, <2>2
  <2>4. ASSUME NEW o \in Undeleted(e)
        PROVE  /\ o \in Undeleted(c) /\ e.pool[o].expire = c.pool[o].expire
               /\ e.hash[c.pool[o].key] = c.hash[c.pool[o].key]
               /\ o \in c.names \intersect c.tags => o \in e.names \intersect e.tags
               /\ o \in c.sorted => o \in e.sorted
    <3>1. o \notin Listed(c)
      <4>1. ASSUME o \in Listed(c) PROVE c.pool[o].key \in K
        BY <4>1 DEF K, KeysOf
      <4> QED
        BY <2>3, <4>1
    <3> QED
      BY <1>1, <1>3, <2>1, <2>3, <3>1
  <2>5. \A k \in Keys : e.hash[k] \in {0, c.hash[k]}
    BY <1>1
  <2>6. Shrinks(c, e)
    BY <1>1, <2>4, <2>5 DEF Shrinks, Gone
  <2>7. Current(e, l, t)
    BY <1>7, <2>6, ShrinksCurrent
  <2>8. \A o \in Undeleted(e) : e.pool[o].key \in Keys /\ (e.pool[o].key \in Group => Expired(e.pool[o], t))
    BY <2>1, <2>2 DEF Expired
  <2> QED
    BY <1>7, <2>7, <2>8, Forgets
<1> QED
  BY <1>1, <1>5, <1>6, <1>7

(* The clock moves on.                                                     *)
LEMMA TickCurrent ==
  ASSUME NEW c, Sound(c), NEW l, NEW t \in Nat, Current(c, l, t)
  PROVE  Current(c, l, t + 1)
<1>1. \A o \in Undeleted(c) : Expired(c.pool[o], t) => Expired(c.pool[o], t + 1)
  BY SoundIs DEF Expired
<1> QED
  BY <1>1 DEF Current

LEMMA TickHeat ==
  ASSUME NEW c, NEW t \in Nat, c.hot \in SUBSET Slots, NEW n, Heat(c, t, n)
  PROVE  Heat(c, t + 1, 0)
<1>1. \A h \in c.hot : h.used \in Nat /\ h.used <= t
  BY LimitsAre DEF Heat, Slots
<1>2. Fresh(c, t + 1) = {}
  BY <1>1 DEF Fresh
<1>3. Cardinality(Fresh(c, t + 1)) = 0
  BY <1>2, FS_EmptySet, Zenon
<1> QED
  BY <1>1, <1>3 DEF Heat

-----------------------------------------------------------------------------
(* The actions.                                                            *)

(* The write past the table takes more look-ups in a millisecond than the  *)
(* table has slots.                                                        *)
Cool ==
  \/ cache.hotCount <= HotSize /\ Heat(cache, now, calls)
  \/ cache.hotCount = HotSize + 1 /\ calls > HotSize

Listing == Current(cache, latest, now)

(* What every step does, K being the keys it is about.                     *)
Turn(K) ==
  /\ Invariant'
  /\ Cool => Cool'
  /\ (Careful /\ Listing) => Listing'
  /\ Stays(cache, cache', K)

LEMMA InvariantIs ==
  ASSUME Invariant
  PROVE  /\ Sound(cache) /\ now \in 1..MaxNow /\ now \in Nat /\ calls \in Nat /\ calls \in 0..CallsPerMs /\ hung \in BOOLEAN
         /\ DOMAIN cache.pool = 1..Len(cache.pool) /\ Len(cache.pool) \in Nat /\ IsFiniteSet(cache.hot)
         /\ cache.hot \in SUBSET Slots
         /\ latest \in [Keys -> Nat] /\ \A k \in Keys : latest[k] \in {0} \union DOMAIN cache.pool
         /\ Alive => Exact(cache)
<1>1. Sound(cache)
  BY DEF Invariant
<1>2. DOMAIN cache.pool = 1..Len(cache.pool) /\ Len(cache.pool) \in Nat /\ cache \in Structs
  BY <1>1, SoundIs
<1>3. latest \in [Keys -> {0} \union DOMAIN cache.pool]
  BY DEF Invariant
<1>4. latest \in [Keys -> Nat] /\ \A k \in Keys : latest[k] \in {0} \union DOMAIN cache.pool
  BY <1>2, <1>3
<1>5. IsFiniteSet(cache.hot) /\ cache.hot \in SUBSET Slots
  BY <1>1, <1>2 DEF Sound, Structs
<1>6. now \in 1..MaxNow /\ calls \in 0..CallsPerMs /\ hung \in BOOLEAN
  BY DEF Invariant
<1>7. now \in Nat /\ calls \in Nat
  BY <1>6, LimitsAre
<1>8. Alive => Exact(cache)
  BY DEF Alive, Invariant
<1> QED
  BY <1>1, <1>2, <1>4, <1>5, <1>6, <1>7, <1>8

LEMMA InvariantNext ==
  ASSUME Invariant, Sound(cache'), cache'.hotCount <= HotSize => Exact(cache'), DOMAIN cache.pool \subseteq DOMAIN cache'.pool,
         now' \in 1..MaxNow, calls' \in 0..CallsPerMs, hung' \in BOOLEAN,
         \E m \in [Keys -> Nat] : latest' = m /\ \A k \in Keys : m[k] \in {0, latest[k]} \union DOMAIN cache'.pool
  PROVE  Invariant'
<1>1. latest' \in [Keys -> {0} \union DOMAIN cache'.pool]
  <2>1. PICK m \in [Keys -> Nat] : latest' = m /\ \A k \in Keys : m[k] \in {0, latest[k]} \union DOMAIN cache'.pool
    OBVIOUS
  <2>2. \A k \in Keys : latest[k] \in {0} \union DOMAIN cache.pool
    BY InvariantIs
  <2> QED
    BY <2>1, <2>2
<1> QED
  BY <1>1 DEF Invariant

LEMMA CoolNext ==
  ASSUME Exact(cache'), Heat(cache', now', calls')
  PROVE  Cool'
<1>1. cache'.hotCount <= HotSize
  BY DEF Exact
<1> QED
  BY <1>1 DEF Cool

LEMMA CoolNow ==
  ASSUME Exact(cache), Cool
  PROVE  Heat(cache, now, calls)
<1>1. ~(cache.hotCount = HotSize + 1)
  BY LimitsAre DEF Exact
<1> QED
  BY <1>1 DEF Cool

LEMMA SetTurn ==
  ASSUME Invariant, NEW k \in Keys, NEW size \in Sizes, NEW ttl \in TTLs, Set(k, size, ttl)
  PROVE  Turn({k})
<1>1. Exact(cache)
  BY InvariantIs DEF Set
<1>2. PICK r \in SetResults(cache, k, size, ttl, now) :
        /\ cache' = r.c
        /\ latest' = IF r.ok THEN [latest EXCEPT ![k] = Len(r.c.pool)] ELSE latest
  BY DEF Set
<1>3. now' = now /\ calls' = calls /\ hung' = hung
  BY DEF Set
<1>4. /\ Sound(cache) /\ now \in 1..MaxNow /\ calls \in Nat /\ calls \in 0..CallsPerMs /\ hung \in BOOLEAN
      /\ IsFiniteSet(cache.hot) /\ latest \in [Keys -> Nat] /\ \A x \in Keys : latest[x] \in {0} \union DOMAIN cache.pool
  BY InvariantIs
<1>5. Sound(r.c) /\ Exact(r.c) /\ r.ok \in BOOLEAN /\ Keeps(cache, r.c, {k})
  BY <1>1, <1>4, SetSound
<1>6. \A l : l \in [Keys -> Nat] /\ Current(cache, l, now) =>
               Current(r.c, IF r.ok THEN [l EXCEPT ![k] = Len(r.c.pool)] ELSE l, now)
  BY <1>1, <1>4, SetSound
<1>7. DOMAIN cache.pool \subseteq DOMAIN cache'.pool /\ cache'.hot \subseteq cache.hot
  BY <1>2, <1>5 DEF Keeps
<1>8. Invariant'
  <2> DEFINE m == IF r.ok THEN [latest EXCEPT ![k] = Len(r.c.pool)] ELSE latest
  <2>1. Len(r.c.pool) \in Nat /\ DOMAIN r.c.pool = 1..Len(r.c.pool) /\ Len(cache.pool) \in Nat
    BY <1>4, <1>5, SoundIs
  <2>2. m \in [Keys -> Nat] /\ \A x \in Keys : m[x] \in {0, latest[x]} \union DOMAIN cache'.pool
    BY <1>2, <1>4, <1>5, <2>1
  <2>3. latest' = m
    BY <1>2
  <2> HIDE DEF m
  <2>4. Sound(cache') /\ Exact(cache') /\ now' \in 1..MaxNow /\ calls' \in 0..CallsPerMs /\ hung' \in BOOLEAN
    BY <1>2, <1>3, <1>4, <1>5
  <2> QED
    BY <1>7, <2>2, <2>3, <2>4, InvariantNext
<1>9. Cool => Cool'
  <2>1. Cool => Heat(cache', now, calls)
    BY <1>1, <1>4, <1>7, HotFewer, CoolNow
  <2> QED
    BY <1>2, <1>3, <1>5, <2>1, CoolNext
<1>10. Listing => Listing'
  BY <1>2, <1>3, <1>4, <1>6 DEF Listing
<1>11. Stays(cache, cache', {k})
  BY <1>2, <1>5, KeepsStays
<1> QED
  BY <1>8, <1>9, <1>10, <1>11 DEF Turn

LEMMA BatchTurn ==
  ASSUME Invariant, NEW items \in Batches, BatchSet(items)
  PROVE  Turn(BatchKeys(items))
<1>1. Exact(cache)
  BY InvariantIs DEF BatchSet
<1>2. now' = now /\ calls' = calls /\ (Careful => IsCareful(cache, items))
  BY DEF BatchSet
<1>3. /\ Sound(cache) /\ now \in 1..MaxNow /\ calls \in Nat /\ calls \in 0..CallsPerMs /\ hung \in BOOLEAN
      /\ IsFiniteSet(cache.hot) /\ latest \in [Keys -> Nat] /\ \A x \in Keys : latest[x] \in {0} \union DOMAIN cache.pool
  BY InvariantIs
<1>4. CASE hung' = TRUE /\ UNCHANGED <<cache, latest>>
  <2>1. Invariant'
    <3>1. latest' = latest /\ cache' = cache /\ hung' \in BOOLEAN
      BY <1>4
    <3>2. \E m \in [Keys -> Nat] : latest' = m /\ \A k \in Keys : m[k] \in {0, latest[k]} \union DOMAIN cache'.pool
      BY <1>3, <3>1
    <3> QED
      BY <1>1, <1>2, <1>3, <3>1, <3>2, InvariantNext
  <2>2. (Cool => Cool') /\ (Listing => Listing')
    BY <1>2, <1>4 DEF Cool, Listing
  <2>3. Stays(cache, cache', BatchKeys(items))
    BY <1>4 DEF Stays
  <2> QED
    BY <2>1, <2>2, <2>3 DEF Turn
<1>5. CASE hung' = FALSE /\ \E r \in BatchResults(cache, items, now) : cache' = r.c /\ latest' = LatestAfter(latest, items, r)
  <2>1. PICK r \in BatchResults(cache, items, now) : cache' = r.c /\ latest' = LatestAfter(latest, items, r)
    BY <1>5
  <2>2. /\ Sound(r.c) /\ Exact(r.c) /\ r.stored \in 0..Len(items) /\ r.stored <= Len(r.c.pool)
        /\ Keeps(cache, r.c, BatchKeys(items))
    BY <1>1, <1>3, BatchSound
  <2>3. IsCareful(cache, items) => \A l : l \in [Keys -> Nat] /\ Current(cache, l, now) =>
                                              Current(r.c, LatestAfter(l, items, r), now)
    BY <1>1, <1>3, BatchSound
  <2>4. DOMAIN cache.pool \subseteq DOMAIN cache'.pool /\ cache'.hot \subseteq cache.hot
    BY <2>1, <2>2 DEF Keeps
  <2>5. Invariant'
    <3> DEFINE m == LatestAfter(latest, items, r)
               n == Len(r.c.pool) - r.stored
    <3>1. Len(r.c.pool) \in Nat /\ DOMAIN r.c.pool = 1..Len(r.c.pool) /\ Len(items) \in {1, 2}
      BY <2>2, SoundIs, BatchIs
    <3>2. n \in Nat /\ Len(r.c.pool) = n + r.stored
      BY <2>2, <3>1
    <3> HIDE DEF n
    <3>3. m \in [Keys -> Nat] /\ \A x \in Keys : m[x] \in {latest[x]} \union 1..Len(r.c.pool)
      BY <1>3, <2>2, <3>2, LatestType
    <3> HIDE DEF m
    <3>4. \E f \in [Keys -> Nat] : latest' = f /\ \A x \in Keys : f[x] \in {0, latest[x]} \union DOMAIN cache'.pool
      <4>1. latest' = m
        BY <2>1 DEF m
      <4>2. \A x \in Keys : m[x] \in {0, latest[x]} \union DOMAIN cache'.pool
        BY <2>1, <3>1, <3>3
      <4> QED
        BY <3>3, <4>1, <4>2
    <3>5. Sound(cache') /\ Exact(cache') /\ now' \in 1..MaxNow /\ calls' \in 0..CallsPerMs /\ hung' \in BOOLEAN
      BY <1>2, <1>3, <1>5, <2>1, <2>2
    <3> QED
      BY <2>4, <3>4, <3>5, InvariantNext
  <2>6. Cool => Cool'
    <3>1. Cool => Heat(cache', now, calls)
      BY <1>1, <1>3, <2>4, HotFewer, CoolNow
    <3> QED
      BY <1>2, <2>1, <2>2, <3>1, CoolNext
  <2>7. Careful /\ Listing => Listing'
    BY <1>2, <1>3, <2>1, <2>3 DEF Listing
  <2>8. Stays(cache, cache', BatchKeys(items))
    BY <2>1, <2>2, KeepsStays
  <2> QED
    BY <2>5, <2>6, <2>7, <2>8 DEF Turn
<1> QED
  BY <1>4, <1>5 DEF BatchSet, LatestAfter

LEMMA StillInvariant ==
  ASSUME Invariant, Sound(cache'), cache'.hotCount <= HotSize => Exact(cache'), DOMAIN cache.pool \subseteq DOMAIN cache'.pool,
         now' \in 1..MaxNow, calls' \in 0..CallsPerMs, hung' \in BOOLEAN, latest' = latest
  PROVE  Invariant'
<1>1. \E m \in [Keys -> Nat] : latest' = m /\ \A k \in Keys : m[k] \in {0, latest[k]} \union DOMAIN cache'.pool
  BY InvariantIs
<1> QED
  BY <1>1, InvariantNext

LEMMA KeyForgotten ==
  ASSUME Invariant, Sound(cache'), Exact(cache'), DOMAIN cache.pool \subseteq DOMAIN cache'.pool,
         now' = now, calls' \in 0..CallsPerMs, hung' = hung, NEW k \in Keys, latest' = Forgotten(latest, k)
  PROVE  Invariant'
<1> DEFINE m == Forgotten(latest, k)
<1>1. m \in [Keys -> Nat] /\ \A x \in Keys : m[x] \in {0, latest[x]}
  BY InvariantIs DEF Forgotten
<1>2. latest' = m
  OBVIOUS
<1> HIDE DEF m
<1>3. \E f \in [Keys -> Nat] : latest' = f /\ \A x \in Keys : f[x] \in {0, latest[x]} \union DOMAIN cache'.pool
  BY <1>1, <1>2
<1> QED
  BY <1>3, InvariantIs, InvariantNext

LEMMA Hotter ==
  ASSUME NEW c, IsFiniteSet(c.hot), NEW t, NEW n \in Nat, Heat(c, t, n)
  PROVE  Heat(c, t, n + 1)
<1>1. Fresh(c, t) \subseteq c.hot
  BY DEF Fresh
<1>2. IsFiniteSet(Fresh(c, t))
  BY <1>1, FS_Subset
<1>3. Cardinality(Fresh(c, t)) \in Nat
  BY <1>2, FS_CardinalityType
<1> QED
  BY <1>3 DEF Heat

(* cache_del_namespace as the action writes it.                            *)
ClearedWith(c, N, D, L) ==
  [Marked(c, D) EXCEPT !.pool   = [o \in DOMAIN @ |-> IF o \in D THEN [@[o] EXCEPT !.expire = 1] ELSE @[o]],
                       !.mem    = @ - Bytes(c, D),
                       !.tags   = @ \ D,
                       !.hash   = [k \in Keys |-> IF k \in KeysOf(c, L) THEN 0 ELSE @[k]],
                       !.names  = N,
                       !.sorted = @ \ L]

LEMMA MarkedRest ==
  ASSUME NEW c \in Structs, NEW D, NEW m, m = Marked(c, D)
  PROVE  m.hash = c.hash /\ m.sorted = c.sorted /\ m.tags = c.tags /\ m.mem = c.mem
<1>1. \E p, n : m = [c EXCEPT !.pool = p, !.count = n]
  BY Zenon DEF Marked
<1> QED
  BY <1>1 DEF Structs

LEMMA ClearedForm ==
  ASSUME NEW c \in Structs, NEW N, NEW D, D = Deletes(c), NEW L, L = Listed(c), NEW m, m = Marked(c, D)
  PROVE  ClearedWith(c, N, D, L) = Cleared(c, N)
<1>1. m.hash = c.hash /\ m.sorted = c.sorted /\ m.tags = c.tags /\ m.mem = c.mem
  BY MarkedRest
<1>2. ClearedWith(c, N, D, L) = [m EXCEPT !.pool = CalledOff(m.pool, D), !.mem = c.mem - Bytes(c, D), !.tags = c.tags \ D,
                                          !.hash = ZeroedOn(c.hash, KeysOf(c, L)), !.names = N, !.sorted = c.sorted \ L]
  BY <1>1, Zenon DEF ClearedWith, CalledOff, ZeroedOn
<1> QED
  BY <1>2, Zenon DEF Cleared

LEMMA LookUpIs ==
  ASSUME Invariant, LooksUp
  PROVE  /\ Sound(cache) /\ Exact(cache) /\ now \in 1..MaxNow /\ calls \in Nat
         /\ now' = now /\ hung' = hung /\ calls' = calls + 1 /\ calls' \in 0..CallsPerMs /\ calls < CallsPerMs
<1>1. /\ Sound(cache) /\ now \in 1..MaxNow /\ calls \in Nat /\ (Alive => Exact(cache))
  BY InvariantIs
<1>2. Alive /\ calls < CallsPerMs /\ calls' = calls + 1 /\ now' = now /\ hung' = hung
  BY DEF LooksUp
<1> QED
  BY <1>1, <1>2, LimitsAre

LEMMA GetTurn ==
  ASSUME Invariant, NEW k \in Keys, Get(k)
  PROVE  Turn({})
<1> DEFINE o == Find(cache, k, now)
<1>1. /\ Sound(cache) /\ Exact(cache) /\ now \in 1..MaxNow /\ calls \in Nat
      /\ now' = now /\ hung' = hung /\ calls' = calls + 1 /\ calls' \in 0..CallsPerMs /\ calls < CallsPerMs
  BY LookUpIs DEF Get
<1>2. o # 0 /\ cache' \in Heated(WithAccess(cache, o, now), k, o, now) /\ latest' = latest
  BY Zenon DEF Get, WithAccess
<1> HIDE DEF o
<1>3. /\ Sound(cache') /\ Same(cache, cache')
      /\ \/ Exact(cache') /\ \A n \in Nat : Heat(cache, now, n) => Heat(cache', now, n + 1)
         \/ cache'.hotCount = HotSize + 1 /\ \A n \in Nat : Heat(cache, now, n) => HotSize <= n
  <2>1. o = Find(cache, k, now)
    BY DEF o
  <2> QED
    BY <1>1, <1>2, <2>1, GetSound
<1>4. Shrinks(cache, cache') /\ Undeleted(cache') = Undeleted(cache)
  BY <1>1, <1>3, SameIs
<1>5. Invariant'
  <2>1. cache'.hotCount <= HotSize => Exact(cache')
    BY <1>3, LimitsAre
  <2>2. hung' \in BOOLEAN /\ now' \in 1..MaxNow /\ DOMAIN cache'.pool = DOMAIN cache.pool
    BY <1>1, <1>3, InvariantIs DEF Same
  <2> QED
    BY <1>1, <1>2, <1>3, <2>1, <2>2, StillInvariant
<1>6. Cool => Cool'
  <2>1. ASSUME Cool PROVE Cool'
    <3>1. Heat(cache, now, calls)
      BY <1>1, <2>1, CoolNow
    <3>2. CASE Exact(cache') /\ Heat(cache', now, calls + 1)
      <4>1. Heat(cache', now', calls')
        BY <1>1, <3>2
      <4> QED
        BY <3>2, <4>1, CoolNext
    <3>3. CASE cache'.hotCount = HotSize + 1 /\ HotSize <= calls
      <4>1. calls' > HotSize
        BY <1>1, <3>3, LimitsAre
      <4> QED
        BY <3>3, <4>1 DEF Cool
    <3> QED
      BY <1>1, <1>3, <3>1, <3>2, <3>3
  <2> QED
    BY <2>1
<1>7. Listing => Listing'
  <2>1. Listing => Current(cache', latest, now)
    BY <1>1, <1>4, ShrinksCurrent DEF Listing
  <2> QED
    BY <1>1, <1>2, <2>1 DEF Listing
<1>8. Stays(cache, cache', {})
  BY <1>3, <1>4 DEF Stays, Same, Undeleted
<1> QED
  BY <1>5, <1>6, <1>7, <1>8 DEF Turn

LEMMA TouchTurn ==
  ASSUME Invariant, NEW k \in Keys, Touch(k)
  PROVE  Turn({})
<1> DEFINE o == Find(cache, k, now)
<1>1. /\ Sound(cache) /\ Exact(cache) /\ now \in 1..MaxNow /\ calls \in Nat
      /\ now' = now /\ hung' = hung /\ calls' = calls + 1 /\ calls' \in 0..CallsPerMs /\ calls < CallsPerMs
  BY LookUpIs DEF Touch
<1>2. o # 0 /\ cache' = WithAccess(Warmed(cache, k, now), o, now) /\ latest' = latest
  BY Zenon DEF Touch, WithAccess
<1> HIDE DEF o
<1>3. /\ Sound(cache') /\ Exact(cache') /\ Same(cache, cache')
      /\ \A n \in Nat : Heat(cache, now, n) => Heat(cache', now, n + 1)
  <2>1. o = Find(cache, k, now)
    BY DEF o
  <2> QED
    BY <1>1, <1>2, <2>1, TouchSound
<1>4. Shrinks(cache, cache') /\ Undeleted(cache') = Undeleted(cache)
  BY <1>1, <1>3, SameIs
<1>5. Invariant'
  <2>1. hung' \in BOOLEAN /\ now' \in 1..MaxNow /\ DOMAIN cache'.pool = DOMAIN cache.pool
    BY <1>1, <1>3, InvariantIs DEF Same
  <2> QED
    BY <1>1, <1>2, <1>3, <2>1, StillInvariant
<1>6. Cool => Cool'
  <2>1. ASSUME Cool PROVE Heat(cache', now', calls')
    BY <1>1, <1>3, <2>1, CoolNow
  <2> QED
    BY <1>3, <2>1, CoolNext
<1>7. Listing => Listing'
  <2>1. Listing => Current(cache', latest, now)
    BY <1>1, <1>4, ShrinksCurrent DEF Listing
  <2> QED
    BY <1>1, <1>2, <2>1 DEF Listing
<1>8. Stays(cache, cache', {})
  BY <1>3, <1>4 DEF Stays, Same, Undeleted
<1> QED
  BY <1>5, <1>6, <1>7, <1>8 DEF Turn

LEMMA DelTurn ==
  ASSUME Invariant, NEW k \in Keys, Del(k)
  PROVE  Turn({k})
<1> DEFINE o == Find(cache, k, now)
<1>1. /\ Sound(cache) /\ Exact(cache) /\ now \in 1..MaxNow /\ calls \in Nat
      /\ now' = now /\ hung' = hung /\ calls' = calls + 1 /\ calls' \in 0..CallsPerMs /\ calls < CallsPerMs
  BY LookUpIs DEF Del
<1>2. o # 0 /\ cache' \in Removed(cache, {o}) /\ latest' = Forgotten(latest, k)
  BY Zenon DEF Del, Forgotten
<1> HIDE DEF o
<1>3. /\ Sound(cache') /\ Exact(cache') /\ Keeps(cache, cache', {k})
      /\ \A l : l \in [Keys -> Nat] /\ Current(cache, l, now) => Current(cache', Forgotten(l, k), now)
  <2>1. o = Find(cache, k, now)
    BY DEF o
  <2> QED
    BY <1>1, <1>2, <2>1, DelSound
<1>4. Invariant'
  BY <1>1, <1>2, <1>3, KeyForgotten DEF Keeps
<1>5. Cool => Cool'
  <2>1. ASSUME Cool PROVE Cool'
    <3>1. Heat(cache', now, calls)
      BY <1>1, <1>3, <2>1, InvariantIs, HotFewer, CoolNow DEF Keeps
    <3>2. Heat(cache', now', calls')
      BY <1>1, <1>3, <3>1, Hotter DEF Sound
    <3> QED
      BY <1>3, <3>2, CoolNext
  <2> QED
    BY <2>1
<1>6. Listing => Listing'
  BY <1>1, <1>2, <1>3, InvariantIs DEF Listing
<1>7. Stays(cache, cache', {k})
  BY <1>3, KeepsStays
<1> QED
  BY <1>4, <1>5, <1>6, <1>7 DEF Turn

LEMMA ExpireTurn ==
  ASSUME Invariant, NEW k \in Keys, Expire(k)
  PROVE  Turn({k})
<1> DEFINE o == Find(cache, k, now)
<1>1. /\ Sound(cache) /\ Exact(cache) /\ now \in 1..MaxNow /\ calls \in Nat
      /\ now' = now /\ hung' = hung /\ calls' = calls + 1 /\ calls' \in 0..CallsPerMs /\ calls < CallsPerMs
  BY LookUpIs DEF Expire
<1>2. o # 0 /\ cache' = Expunged(Warmed(cache, k, now), o) /\ latest' = Forgotten(latest, k)
  BY Zenon DEF Expire, Forgotten, Expunged
<1> HIDE DEF o
<1>3. /\ Sound(cache') /\ Exact(cache') /\ Stays(cache, cache', {k}) /\ DOMAIN cache'.pool = DOMAIN cache.pool
      /\ \A n \in Nat : Heat(cache, now, n) => Heat(cache', now, n + 1)
      /\ \A l : l \in [Keys -> Nat] /\ Current(cache, l, now) => Current(cache', Forgotten(l, k), now)
  <2>1. o = Find(cache, k, now)
    BY DEF o
  <2> QED
    <3>1. Sound(cache') /\ Exact(cache') /\ Stays(cache, cache', {k})
      BY <1>1, <1>2, <2>1, ExpireSound
    <3>2. SamePlaces(cache, cache')
      BY <1>1, <1>2, <2>1, ExpireSound
    <3>3. \A n \in Nat : Heat(cache, now, n) => Heat(cache', now, n + 1)
      BY <1>1, <1>2, <2>1, ExpireSound
    <3>4. \A l : l \in [Keys -> Nat] /\ Current(cache, l, now) => Current(cache', Forgotten(l, k), now)
      BY <1>1, <1>2, <2>1, ExpireSound
    <3> QED
      BY <3>1, <3>2, <3>3, <3>4 DEF SamePlaces
<1>4. Invariant'
  BY <1>1, <1>2, <1>3, KeyForgotten
<1>5. Cool => Cool'
  <2>1. ASSUME Cool PROVE Heat(cache', now', calls')
    BY <1>1, <1>3, <2>1, CoolNow
  <2> QED
    BY <1>3, <2>1, CoolNext
<1>6. Listing => Listing'
  BY <1>1, <1>2, <1>3, InvariantIs DEF Listing
<1> QED
  BY <1>3, <1>4, <1>5, <1>6 DEF Turn

LEMMA PurgeTurn ==
  ASSUME Invariant, PurgeExpired
  PROVE  Turn({})
<1> DEFINE D == {o \in Undeleted(cache) : Expired(cache.pool[o], now)}
<1>1. cache' = Purged(cache, D) /\ Alive /\ now' = now /\ calls' = calls /\ hung' = hung /\ latest' = latest
  BY Zenon DEF PurgeExpired, Purged
<1>2. /\ Sound(cache) /\ now \in 1..MaxNow /\ calls \in Nat /\ calls \in 0..CallsPerMs /\ hung \in BOOLEAN
      /\ Exact(cache) /\ IsFiniteSet(cache.hot)
  BY <1>1, InvariantIs
<1>3. D \in SUBSET Undeleted(cache) /\ \A o \in D : Expired(cache.pool[o], now)
  OBVIOUS
<1> HIDE DEF D
<1>4. /\ Sound(cache') /\ Exact(cache') /\ Keeps(cache, cache', {})
      /\ \A l : Current(cache, l, now) => Current(cache', l, now)
  BY <1>1, <1>2, <1>3, PurgeSound
<1>5. Invariant'
  BY <1>1, <1>2, <1>4, StillInvariant DEF Keeps
<1>6. Cool => Cool'
  <2>1. Cool => Heat(cache', now, calls)
    BY <1>2, <1>4, HotFewer, CoolNow DEF Keeps
  <2> QED
    BY <1>1, <1>4, <2>1, CoolNext
<1>7. Listing => Listing'
  BY <1>1, <1>4 DEF Listing
<1> QED
  BY <1>4, <1>5, <1>6, <1>7, KeepsStays DEF Turn

LEMMA CompactTurn ==
  ASSUME Invariant, Compact
  PROVE  Turn({})
<1>1. cache' = Compacted(cache, now) /\ Alive /\ now' = now /\ calls' = calls /\ hung' = hung /\ latest' = latest
  BY Zenon DEF Compact, Compacted
<1>2. /\ Sound(cache) /\ now \in 1..MaxNow /\ calls \in Nat /\ calls \in 0..CallsPerMs /\ hung \in BOOLEAN
      /\ Exact(cache) /\ IsFiniteSet(cache.hot)
  BY <1>1, InvariantIs
<1>3. /\ Sound(cache') /\ Exact(cache') /\ Keeps(cache, cache', {})
      /\ \A l : Current(cache, l, now) => Current(cache', l, now)
  BY <1>1, <1>2, CompactSound
<1>4. Invariant'
  BY <1>1, <1>2, <1>3, StillInvariant DEF Keeps
<1>5. Cool => Cool'
  <2>1. Cool => Heat(cache', now, calls)
    BY <1>2, <1>3, HotFewer, CoolNow DEF Keeps
  <2> QED
    BY <1>1, <1>3, <2>1, CoolNext
<1>6. Listing => Listing'
  BY <1>1, <1>3 DEF Listing
<1> QED
  BY <1>3, <1>4, <1>5, <1>6, KeepsStays DEF Turn

LEMMA DelNamespaceTurn ==
  ASSUME Invariant, DelNamespace
  PROVE  Turn(Group)
<1>1. PICK N \in ByKeyWithout(cache, cache.names, Listed(cache)) : cache' = Cleared(cache, N)
  <2>1. \E N \in ByKeyWithout(cache, cache.names, Listed(cache)) :
          cache' = ClearedWith(cache, N, Deletes(cache), Listed(cache))
    BY Zenon DEF DelNamespace, Listed, Deletes, ClearedWith
  <2>2. cache \in Structs
    BY InvariantIs, SoundIs
  <2> QED
    BY <2>1, <2>2, ClearedForm
<1>2. Alive /\ now' = now /\ calls' = calls /\ hung' = hung /\ latest' = [k \in Keys |-> IF k \in Group THEN 0 ELSE latest[k]]
  BY DEF DelNamespace
<1>3. /\ Sound(cache) /\ now \in 1..MaxNow /\ calls \in Nat /\ calls \in 0..CallsPerMs /\ hung \in BOOLEAN
      /\ Exact(cache) /\ IsFiniteSet(cache.hot) /\ latest \in [Keys -> Nat]
  BY <1>2, InvariantIs
<1>4. /\ Sound(cache') /\ Exact(cache') /\ Keeps(cache, cache', Group)
      /\ \A l, m : (Current(cache, l, now) /\ \A k \in Keys : m[k] = IF k \in Group THEN 0 ELSE l[k]) => Current(cache', m, now)
  BY <1>1, <1>3, ClearSound
<1> DEFINE m == [k \in Keys |-> IF k \in Group THEN 0 ELSE latest[k]]
<1>5. \A k \in Keys : m[k] = IF k \in Group THEN 0 ELSE latest[k]
  OBVIOUS
<1>6. m \in [Keys -> Nat] /\ \A k \in Keys : m[k] \in {0, latest[k]}
  BY <1>3
<1>7. latest' = m
  BY <1>2
<1> HIDE DEF m
<1>8. Invariant'
  <2>1. \E f \in [Keys -> Nat] : latest' = f /\ \A k \in Keys : f[k] \in {0, latest[k]} \union DOMAIN cache'.pool
    BY <1>6, <1>7
  <2> QED
    BY <1>2, <1>3, <1>4, <2>1, InvariantNext DEF Keeps
<1>9. Cool => Cool'
  <2>1. Cool => Heat(cache', now, calls)
    BY <1>3, <1>4, HotFewer, CoolNow DEF Keeps
  <2> QED
    BY <1>2, <1>4, <2>1, CoolNext
<1>10. Listing => Listing'
  BY <1>2, <1>4, <1>5, <1>7 DEF Listing
<1> QED
  BY <1>4, <1>8, <1>9, <1>10, KeepsStays DEF Turn

LEMMA TickTurn ==
  ASSUME Invariant, Tick
  PROVE  Turn({})
<1>1. cache' = cache /\ Alive /\ now < MaxNow /\ now' = now + 1 /\ calls' = 0 /\ hung' = hung /\ latest' = latest
  BY DEF Tick
<1>2. /\ Sound(cache) /\ now \in 1..MaxNow /\ now \in Nat /\ calls \in Nat /\ hung \in BOOLEAN
      /\ Exact(cache) /\ cache.hot \in SUBSET Slots
  BY <1>1, InvariantIs
<1>3. now' \in 1..MaxNow /\ calls' \in 0..CallsPerMs
  BY <1>1, <1>2, LimitsAre
<1>4. Invariant'
  BY <1>1, <1>2, <1>3, StillInvariant
<1>5. Cool => Cool'
  <2>1. ASSUME Cool PROVE Heat(cache', now', calls')
    BY <1>1, <1>2, <2>1, TickHeat, CoolNow
  <2> QED
    BY <1>1, <1>2, <2>1, CoolNext
<1>6. Listing => Listing'
  BY <1>1, <1>2, TickCurrent DEF Listing
<1>7. Stays(cache, cache', {})
  BY <1>1 DEF Stays
<1> QED
  BY <1>4, <1>5, <1>6, <1>7 DEF Turn

LEMMA StutterTurn ==
  ASSUME Invariant, UNCHANGED vars
  PROVE  Turn({})
<1>1. cache' = cache /\ now' = now /\ calls' = calls /\ hung' = hung /\ latest' = latest
  BY DEF vars
<1>2. Invariant' /\ (Cool => Cool') /\ (Listing => Listing')
  BY <1>1 DEF Invariant, Cool, Listing
<1>3. Stays(cache, cache', {})
  BY <1>1 DEF Stays
<1> QED
  BY <1>2, <1>3 DEF Turn

-----------------------------------------------------------------------------
(* The specification.                                                      *)

LEMMA InitTurn ==
  ASSUME Init
  PROVE  Invariant /\ Cool /\ Listing
<1>1. /\ cache.pool = <<>> /\ cache.hash = [k \in Keys |-> 0] /\ cache.sorted = {} /\ cache.names = {} /\ cache.tags = {}
      /\ cache.hot = {} /\ cache.hotCount = 0 /\ cache.count = 0 /\ cache.mem = 0
      /\ cache = Empty
      /\ now = 1 /\ calls = 0 /\ hung = FALSE /\ latest = [k \in Keys |-> 0]
  BY DEF Init, Empty
<1>2. cache \in Structs
  BY <1>1 DEF Empty, Structs
<1>3. DOMAIN cache.pool = {} /\ Len(cache.pool) = 0
  BY <1>1
<1>4. Undeleted(cache) = {}
  BY <1>3 DEF Undeleted
<1>5. IsFiniteSet({}) /\ Cardinality({}) = 0
  BY FS_EmptySet
<1>6. Bytes(cache, {}) = 0
  <2>1. IsFiniteSet(DOMAIN cache.pool)
    BY <1>3, <1>5, Zenon
  <2> QED
    BY <1>3, <2>1, BytesFacts
<1>7. /\ Bytes(cache, Undeleted(cache)) = 0 /\ Cardinality(Undeleted(cache)) = 0
      /\ Cardinality(cache.hot) = 0 /\ IsFiniteSet(cache.hot)
  BY <1>1, <1>4, <1>5, <1>6, Zenon
<1>8. Sound(cache)
  BY <1>1, <1>2, <1>3, <1>7, LimitsAre DEF Sound
<1>9. Exact(cache)
  BY <1>1, <1>7, LimitsAre DEF Exact
<1>10. Invariant
  <2>1. latest \in [Keys -> {0} \union DOMAIN cache.pool]
    BY <1>1
  <2>2. 1 \in 1..MaxNow /\ 0 \in 0..CallsPerMs /\ FALSE \in BOOLEAN
    BY LimitsAre
  <2> QED
    BY <1>1, <1>8, <1>9, <2>1, <2>2 DEF Invariant
<1>11. Cool
  <2>1. Fresh(cache, now) = {}
    BY <1>1 DEF Fresh
  <2>2. Cardinality(Fresh(cache, now)) = 0
    BY <1>5, <2>1, Zenon
  <2> QED
    BY <1>1, <2>2, LimitsAre DEF Cool, Heat
<1>12. Listing
  BY <1>1, <1>4 DEF Listing, Current
<1> QED
  BY <1>10, <1>11, <1>12

LEMMA StepTurn ==
  ASSUME Invariant, [Next]_vars
  PROVE  \E K : Turn(K)
<1>1. ASSUME NEW k \in Keys, NEW size \in Sizes, NEW ttl \in TTLs, Set(k, size, ttl) PROVE \E K : Turn(K)
  BY <1>1, SetTurn
<1>2. ASSUME NEW items \in Batches, BatchSet(items) PROVE \E K : Turn(K)
  BY <1>2, BatchTurn
<1>3. ASSUME NEW k \in Keys, Get(k) PROVE \E K : Turn(K)
  BY <1>3, GetTurn
<1>4. ASSUME NEW k \in Keys, Del(k) PROVE \E K : Turn(K)
  BY <1>4, DelTurn
<1>5. ASSUME NEW k \in Keys, Expire(k) PROVE \E K : Turn(K)
  BY <1>5, ExpireTurn
<1>6. ASSUME NEW k \in Keys, Touch(k) PROVE \E K : Turn(K)
  BY <1>6, TouchTurn
<1>7. CASE PurgeExpired
  BY <1>7, PurgeTurn
<1>8. CASE Compact
  BY <1>8, CompactTurn
<1>9. CASE DelNamespace
  BY <1>9, DelNamespaceTurn
<1>10. CASE Tick
  BY <1>10, TickTurn
<1>11. CASE UNCHANGED vars
  BY <1>11, StutterTurn
<1> QED
  BY <1>1, <1>2, <1>3, <1>4, <1>5, <1>6, <1>7, <1>8, <1>9, <1>10, <1>11 DEF Next

(* Every offset in an index of the cache is one of an entry, the entry     *)
(* under a key has that key, a key has one hot slot, and the bytes and     *)
(* counters agree: the inductive invariant of every call of cache.c.       *)
THEOREM InvariantHolds == Spec => []Invariant
<1>1. Init => Invariant
  BY InitTurn
<1>2. Invariant /\ [Next]_vars => Invariant'
  BY StepTurn DEF Turn
<1> QED
  BY <1>1, <1>2, PTL DEF Spec

(* The fields of cache_t hold what they may hold.                          *)
THEOREM TypeCorrect == Spec => []TypeOK
<1>1. Invariant => TypeOK
  <2> SUFFICES ASSUME Invariant PROVE TypeOK
    OBVIOUS
  <2>1. Sound(cache) /\ cache \in Structs
    BY SoundIs DEF Invariant
  <2>2. cache.hash \in [Keys -> {0} \union DOMAIN cache.pool]
    BY <2>1 DEF Sound, Structs
  <2>3. cache.hot \subseteq [key : Keys, at : DOMAIN cache.pool, used : 0..MaxNow]
    <3>1. \A h \in cache.hot : h \in Slots /\ h.at \in DOMAIN cache.pool
      BY <2>1 DEF Sound, Structs
    <3> QED
      BY <3>1 DEF Slots
  <2>4. /\ cache.pool \in Seq(Entry) /\ Len(cache.pool) <= PoolMax
        /\ cache.sorted \subseteq DOMAIN cache.pool /\ cache.names \subseteq DOMAIN cache.pool
        /\ cache.tags \subseteq DOMAIN cache.pool
        /\ cache.hotCount \in Nat /\ cache.count \in Nat /\ cache.mem \in Nat
    BY <2>1 DEF Sound, Structs
  <2> QED
    BY <2>2, <2>3, <2>4 DEF TypeOK, Invariant
<1> QED
  BY <1>1, InvariantHolds, PTL

(* memory_used covers the entries that are not deleted and stays under     *)
(* memory_max, whatever is called in whatever order.                       *)
THEOREM NeverOver == Spec => []NeverOverCommitted
<1>1. Invariant => NeverOverCommitted
  BY DEF Invariant, Sound, NeverOverCommitted
<1> QED
  BY <1>1, InvariantHolds, PTL

(* cache_count is exact, however many look-ups fall into a millisecond,    *)
(* until one writes past the hot cache; and that one is at least the       *)
(* HotSize + 1st of its millisecond.                                       *)
THEOREM CountExact == Spec => []CountIsExact
<1>1. Init => Invariant /\ Cool
  BY InitTurn
<1>2. (Invariant /\ Cool) /\ [Next]_vars => (Invariant /\ Cool)'
  BY StepTurn DEF Turn
<1>3. Invariant /\ Cool => CountIsExact
  BY LimitsAre DEF Invariant, Cool, Exact, CountIsExact
<1> QED
  BY <1>1, <1>2, <1>3, PTL DEF Spec

(* For callers who batch only keys that are not there.                     *)
LEMMA ListingHolds == ASSUME Careful PROVE Spec => [](Invariant /\ Listing)
<1>1. Init => Invariant /\ Listing
  BY InitTurn
<1>2. (Invariant /\ Listing) /\ [Next]_vars => (Invariant /\ Listing)'
  BY StepTurn DEF Turn
<1> QED
  BY <1>1, <1>2, PTL DEF Spec

(* A read gives the value last stored, or nothing when that one is gone.   *)
THEOREM ReadsTheLatest == ASSUME Careful PROVE Spec => []ReadsLatest
<1>1. Invariant /\ Listing => ReadsLatest
  BY FindIsHash DEF Invariant, Listing, ReadsLatest
<1> QED
  BY <1>1, ListingHolds, PTL

(* What can be read by its key is in the sorted array, the namespace list  *)
(* and the tag list.                                                       *)
THEOREM ReadableListed == ASSUME Careful PROVE Spec => []ReadableIsListed
<1>1. Invariant /\ Listing => ReadableIsListed
  <2> SUFFICES ASSUME Invariant, Listing, NEW k \in Keys, Find(cache, k, now) # 0
               PROVE  Find(cache, k, now) \in cache.sorted \intersect cache.names \intersect cache.tags
    BY DEF ReadableIsListed
  <2> DEFINE o == Find(cache, k, now)
  <2>1. Sound(cache) /\ Current(cache, latest, now)
    BY DEF Invariant, Listing
  <2>2. o \in Undeleted(cache) /\ ~Expired(cache.pool[o], now)
    BY <2>1, FindIs
  <2> HIDE DEF o
  <2>3. o \in cache.sorted \intersect cache.names \intersect cache.tags
    BY <2>1, <2>2 DEF Current
  <2> QED
    BY <2>3 DEF o
<1> QED
  BY <1>1, ListingHolds, PTL

(* A permanent value goes only by a call that names its key or namespace.  *)
LEMMA StaysFound ==
  ASSUME Invariant, Listing, Invariant', Listing', NEW k \in Keys, Find(cache, k, now) # 0,
         cache.pool[Find(cache, k, now)].expire = 0,
         NEW K, k \notin K, Stays(cache, cache', K)
  PROVE  Find(cache, k, now)' = Find(cache, k, now)
<1> DEFINE o == Find(cache, k, now)
<1>1. Sound(cache) /\ Sound(cache') /\ Current(cache', latest', now')
  BY DEF Invariant, Listing
<1>2. o \in Undeleted(cache) /\ cache.pool[o].key = k /\ cache.pool[o].expire = 0
  BY <1>1, FindIs
<1> HIDE DEF o
<1>3. o \in Undeleted(cache') /\ cache'.pool[o].expire = 0 /\ cache'.pool[o].key = k
  BY <1>2 DEF Stays
<1>4. ~Expired(cache'.pool[o], now')
  BY <1>3 DEF Expired
<1>5. Find(cache', k, now') = o
  BY <1>1, <1>3, <1>4, FindIsHash
<1> QED
  BY <1>5 DEF o

(* For callers who batch new keys only: a value without expiry stays       *)
(* readable until a call names its key or its namespace. No eviction,      *)
(* purge, compaction or store of another key takes it away.                *)
THEOREM PermanentValueStays == ASSUME Careful PROVE Spec => PermanentStays
<1> DEFINE Named(k) == \/ \E size \in Sizes, ttl \in TTLs : Set(k, size, ttl)
                       \/ Del(k) \/ Expire(k)
                       \/ k \in Group /\ DelNamespace
           Permanent(k) == Find(cache, k, now) # 0 /\ cache.pool[Find(cache, k, now)].expire = 0
           Kept == \A k \in Keys : LET o == Find(cache, k, now)
                                   IN  (o # 0 /\ cache.pool[o].expire = 0) =>
                                         \/ Find(cache, k, now)' = o
                                         \/ \E size \in Sizes, ttl \in TTLs : Set(k, size, ttl)
                                         \/ Del(k) \/ Expire(k)
                                         \/ k \in Group /\ DelNamespace
                                         \/ ~Alive'
<1>1. (Invariant /\ Listing) /\ (Invariant /\ Listing)' /\ [Next]_vars => [Kept]_vars
  <2> SUFFICES ASSUME Invariant, Listing, Invariant', Listing', Next, NEW k \in Keys, Permanent(k), ~Named(k)
               PROVE  Find(cache, k, now)' = Find(cache, k, now)
    OBVIOUS
  <2>1. \E K : k \notin K /\ Stays(cache, cache', K)
    <3>1. ASSUME NEW i \in Keys, NEW size \in Sizes, NEW ttl \in TTLs, Set(i, size, ttl)
          PROVE  \E K : k \notin K /\ Stays(cache, cache', K)
      <4>1. k \notin {i}
        BY <3>1
      <4> QED
        BY <3>1, <4>1, SetTurn DEF Turn
    <3>2. ASSUME NEW items \in Batches, BatchSet(items)
          PROVE  \E K : k \notin K /\ Stays(cache, cache', K)
      <4>1. IsCareful(cache, items)
        BY <3>2 DEF BatchSet
      <4>2. Find(cache, k, now) \in Undeleted(cache) /\ cache.pool[Find(cache, k, now)].key = k
        BY FindIs DEF Invariant
      <4>3. k \notin BatchKeys(items)
        BY <4>1, <4>2 DEF IsCareful, BatchKeys, OfKey
      <4> QED
        BY <3>2, <4>3, BatchTurn DEF Turn
    <3>3. ASSUME NEW i \in Keys, Get(i) PROVE Stays(cache, cache', {})
      BY <3>3, GetTurn DEF Turn
    <3>4. ASSUME NEW i \in Keys, Del(i) PROVE \E K : k \notin K /\ Stays(cache, cache', K)
      <4>1. k \notin {i}
        BY <3>4
      <4> QED
        BY <3>4, <4>1, DelTurn DEF Turn
    <3>5. ASSUME NEW i \in Keys, Expire(i) PROVE \E K : k \notin K /\ Stays(cache, cache', K)
      <4>1. k \notin {i}
        BY <3>5
      <4> QED
        BY <3>5, <4>1, ExpireTurn DEF Turn
    <3>6. ASSUME NEW i \in Keys, Touch(i) PROVE Stays(cache, cache', {})
      BY <3>6, TouchTurn DEF Turn
    <3>7. PurgeExpired \/ Compact \/ Tick => Stays(cache, cache', {})
      BY PurgeTurn, CompactTurn, TickTurn DEF Turn
    <3>8. CASE DelNamespace
      <4>1. k \notin Group
        BY <3>8
      <4> QED
        BY <3>8, <4>1, DelNamespaceTurn DEF Turn
    <3>9. ASSUME Stays(cache, cache', {}) PROVE \E K : k \notin K /\ Stays(cache, cache', K)
      BY <3>9
    <3> QED
      BY <3>1, <3>2, <3>3, <3>4, <3>5, <3>6, <3>7, <3>8, <3>9 DEF Next
  <2> QED
    BY <2>1, StaysFound
<1>2. Spec => [](Invariant /\ Listing)
  BY ListingHolds
<1>3. PermanentStays <=> [][Kept]_vars
  BY DEF PermanentStays
<1> QED
  BY <1>1, <1>2, <1>3, PTL DEF Spec
=============================================================================
