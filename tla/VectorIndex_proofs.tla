------------------------ MODULE VectorIndex_proofs ------------------------
(***************************************************************************)
(* Proofs about VectorIndex for any points and distances, any threshold,   *)
(* capacity and numbers of neighbours, any number of vectors and sessions. *)
(*                                                                         *)
(* The loops of hnsw.c are recursive functions; LoopExists and LoopStays   *)
(* are what every proof about one of them uses.  A search is kept inside   *)
(* Reach, the live nodes and the entry point, which is the one node that   *)
(* may be removed and still asked; its links are only followed if its      *)
(* vector is mapped.  The invariant is Sound: Shape for the slots, links   *)
(* and free list of a graph, Holds for what its nodes stand for, and both  *)
(* also for the graph in index.bin.                                        *)
(***************************************************************************)
EXTENDS VectorIndex, SequenceTheorems, NaturalsInduction, WellFoundedInduction, FiniteSetTheorems, TLAPS

-----------------------------------------------------------------------------
(* The invariant.                                                          *)

NodeRecords == [id : Nat, valid : BOOLEAN, level : Nat, vec : Points \union {None}, room : Seq(Nat)]

EntryRecords == [point : Points, expired : BOOLEAN, deleted : BOOLEAN]

(* A graph's fields.                                                       *)
IsGraph(g) ==
  /\ DOMAIN g = {"there", "nodes", "links", "free", "count", "entry", "top", "capacity", "pool"}
  /\ g = [x \in DOMAIN g |-> g[x]]
  /\ g.there = TRUE

(* Neighbour lists L for the nodes of g: inside their room, to slots of g. *)
LinksOk(g, L) ==
  /\ L \in Seq(Seq(Seq(DOMAIN g.nodes)))
  /\ Len(L) = Len(g.nodes)
  /\ \A n \in DOMAIN g.nodes :
       /\ IsMapped(g, n) => Len(L[n]) = g.nodes[n].level + 1
       /\ \A l \in DOMAIN L[n] : l \in DOMAIN g.nodes[n].room /\ Len(L[n][l]) <= g.nodes[n].room[l]

NodesOk(g) ==
  /\ g.nodes \in Seq(NodeRecords)
  /\ \A n \in DOMAIN g.nodes :
       /\ g.nodes[n].valid => IsMapped(g, n)
       /\ \A l \in DOMAIN g.nodes[n].room : g.nodes[n].room[l] <= MaxLinks(l - 1)

FreeOk(g) ==
  /\ g.free \in Seq(DOMAIN g.nodes)
  /\ IsInjective(g.free)
  /\ ToSet(g.free) = DOMAIN g.nodes \ Valid(g)

(* A graph between two calls, but for what its counter and entry point     *)
(* promise.                                                                *)
Shape(g) ==
  /\ IsGraph(g)
  /\ NodesOk(g) /\ LinksOk(g, g.links) /\ FreeOk(g)
  /\ {g.count, g.pool} \subseteq Nat /\ g.top \in Int /\ g.top >= -1
  /\ g.capacity \in Nat \ {0} /\ Len(g.nodes) <= g.capacity

(* valid_count counts live nodes only, and once it counts one the entry    *)
(* point can be asked.                                                     *)
Counted(g) ==
  /\ g.count <= Cardinality(Valid(g))
  /\ g.count > 0 => IsMapped(g, g.entry)

(* The live nodes stand for the entries in S, one each, a removed one for  *)
(* an entry that is deleted.                                               *)
Stands(g, es, S) ==
  /\ \A n \in DOMAIN g.nodes : g.nodes[n].id \in DOMAIN es
  /\ \A n, m \in Valid(g) : g.nodes[n].id = g.nodes[m].id => n = m
  /\ {g.nodes[n].id : n \in Valid(g)} = S
  /\ \A n \in DOMAIN g.nodes \ Valid(g) : es[g.nodes[n].id].deleted

Holds(g, es, ls) == g.entry \in DOMAIN g.nodes /\ Stands(g, es, ToSet(ls))

AsStored(g, es) == \A n \in Valid(g) : g.nodes[n].vec = es[g.nodes[n].id].point

ListOk(ls, es) == ls \in Seq(DOMAIN es) /\ IsInjective(ls)

(* An array and a graph for it, if there is one.                           *)
BothOk(ls, g, es) ==
  /\ ListOk(ls, es)
  /\ g = NoGraph \/ (Shape(g) /\ Counted(g) /\ Holds(g, es, ls))

(* What is in memory while a session has the cache open.                   *)
InMemory ==
  /\ BothOk(list, graph, entries)
  /\ graph.there =>
       /\ ~refilled => AsStored(graph, entries)
       /\ sessions = 1 => graph.count = Cardinality(Valid(graph))

(* What index.bin holds, which may be of an earlier session.               *)
OnDisk ==
  image.there =>
    /\ ListOk(image.list, entries)
    /\ image.refilled \in BOOLEAN
    /\ image.graph = NoGraph \/ (Shape(image.graph) /\ Holds(image.graph, entries, image.list))
    /\ (image.graph.there /\ ~image.refilled) => AsStored(image.graph, entries)

Sound ==
  /\ entries \in Seq(EntryRecords)
  /\ {open, refilled} \subseteq BOOLEAN /\ sessions \in 0..MaxSessions
  /\ image = NoImage \/ (image.there = TRUE /\ sessions > 0 /\ (open => sessions > 1))
  /\ ~open => (list = <<>> /\ graph = NoGraph /\ ~refilled)
  /\ open => sessions > 0
  /\ InMemory
  /\ OnDisk

-----------------------------------------------------------------------------
(* Loops.                                                                  *)

(* A nonempty set of numbers has a least member, and Min is it.            *)
LEMMA LeastNumber ==
  ASSUME NEW S \in SUBSET Nat, S # {}
  PROVE  Min(S) \in S /\ \A k \in S : Min(S) <= k
<1>1. PICK m \in S : \A k \in S : ~(<<k, m>> \in OpToRel(<, Nat))
  BY NatLessThanWellFounded, WFMin
<1>2. ASSUME NEW k \in S PROVE m <= k
  <2>1. k \in Nat /\ m \in Nat
    OBVIOUS
  <2>2. <<k, m>> \in OpToRel(<, Nat) <=> k < m
    BY <2>1 DEF OpToRel
  <2>3. ~(k < m)
    BY <1>1, <2>2
  <2> QED
    BY <2>1, <2>3
<1>3. \E x \in S : \A y \in S : x <= y
  BY <1>2
<1> QED
  BY <1>3, Zenon DEF Min

(* What holds before a loop and is kept by every turn holds after it.      *)
LEMMA LoopStays ==
  ASSUME NEW D, NEW n \in Nat, NEW f, f[0] \in D, \A i \in 1..n : f[i - 1] \in D => f[i] \in D
  PROVE  \A i \in 0..n : f[i] \in D
<1> DEFINE Bad == {i \in 0..n : f[i] \notin D}
<1>1. ASSUME Bad # {} PROVE FALSE
  <2>1. Bad \in SUBSET Nat
    OBVIOUS
  <2> DEFINE k == Min(Bad)
  <2>2. k \in Bad /\ \A i \in Bad : k <= i
    BY <1>1, <2>1, LeastNumber
  <2> HIDE DEF k
  <2>3. k # 0
    BY <2>2
  <2>4. k \in 1..n /\ k - 1 \in 0..n /\ k - 1 \notin Bad
    BY <2>2, <2>3
  <2> QED
    BY <2>2, <2>4
<1> QED
  BY <1>1

Turns(n, D) == [(1..n) \X D -> D]

IsLoop(f, n, D, base, G) ==
  f \in [0..n -> D] /\ f[0] = base /\ \A i \in 1..n : f[i] = G[<<i, f[i - 1]>>]

(* A loop of n turns with states in D has a history.                       *)
LEMMA LoopExists ==
  ASSUME NEW n \in Nat, NEW D, NEW base \in D, NEW G \in Turns(n, D)
  PROVE  \E f : IsLoop(f, n, D, base, G)
<1> USE DEF Turns
<1> DEFINE Is(m, f) == /\ f \in [0..m -> D] /\ f[0] = base
                       /\ \A i \in 1..m : f[i] = G[<<i, f[i - 1]>>]
           Bad == {m \in 0..n : ~ \E f : Is(m, f)}
<1>1. ASSUME Bad # {} PROVE FALSE
  <2>1. Bad \in SUBSET Nat
    OBVIOUS
  <2> DEFINE k == Min(Bad)
  <2>2. k \in Bad /\ \A i \in Bad : k <= i
    BY <1>1, <2>1, LeastNumber
  <2> HIDE DEF k
  <2>3. CASE k = 0
    <3> DEFINE g == [i \in 0..0 |-> base]
    <3>1. Is(0, g)
      OBVIOUS
    <3> QED
      BY <2>2, <2>3, <3>1
  <2>4. CASE k # 0
    <3>1. k \in 1..n /\ k - 1 \in 0..n /\ k - 1 \notin Bad
      BY <2>2, <2>4
    <3>2. PICK f : Is(k - 1, f)
      BY <3>1
    <3> DEFINE g == [i \in 0..k |-> IF i = k THEN G[<<k, f[k - 1]>>] ELSE f[i]]
    <3>3. f[k - 1] \in D /\ \A i \in 0..(k - 1) : f[i] \in D
      BY <3>1, <3>2
    <3>4. G[<<k, f[k - 1]>>] \in D
      BY <3>1, <3>3
    <3>5. g \in [0..k -> D] /\ g[0] = base
      BY <3>1, <3>2, <3>3, <3>4
    <3>6. \A i \in 1..k : g[i] = G[<<i, g[i - 1]>>]
      <4> TAKE i \in 1..k
      <4>1. i - 1 \in 0..(k - 1) /\ i - 1 # k /\ i - 1 \in 0..k
        BY <3>1
      <4>2. g[i - 1] = f[i - 1]
        BY <4>1
      <4>3. CASE i = k
        BY <4>2, <4>3
      <4>4. CASE i # k
        BY <3>1, <3>2, <4>2, <4>4
      <4> QED
        BY <4>3, <4>4
    <3> QED
      BY <2>2, <3>5, <3>6
  <2> QED
    BY <2>3, <2>4
<1>2. \E f : Is(n, f)
  BY <1>1
<1> QED
  BY <1>2 DEF IsLoop

(* The history of a loop is a solution of its recursive definition.        *)
LEMMA LoopValues ==
  ASSUME NEW n \in Nat, NEW D, NEW base \in D, NEW G \in Turns(n, D), NEW f, IsLoop(f, n, D, base, G)
  PROVE  /\ f = [i \in 0..n |-> f[i]] /\ f[0] = base
         /\ \A i \in 1..n : <<i, f[i - 1]>> \in (1..n) \X D /\ f[i] = G[<<i, f[i - 1]>>]
<1>1. f \in [0..n -> D] /\ f[0] = base /\ \A i \in 1..n : f[i] = G[<<i, f[i - 1]>>]
  BY DEF IsLoop
<1>2. \A i \in 1..n : i - 1 \in 0..n
  OBVIOUS
<1>3. \A i \in 1..n : f[i - 1] \in D
  BY <1>1, <1>2
<1> QED
  BY <1>1, <1>3

-----------------------------------------------------------------------------
(* The priority queue.                                                     *)

Items(A) == [id : A, dist : Nat]

(* No node is queued twice.                                                *)
Apart(q) == \A i, j \in DOMAIN q : q[i].id = q[j].id => i = j

(* The array and the slot of the item that rises in it.                    *)
Rising(n, S, item) ==
  {s \in [items : [1..n -> S], at : 1..n] : Apart(s.items) /\ s.items[s.at] = item}

(* Every turn of pq_push exchanges two members.                            *)
LEMMA RiseIs ==
  ASSUME NEW n \in Nat, NEW S, NEW item \in S, NEW s \in Rising(n, S, item)
  PROVE  Rise(s, item) \in Rising(n, S, item)
<1> DEFINE a == s.items
           k == s.at
           m == k \div 2
           b == [a EXCEPT ![k] = a[m], ![m] = item]
<1>1. Rise(s, item) = IF m = 0 \/ a[m].dist <= item.dist THEN s ELSE [items |-> b, at |-> m]
  BY DEF Rise
<1>2. CASE m = 0 \/ a[m].dist <= item.dist
  BY <1>1, <1>2
<1>3. CASE ~(m = 0 \/ a[m].dist <= item.dist)
  <2>1. a \in [1..n -> S] /\ k \in 1..n /\ a[k] = item /\ Apart(a)
    BY DEF Rising
  <2>2. m \in 1..n /\ m # k
    BY <1>3, <2>1
  <2>3. Rise(s, item) = [items |-> b, at |-> m]
    BY <1>1, <1>3
  <2>4. b \in [1..n -> S] /\ b[m] = item /\ b[k] = a[m] /\ \A i \in 1..n : i # m /\ i # k => b[i] = a[i]
    BY <2>1, <2>2
  <2> HIDE DEF b, m, a, k
  <2>5. Apart(b)
    <3> SUFFICES ASSUME NEW i \in 1..n, NEW j \in 1..n, b[i].id = b[j].id
                 PROVE  i = j
      BY <2>4 DEF Apart
    <3>1. \A x, y \in 1..n : a[x].id = a[y].id => x = y
      BY <2>1 DEF Apart
    <3> QED
      BY <2>1, <2>2, <2>4, <3>1
  <2>6. [items |-> b, at |-> m] \in [items : [1..n -> S], at : 1..n]
    BY <2>2, <2>4
  <2> QED
    BY <2>3, <2>4, <2>5, <2>6 DEF Rising
<1> QED
  BY <1>2, <1>3

(* pq_push adds the item or, if the queue is full, nothing.                *)
LEMMA PqPushIs ==
  ASSUME NEW A, NEW pq \in Seq(Items(A)), Apart(pq), NEW capacity,
         NEW item \in Items(A), \A i \in DOMAIN pq : pq[i].id # item.id
  PROVE  LET r == PqPush(pq, capacity, item)
         IN  /\ r \in Seq(Items(A)) /\ Apart(r)
             /\ \A i \in DOMAIN r : r[i] = item \/ \E j \in DOMAIN pq : r[i] = pq[j]
<1> DEFINE r == PqPush(pq, capacity, item)
           n == Len(pq)
           S == {pq[j] : j \in DOMAIN pq} \union {item}
           D == Rising(n + 1, S, item)
           base == [items |-> Append(pq, item), at |-> n + 1]
           rec == CHOOSE f : f = [i \in 0..n |-> IF i = 0 THEN base ELSE Rise(f[i - 1], item)]
           G == [x \in (1..n) \X D |-> Rise(x[2], item)]
<1>1. n \in Nat /\ Len(pq) = n /\ DOMAIN pq = 1..n /\ S \in SUBSET Items(A) /\ item \in S /\ pq \in Seq(S)
  OBVIOUS
<1> HIDE DEF n
<1>2. base \in D
  <2> DEFINE a == Append(pq, item)
  <2> HIDE DEF S
  <2>1. a \in Seq(S) /\ Len(a) = n + 1 /\ a[n + 1] = item /\ \A i \in 1..n : a[i] = pq[i]
    BY <1>1
  <2> HIDE DEF a
  <2>2. a \in [1..(n + 1) -> S] /\ DOMAIN a = 1..(n + 1)
    BY <1>1, <2>1
  <2>3. Apart(a)
    BY <1>1, <2>1, <2>2 DEF Apart
  <2>4. base = [items |-> a, at |-> n + 1] /\ n + 1 \in 1..(n + 1)
    BY <1>1 DEF a
  <2> HIDE DEF base
  <2>5. base.items = a /\ base.at = n + 1 /\ base \in [items : [1..(n + 1) -> S], at : 1..(n + 1)]
    BY <2>2, <2>4
  <2> QED
    BY <2>1, <2>3, <2>5 DEF Rising
<1>3. \A s \in D : Rise(s, item) \in D
  <2>1. n + 1 \in Nat
    BY <1>1
  <2> HIDE DEF S
  <2> QED
    BY <1>1, <2>1, RiseIs
<1> HIDE DEF S, D, base
<1>4. G \in Turns(n, D)
  BY <1>3 DEF Turns
<1>5. \A x \in (1..n) \X D : G[x] = Rise(x[2], item)
  OBVIOUS
<1> HIDE DEF G
<1>6. PICK f : IsLoop(f, n, D, base, G)
  BY <1>1, <1>2, <1>4, LoopExists
<1>7. f = [i \in 0..n |-> IF i = 0 THEN base ELSE Rise(f[i - 1], item)]
  <2>1. /\ f = [i \in 0..n |-> f[i]] /\ f[0] = base
        /\ \A i \in 1..n : <<i, f[i - 1]>> \in (1..n) \X D /\ f[i] = G[<<i, f[i - 1]>>]
    BY <1>1, <1>2, <1>4, <1>6, LoopValues
  <2>2. \A i \in 1..n : G[<<i, f[i - 1]>>] = Rise(f[i - 1], item)
    BY <1>5, <2>1
  <2>3. \A i \in 0..n : f[i] = IF i = 0 THEN base ELSE Rise(f[i - 1], item)
    BY <1>1, <2>1, <2>2
  <2> QED
    BY <2>1, <2>3
<1>8. rec = [i \in 0..n |-> IF i = 0 THEN base ELSE Rise(rec[i - 1], item)]
  BY <1>7
<1> HIDE DEF rec
<1>9. rec[0] = base /\ \A i \in 1..n : rec[i] = Rise(rec[i - 1], item)
  BY <1>1, <1>8
<1>10. rec[n] \in D
  <2>1. \A i \in 1..n : rec[i - 1] \in D => rec[i] \in D
    BY <1>3, <1>9
  <2>2. \A i \in 0..n : rec[i] \in D
    BY <1>1, <1>2, <1>9, <2>1, LoopStays
  <2> QED
    BY <1>1, <2>2
<1>11. CASE n >= capacity
  <2>1. r = pq
    BY <1>11 DEF PqPush, n
  <2> QED
    BY <2>1
<1>12. CASE ~(n >= capacity)
  <2>1. r = rec[n].items
    BY <1>12 DEF PqPush, rec, base, n
  <2>2. r \in [1..(n + 1) -> S] /\ Apart(r)
    BY <1>10, <2>1 DEF D, Rising
  <2> HIDE DEF r
  <2>3. r \in Seq(S) /\ DOMAIN r = 1..(n + 1)
    BY <1>1, <2>2
  <2>4. \A i \in DOMAIN r : r[i] \in S
    BY <2>2
  <2>5. r \in Seq(Items(A))
    BY <1>1, <2>3
  <2>6. \A i \in DOMAIN r : r[i] = item \/ \E j \in DOMAIN pq : r[i] = pq[j]
    BY <2>4 DEF S
  <2> QED
    BY <2>2, <2>5, <2>6 DEF r
<1> QED
  BY <1>11, <1>12

(* The array, and the slot whose member has been moved up and where the    *)
(* last one may go; S holds the members that stay.                         *)
Sinking(n, A, S, last) ==
  {s \in [items : [1..n -> Items(A)], at : 1..n] :
     [s.items EXCEPT ![s.at] = last] \in [1..n -> S] /\ Apart([s.items EXCEPT ![s.at] = last])}

LEMMA SmallestIs ==
  ASSUME NEW n \in Nat, NEW items, Len(items) = n, NEW k \in 1..n
  PROVE  Smallest(items, k) \in 1..n
<1> DEFINE first == IF 2 * k <= Len(items) /\ items[2 * k].dist < items[k].dist THEN 2 * k ELSE k
<1>1. first \in 1..n
  OBVIOUS
<1>2. Smallest(items, k) = IF 2 * k + 1 <= Len(items) /\ items[2 * k + 1].dist < items[first].dist
                             THEN 2 * k + 1 ELSE first
  BY DEF Smallest
<1> HIDE DEF first
<1> QED
  BY <1>1, <1>2

(* Every turn of pq_pop exchanges two members, if the last one is put      *)
(* where it may go.                                                        *)
LEMMA SinkIs ==
  ASSUME NEW n \in Nat, NEW A, NEW S, NEW last \in S, NEW s \in Sinking(n, A, S, last)
  PROVE  Sink(s) \in Sinking(n, A, S, last)
<1> DEFINE a == s.items
           k == s.at
           m == Smallest(a, k)
           b == [a EXCEPT ![k] = a[m]]
           u == [a EXCEPT ![k] = last]
           v == [b EXCEPT ![m] = last]
<1>1. a \in [1..n -> Items(A)] /\ k \in 1..n /\ u \in [1..n -> S] /\ Apart(u)
  BY DEF Sinking
<1>2. m \in 1..n
  <2>1. Len(a) = n
    BY <1>1
  <2> QED
    BY <1>1, <2>1, SmallestIs
<1>3. Sink(s) = [items |-> b, at |-> m]
  BY DEF Sink
<1> HIDE DEF a, k, m
<1>4. b \in [1..n -> Items(A)]
  BY <1>1, <1>2
<1>5. /\ DOMAIN v = 1..n /\ v[m] = u[k] /\ v[k] = u[m]
      /\ \A i \in 1..n : i # m /\ i # k => v[i] = u[i]
  BY <1>1, <1>2
<1> HIDE DEF u, v
<1>6. v = [i \in 1..n |-> v[i]] /\ \A i \in 1..n : v[i] \in S
  <2>1. v = [i \in 1..n |-> v[i]]
    BY <1>1, <1>2 DEF v
  <2>2. \A i \in 1..n : v[i] \in S
    BY <1>1, <1>2, <1>5
  <2> QED
    BY <2>1, <2>2
<1>7. Apart(v)
  <2> SUFFICES ASSUME NEW i \in 1..n, NEW j \in 1..n, v[i].id = v[j].id
               PROVE  i = j
    BY <1>5 DEF Apart
  <2>1. \A x, y \in 1..n : u[x].id = u[y].id => x = y
    BY <1>1 DEF Apart
  <2> QED
    BY <1>1, <1>2, <1>5, <2>1
<1>8. [items |-> b, at |-> m] \in [items : [1..n -> Items(A)], at : 1..n]
  BY <1>2, <1>4
<1>9. [[items |-> b, at |-> m].items EXCEPT ![[items |-> b, at |-> m].at] = last] = v
  BY DEF v
<1> HIDE DEF b
<1> QED
  BY <1>3, <1>6, <1>7, <1>8, <1>9 DEF Sinking

(* pq_pop takes the first member away.                                     *)
LEMMA PqPopIs ==
  ASSUME NEW A, NEW pq \in Seq(Items(A)), Apart(pq), pq # <<>>
  PROVE  LET r == PqPop(pq)
         IN  /\ r \in Seq(Items(A)) /\ Apart(r)
             /\ \A i \in DOMAIN r : \E j \in DOMAIN pq : j # 1 /\ r[i] = pq[j]
<1> DEFINE r == PqPop(pq)
           n == Len(pq) - 1
           S == {pq[j] : j \in 2..(n + 1)}
           last == Last(pq)
           D == Sinking(n, A, S, last)
           base == [items |-> SubSeq(pq, 1, n), at |-> 1]
           rec == CHOOSE f : f = [i \in 0..n |-> IF i = 0 THEN base ELSE Sink(f[i - 1])]
           G == [x \in (1..n) \X D |-> Sink(x[2])]
<1>1. n \in Nat /\ Len(pq) = n + 1 /\ DOMAIN pq = 1..(n + 1) /\ last = pq[n + 1]
  BY DEF Last
<1>2. CASE n = 0
  <2>1. r = <<>>
    BY <1>2 DEF PqPop
  <2> QED
    BY <2>1 DEF Apart
<1>3. CASE n # 0
  <2>1. last \in S
    BY <1>1, <1>3
  <2> HIDE DEF n, last
  <2>2. base \in D
    <3> DEFINE a == SubSeq(pq, 1, n)
               u == [a EXCEPT ![1] = last]
    <3>1. a \in [1..n -> Items(A)] /\ \A i \in 1..n : a[i] = pq[i]
      <4>1. Len(a) = n /\ a \in Seq(Items(A)) /\ \A i \in 1..n : a[i] = pq[i]
        BY <1>1
      <4> HIDE DEF a
      <4> QED
        BY <1>1, <4>1
    <3> HIDE DEF a
    <3>2. u = [i \in 1..n |-> IF i = 1 THEN pq[n + 1] ELSE pq[i]]
      BY <1>1, <1>3, <3>1
    <3> HIDE DEF u
    <3>3. u \in [1..n -> S]
      <4>1. \A i \in 1..n : u[i] \in S
        BY <1>1, <3>2
      <4> HIDE DEF S
      <4> QED
        BY <3>2, <4>1
    <3>4. Apart(u)
      <4> SUFFICES ASSUME NEW i \in 1..n, NEW j \in 1..n, u[i].id = u[j].id
                   PROVE  i = j
        BY <3>2 DEF Apart
      <4>1. \A x, y \in 1..(n + 1) : pq[x].id = pq[y].id => x = y
        BY <1>1 DEF Apart
      <4> QED
        BY <1>1, <3>2, <4>1
    <3>5. base.items = a /\ base.at = 1 /\ base \in [items : [1..n -> Items(A)], at : 1..n]
      <4>1. base = [items |-> a, at |-> 1] /\ 1 \in 1..n
        BY <1>1, <1>3 DEF a
      <4> HIDE DEF base
      <4> QED
        BY <3>1, <4>1
    <3> HIDE DEF base, S
    <3> QED
      BY <3>3, <3>4, <3>5 DEF Sinking, u
  <2> HIDE DEF base, S
  <2>3. \A s \in D : Sink(s) \in D
    BY <1>1, <2>1, SinkIs
  <2> HIDE DEF D
  <2>4. G \in Turns(n, D)
    BY <2>3 DEF Turns
  <2>5. \A x \in (1..n) \X D : G[x] = Sink(x[2])
    OBVIOUS
  <2> HIDE DEF G
  <2>6. PICK f : IsLoop(f, n, D, base, G)
    BY <1>1, <2>2, <2>4, LoopExists
  <2>7. f = [i \in 0..n |-> IF i = 0 THEN base ELSE Sink(f[i - 1])]
    <3>1. /\ f = [i \in 0..n |-> f[i]] /\ f[0] = base
          /\ \A i \in 1..n : <<i, f[i - 1]>> \in (1..n) \X D /\ f[i] = G[<<i, f[i - 1]>>]
      BY <1>1, <2>2, <2>4, <2>6, LoopValues
    <3>2. \A i \in 1..n : G[<<i, f[i - 1]>>] = Sink(f[i - 1])
      BY <2>5, <3>1
    <3>3. \A i \in 1..n : f[i] = Sink(f[i - 1])
      BY <3>1, <3>2
    <3>4. n \in Nat /\ f[0] = base
      BY <1>1, <3>1
    <3>5. \A i \in 0..n : f[i] = IF i = 0 THEN base ELSE Sink(f[i - 1])
      BY <3>3, <3>4
    <3> QED
      BY <3>1, <3>5
  <2>8. rec = [i \in 0..n |-> IF i = 0 THEN base ELSE Sink(rec[i - 1])]
    BY <2>7
  <2> HIDE DEF rec
  <2>9. rec[0] = base /\ \A i \in 1..n : rec[i] = Sink(rec[i - 1])
    BY <1>1, <2>8
  <2>10. rec[n] \in D
    <3>1. \A i \in 1..n : rec[i - 1] \in D => rec[i] \in D
      BY <2>3, <2>9
    <3>2. \A i \in 0..n : rec[i] \in D
      BY <1>1, <2>2, <2>9, <3>1, LoopStays
    <3> QED
      BY <1>1, <3>2
  <2>11. r = [rec[n].items EXCEPT ![rec[n].at] = last]
    BY <1>3 DEF PqPop, rec, base, n, last
  <2>12. r \in [1..n -> S] /\ Apart(r)
    BY <2>10, <2>11 DEF D, Sinking
  <2> HIDE DEF r
  <2>13. S \in SUBSET Items(A) /\ \A x \in S : \E j \in DOMAIN pq : j # 1 /\ x = pq[j]
    BY <1>1 DEF S
  <2>14. r \in Seq(Items(A)) /\ DOMAIN r = 1..n
    BY <1>1, <2>12, <2>13
  <2> QED
    BY <2>12, <2>13, <2>14 DEF r
<1> QED
  BY <1>2, <1>3

-----------------------------------------------------------------------------
(* Searching.                                                              *)

(* A graph that can be asked: its entry point's vector is mapped.          *)
Searchable(g) ==
  /\ NodesOk(g) /\ LinksOk(g, g.links)
  /\ g.entry \in DOMAIN g.nodes /\ IsMapped(g, g.entry)
  /\ g.top \in Int

(* The nodes that a search can return: live ones and the entry point.      *)
Reach(g) == Valid(g) \union {g.entry}

LEMMA ReachIs ==
  ASSUME NEW g, Searchable(g), NEW n \in Reach(g)
  PROVE  n \in DOMAIN g.nodes /\ IsMapped(g, n) /\ g.nodes[n] \in NodeRecords
<1>1. n \in DOMAIN g.nodes /\ IsMapped(g, n)
  BY DEF Searchable, Reach, Valid, NodesOk
<1> QED
  BY <1>1 DEF Searchable, NodesOk

LEMMA NearIs ==
  ASSUME NEW g, NodesOk(g), NEW n \in DOMAIN g.nodes, IsMapped(g, n), NEW p \in Points
  PROVE  Near(g, p, n) \in Nat /\ g.nodes[n].vec \in Points
<1>1. g.nodes[n] \in NodeRecords
  BY DEF NodesOk
<1>2. g.nodes[n].vec \in Points
  BY <1>1 DEF IsMapped, NodeRecords
<1> QED
  BY <1>2, VectorAssumption DEF Near

LEMMA ListIs ==
  ASSUME NEW g, g.nodes \in Seq(NodeRecords), NEW L, LinksOk(g, L), NEW n \in DOMAIN g.nodes,
         NEW k \in DOMAIN L[n]
  PROVE  /\ L[n][k] \in Seq(DOMAIN g.nodes)
         /\ g.nodes[n].room[k] \in Nat /\ Len(L[n][k]) <= g.nodes[n].room[k]
<1> DEFINE X == DOMAIN g.nodes
           ls == L[n]
           room == g.nodes[n].room
<1>1. room \in Seq(Nat)
  <2>1. g.nodes[n] \in NodeRecords
    OBVIOUS
  <2> QED
    BY <2>1 DEF NodeRecords
<1>2. k \in DOMAIN room /\ Len(L[n][k]) <= room[k]
  BY DEF LinksOk
<1>3. ls \in Seq(Seq(X))
  <2>1. L \in Seq(Seq(Seq(X))) /\ n \in DOMAIN L
    BY DEF LinksOk
  <2> HIDE DEF X
  <2> QED
    BY <2>1
<1>4. ls[k] \in Seq(X)
  <2> HIDE DEF X, ls
  <2>1. k \in DOMAIN ls
    BY DEF ls
  <2> QED
    BY <1>3, <2>1
<1>5. room[k] \in Nat
  <2> HIDE DEF room
  <2> QED
    BY <1>1, <1>2
<1> QED
  BY <1>2, <1>4, <1>5

(* A node that is mapped has a list for each of its levels.                *)
LEMMA LevelIs ==
  ASSUME NEW g, g.nodes \in Seq(NodeRecords), NEW L, LinksOk(g, L), NEW n \in DOMAIN g.nodes,
         IsMapped(g, n), NEW level \in Nat, level <= g.nodes[n].level
  PROVE  level + 1 \in DOMAIN L[n]
<1> DEFINE X == DOMAIN g.nodes
           ls == L[n]
           k == g.nodes[n].level
<1>1. g.nodes[n] \in NodeRecords
  OBVIOUS
<1>2. k \in Nat /\ level <= k
  BY <1>1 DEF NodeRecords
<1>3. Len(ls) = k + 1 /\ L \in Seq(Seq(Seq(X))) /\ n \in DOMAIN L
  BY DEF LinksOk
<1> HIDE DEF X
<1>4. ls \in Seq(Seq(X))
  BY <1>3
<1> HIDE DEF ls, k
<1>5. level + 1 \in DOMAIN ls
  BY <1>2, <1>3, <1>4
<1> QED
  BY <1>5 DEF ls

LEMMA LinksIs ==
  ASSUME NEW g, Searchable(g), NEW n \in Reach(g), NEW level \in Nat
  PROVE  Links(g, n, level) \in Seq(DOMAIN g.nodes)
<1>1. n \in DOMAIN g.nodes /\ IsMapped(g, n) /\ g.nodes[n] \in NodeRecords
  BY ReachIs
<1>2. CASE level > g.nodes[n].level
  <2>1. Links(g, n, level) = <<>>
    BY <1>2 DEF Links
  <2> QED
    BY <2>1
<1>3. CASE ~(level > g.nodes[n].level)
  <2>1. level <= g.nodes[n].level
    BY <1>1, <1>3 DEF NodeRecords
  <2>2. level + 1 \in DOMAIN g.links[n]
    BY <1>1, <2>1, LevelIs DEF Searchable, NodesOk
  <2>3. g.links[n][level + 1] \in Seq(DOMAIN g.nodes)
    BY <1>1, <2>2, ListIs DEF Searchable, NodesOk
  <2> QED
    BY <1>3, <2>3 DEF Links
<1> QED
  BY <1>2, <1>3

LEMMA NearestIs ==
  ASSUME NEW g, Searchable(g), NEW p \in Points, NEW node \in Reach(g), NEW level \in Nat
  PROVE  Nearest(g, p, node, level) \in Reach(g)
<1> DEFINE links == Links(g, node, level)
           n == Len(links)
           D == Reach(g)
           base == node
           rec == CHOOSE f : f = [i \in 0..n |-> IF i = 0 THEN base ELSE Nearer(g, p, f[i - 1], links[i])]
           G == [x \in (1..n) \X D |-> Nearer(g, p, x[2], links[x[1]])]
<1>1. links \in Seq(DOMAIN g.nodes)
  BY LinksIs
<1> HIDE DEF links
<1>2. n \in Nat /\ \A i \in 1..n : links[i] \in DOMAIN g.nodes
  BY <1>1
<1> HIDE DEF n
<1>3. base \in D
  OBVIOUS
<1>4. \A s \in D, i \in 1..n : Nearer(g, p, s, links[i]) \in D
  BY <1>2 DEF Nearer, Reach, Valid
<1> HIDE DEF D, base
<1>5. G \in Turns(n, D)
  BY <1>4 DEF Turns
<1>6. \A x \in (1..n) \X D : G[x] = Nearer(g, p, x[2], links[x[1]])
  OBVIOUS
<1> HIDE DEF G
<1>7. PICK f : IsLoop(f, n, D, base, G)
  BY <1>2, <1>3, <1>5, LoopExists
<1>8. f = [i \in 0..n |-> IF i = 0 THEN base ELSE Nearer(g, p, f[i - 1], links[i])]
  <2>1. /\ f = [i \in 0..n |-> f[i]] /\ f[0] = base
        /\ \A i \in 1..n : <<i, f[i - 1]>> \in (1..n) \X D /\ f[i] = G[<<i, f[i - 1]>>]
    BY <1>2, <1>3, <1>5, <1>7, LoopValues
  <2>2. \A i \in 1..n : G[<<i, f[i - 1]>>] = Nearer(g, p, f[i - 1], links[i])
    BY <1>6, <2>1
  <2>3. \A i \in 1..n : f[i] = Nearer(g, p, f[i - 1], links[i])
    BY <2>1, <2>2
  <2>4. n \in Nat /\ f[0] = base
    BY <1>2, <2>1
  <2>5. \A i \in 0..n : f[i] = IF i = 0 THEN base ELSE Nearer(g, p, f[i - 1], links[i])
    BY <2>3, <2>4
  <2> QED
    BY <2>1, <2>5
<1>9. rec = [i \in 0..n |-> IF i = 0 THEN base ELSE Nearer(g, p, rec[i - 1], links[i])]
  BY <1>8
<1> HIDE DEF rec
<1>10. rec[0] = base /\ \A i \in 1..n : rec[i] = Nearer(g, p, rec[i - 1], links[i])
  BY <1>2, <1>9
<1>11. rec[n] \in D
  <2>1. \A i \in 1..n : rec[i - 1] \in D => rec[i] \in D
    BY <1>4, <1>10
  <2>2. n \in Nat /\ rec[0] \in D
    BY <1>2, <1>3, <1>10
  <2>3. \A i \in 0..n : rec[i] \in D
    BY <2>1, <2>2, LoopStays
  <2> QED
    BY <2>2, <2>3
<1>12. Nearest(g, p, node, level) = rec[n]
  BY DEF Nearest, rec, base, n, links
<1> QED
  BY <1>11, <1>12 DEF D

LEMMA GreedySearchIs ==
  ASSUME NEW g, Searchable(g), NEW p \in Points, NEW entry \in Reach(g), NEW level \in Nat
  PROVE  GreedySearch(g, p, entry, level) \in Reach(g)
<1> DEFINE n == Len(g.nodes)
           D == Reach(g)
           base == entry
           rec == CHOOSE f : f = [i \in 0..n |-> IF i = 0 THEN base ELSE Nearest(g, p, f[i - 1], level)]
           G == [x \in (1..n) \X D |-> Nearest(g, p, x[2], level)]
<1>1. n \in Nat
  BY DEF Searchable, NodesOk
<1> HIDE DEF n
<1>2. base \in D
  OBVIOUS
<1>3. \A s \in D : Nearest(g, p, s, level) \in D
  BY NearestIs
<1> HIDE DEF D, base
<1>4. G \in Turns(n, D)
  BY <1>3 DEF Turns
<1>5. \A x \in (1..n) \X D : G[x] = Nearest(g, p, x[2], level)
  OBVIOUS
<1> HIDE DEF G
<1>6. PICK f : IsLoop(f, n, D, base, G)
  BY <1>1, <1>2, <1>4, LoopExists
<1>7. f = [i \in 0..n |-> IF i = 0 THEN base ELSE Nearest(g, p, f[i - 1], level)]
  <2>1. /\ f = [i \in 0..n |-> f[i]] /\ f[0] = base
        /\ \A i \in 1..n : <<i, f[i - 1]>> \in (1..n) \X D /\ f[i] = G[<<i, f[i - 1]>>]
    BY <1>1, <1>2, <1>4, <1>6, LoopValues
  <2>2. \A i \in 1..n : G[<<i, f[i - 1]>>] = Nearest(g, p, f[i - 1], level)
    BY <1>5, <2>1
  <2>3. \A i \in 1..n : f[i] = Nearest(g, p, f[i - 1], level)
    BY <2>1, <2>2
  <2>4. n \in Nat /\ f[0] = base
    BY <1>1, <2>1
  <2>5. \A i \in 0..n : f[i] = IF i = 0 THEN base ELSE Nearest(g, p, f[i - 1], level)
    BY <2>3, <2>4
  <2> QED
    BY <2>1, <2>5
<1>8. rec = [i \in 0..n |-> IF i = 0 THEN base ELSE Nearest(g, p, rec[i - 1], level)]
  BY <1>7
<1> HIDE DEF rec
<1>9. rec[0] = base /\ \A i \in 1..n : rec[i] = Nearest(g, p, rec[i - 1], level)
  BY <1>1, <1>8
<1>10. rec[n] \in D
  <2>1. \A i \in 1..n : rec[i - 1] \in D => rec[i] \in D
    BY <1>3, <1>9
  <2>2. n \in Nat /\ rec[0] \in D
    BY <1>1, <1>2, <1>9
  <2>3. \A i \in 0..n : rec[i] \in D
    BY <2>1, <2>2, LoopStays
  <2> QED
    BY <2>2, <2>3
<1>11. GreedySearch(g, p, entry, level) = rec[n]
  BY DEF GreedySearch, rec, base, n
<1> QED
  BY <1>10, <1>11 DEF D

LEMMA DescendIs ==
  ASSUME NEW g, Searchable(g), NEW p \in Points, NEW level \in Nat
  PROVE  Descend(g, p, level) \in Reach(g)
<1>1. g.entry \in Reach(g)
  BY DEF Reach
<1>2. CASE level >= g.top
  BY <1>1, <1>2 DEF Descend
<1>3. CASE ~(level >= g.top)
  <2> DEFINE n == g.top - level
             D == Reach(g)
             base == g.entry
             rec == CHOOSE f : f = [i \in 0..n |-> IF i = 0 THEN base
                                                    ELSE GreedySearch(g, p, f[i - 1], g.top - i + 1)]
             G == [x \in (1..n) \X D |-> GreedySearch(g, p, x[2], g.top - x[1] + 1)]
  <2>1. n \in Nat /\ \A i \in 1..n : g.top - i + 1 \in Nat
    BY <1>3 DEF Searchable
  <2> HIDE DEF n
  <2>2. base \in D
    BY <1>1
  <2>3. \A s \in D, i \in 1..n : GreedySearch(g, p, s, g.top - i + 1) \in D
    BY <2>1, GreedySearchIs
  <2> HIDE DEF D, base
  <2>4. G \in Turns(n, D)
    BY <2>3 DEF Turns
  <2>5. \A x \in (1..n) \X D : G[x] = GreedySearch(g, p, x[2], g.top - x[1] + 1)
    OBVIOUS
  <2> HIDE DEF G
  <2>6. PICK f : IsLoop(f, n, D, base, G)
    BY <2>1, <2>2, <2>4, LoopExists
  <2>7. f = [i \in 0..n |-> IF i = 0 THEN base ELSE GreedySearch(g, p, f[i - 1], g.top - i + 1)]
    <3>1. /\ f = [i \in 0..n |-> f[i]] /\ f[0] = base
          /\ \A i \in 1..n : <<i, f[i - 1]>> \in (1..n) \X D /\ f[i] = G[<<i, f[i - 1]>>]
      BY <2>1, <2>2, <2>4, <2>6, LoopValues
    <3>2. \A i \in 1..n : G[<<i, f[i - 1]>>] = GreedySearch(g, p, f[i - 1], g.top - i + 1)
      BY <2>5, <3>1
    <3>3. \A i \in 1..n : f[i] = GreedySearch(g, p, f[i - 1], g.top - i + 1)
      BY <3>1, <3>2
    <3>4. n \in Nat /\ f[0] = base
      BY <2>1, <3>1
    <3>5. \A i \in 0..n : f[i] = IF i = 0 THEN base ELSE GreedySearch(g, p, f[i - 1], g.top - i + 1)
      BY <3>3, <3>4
    <3> QED
      BY <3>1, <3>5
  <2>8. rec = [i \in 0..n |-> IF i = 0 THEN base ELSE GreedySearch(g, p, rec[i - 1], g.top - i + 1)]
    BY <2>7
  <2> HIDE DEF rec
  <2>9. rec[0] = base /\ \A i \in 1..n : rec[i] = GreedySearch(g, p, rec[i - 1], g.top - i + 1)
    BY <2>1, <2>8
  <2>10. rec[n] \in D
    <3>1. \A i \in 1..n : rec[i - 1] \in D => rec[i] \in D
      BY <2>3, <2>9
    <3>2. n \in Nat /\ rec[0] \in D
      BY <2>1, <2>2, <2>9
    <3>3. \A i \in 0..n : rec[i] \in D
      BY <3>1, <3>2, LoopStays
    <3> QED
      BY <3>2, <3>3
  <2>11. Descend(g, p, level) = rec[n]
    BY <1>3 DEF Descend, rec, base, n
  <2> QED
    BY <2>10, <2>11 DEF D
<1> QED
  BY <1>2, <1>3

(* A search of a layer: nothing is queued or returned twice, or queued     *)
(* after it was returned; all of it is marked as visited.                  *)
Searching(A) ==
  {s \in [pq : Seq(Items(A)), visited : SUBSET A, out : Seq(A)] :
     /\ Apart(s.pq) /\ IsInjective(s.out)
     /\ \A i \in DOMAIN s.pq : s.pq[i].id \in s.visited
     /\ \A j \in DOMAIN s.out : s.out[j] \in s.visited
     /\ \A i \in DOMAIN s.pq, j \in DOMAIN s.out : s.pq[i].id # s.out[j]}

(* Marking and queueing a live node, once.                                 *)
LEMMA VisitIs ==
  ASSUME NEW g, Searchable(g), NEW p \in Points, NEW ef,
         NEW s \in Searching(Reach(g)), NEW n \in DOMAIN g.nodes
  PROVE  Visit(g, p, ef, s, n) \in Searching(Reach(g))
<1>1. CASE n \in s.visited \/ ~g.nodes[n].valid
  BY <1>1 DEF Visit
<1>2. CASE ~(n \in s.visited \/ ~g.nodes[n].valid)
  <2> DEFINE A == Reach(g)
             item == [id |-> n, dist |-> Near(g, p, n)]
             q == PqPush(s.pq, 2 * ef + 1, item)
             t == Visit(g, p, ef, s, n)
             c == 2 * ef + 1
  <2>1. n \in A
    BY <1>2 DEF Reach, Valid
  <2>2. Near(g, p, n) \in Nat
    BY <2>1, ReachIs, NearIs DEF Searchable
  <2>3. item \in Items(A) /\ item.id = n
    BY <2>1, <2>2 DEF Items
  <2> HIDE DEF item
  <2>4. /\ s \in [pq : Seq(Items(A)), visited : SUBSET A, out : Seq(A)]
        /\ Apart(s.pq) /\ IsInjective(s.out)
        /\ \A i \in DOMAIN s.pq : s.pq[i].id \in s.visited
        /\ \A j \in DOMAIN s.out : s.out[j] \in s.visited
        /\ \A i \in DOMAIN s.pq, j \in DOMAIN s.out : s.pq[i].id # s.out[j]
    BY DEF Searching
  <2> HIDE DEF A
  <2>5. s.pq \in Seq(Items(A)) /\ \A i \in DOMAIN s.pq : s.pq[i].id # item.id
    BY <1>2, <2>3, <2>4
  <2> HIDE DEF c
  <2>6. /\ q \in Seq(Items(A)) /\ Apart(q)
        /\ \A i \in DOMAIN q : q[i] = item \/ \E j \in DOMAIN s.pq : q[i] = s.pq[j]
    <3> DEFINE r == PqPush(s.pq, c, item)
    <3>1. /\ r \in Seq(Items(A)) /\ Apart(r)
          /\ \A i \in DOMAIN r : r[i] = item \/ \E j \in DOMAIN s.pq : r[i] = s.pq[j]
      BY <2>3, <2>4, <2>5, PqPushIs
    <3> QED
      BY <3>1 DEF c
  <2>7. t = [s EXCEPT !.visited = s.visited \union {n}, !.pq = q]
    BY <1>2 DEF Visit, item
  <2> HIDE DEF q, t
  <2>8. t.pq = q /\ t.visited = s.visited \union {n} /\ t.out = s.out
    BY <2>4, <2>7
  <2>9. t \in [pq : Seq(Items(A)), visited : SUBSET A, out : Seq(A)]
    BY <2>1, <2>4, <2>6, <2>7
  <2>10. \A i \in DOMAIN q : q[i].id \in s.visited \union {n} /\ \A j \in DOMAIN s.out : q[i].id # s.out[j]
    BY <1>2, <2>3, <2>4, <2>6
  <2>11. t \in Searching(A)
    BY <2>4, <2>6, <2>8, <2>9, <2>10 DEF Searching
  <2> QED
    BY <2>11 DEF A, t
<1> QED
  BY <1>1, <1>2

LEMMA VisitAllIs ==
  ASSUME NEW g, Searchable(g), NEW p \in Points, NEW ef,
         NEW t \in Searching(Reach(g)), NEW links \in Seq(DOMAIN g.nodes)
  PROVE  VisitAll(g, p, ef, t, links) \in Searching(Reach(g))
<1> DEFINE n == Len(links)
           D == Searching(Reach(g))
           base == t
           rec == CHOOSE f : f = [i \in 0..n |-> IF i = 0 THEN base ELSE Visit(g, p, ef, f[i - 1], links[i])]
           G == [x \in (1..n) \X D |-> Visit(g, p, ef, x[2], links[x[1]])]
<1>1. n \in Nat /\ \A i \in 1..n : links[i] \in DOMAIN g.nodes
  OBVIOUS
<1> HIDE DEF n
<1>2. base \in D
  OBVIOUS
<1>3. \A s \in D, i \in 1..n : Visit(g, p, ef, s, links[i]) \in D
  BY <1>1, VisitIs
<1> HIDE DEF D, base
<1>4. G \in Turns(n, D)
  BY <1>3 DEF Turns
<1>5. \A x \in (1..n) \X D : G[x] = Visit(g, p, ef, x[2], links[x[1]])
  OBVIOUS
<1> HIDE DEF G
<1>6. PICK f : IsLoop(f, n, D, base, G)
  BY <1>1, <1>2, <1>4, LoopExists
<1>7. f = [i \in 0..n |-> IF i = 0 THEN base ELSE Visit(g, p, ef, f[i - 1], links[i])]
  <2>1. /\ f = [i \in 0..n |-> f[i]] /\ f[0] = base
        /\ \A i \in 1..n : <<i, f[i - 1]>> \in (1..n) \X D /\ f[i] = G[<<i, f[i - 1]>>]
    BY <1>1, <1>2, <1>4, <1>6, LoopValues
  <2>2. \A i \in 1..n : G[<<i, f[i - 1]>>] = Visit(g, p, ef, f[i - 1], links[i])
    BY <1>5, <2>1
  <2>3. \A i \in 1..n : f[i] = Visit(g, p, ef, f[i - 1], links[i])
    BY <2>1, <2>2
  <2>4. n \in Nat /\ f[0] = base
    BY <1>1, <2>1
  <2>5. \A i \in 0..n : f[i] = IF i = 0 THEN base ELSE Visit(g, p, ef, f[i - 1], links[i])
    BY <2>3, <2>4
  <2> QED
    BY <2>1, <2>5
<1>8. rec = [i \in 0..n |-> IF i = 0 THEN base ELSE Visit(g, p, ef, rec[i - 1], links[i])]
  BY <1>7
<1> HIDE DEF rec
<1>9. rec[0] = base /\ \A i \in 1..n : rec[i] = Visit(g, p, ef, rec[i - 1], links[i])
  BY <1>1, <1>8
<1>10. rec[n] \in D
  <2>1. \A i \in 1..n : rec[i - 1] \in D => rec[i] \in D
    BY <1>3, <1>9
  <2>2. n \in Nat /\ rec[0] \in D
    BY <1>1, <1>2, <1>9
  <2>3. \A i \in 0..n : rec[i] \in D
    BY <2>1, <2>2, LoopStays
  <2> QED
    BY <2>2, <2>3
<1>11. VisitAll(g, p, ef, t, links) = rec[n]
  BY DEF VisitAll, rec, base, n
<1> QED
  BY <1>10, <1>11 DEF D

(* The nearest queued node is returned, and its live neighbours are queued. *)
LEMMA ExpandIs ==
  ASSUME NEW g, Searchable(g), NEW p \in Points, NEW ef, NEW level \in Nat, NEW s \in Searching(Reach(g))
  PROVE  Expand(g, p, level, ef, s) \in Searching(Reach(g))
<1> DEFINE A == Reach(g)
           top == Head(s.pq).id
           popped == [s EXCEPT !.pq = PqPop(s.pq)]
           taken == [popped EXCEPT !.out = Append(popped.out, top)]
<1>1. /\ s \in [pq : Seq(Items(A)), visited : SUBSET A, out : Seq(A)]
      /\ Apart(s.pq) /\ IsInjective(s.out)
      /\ \A i \in DOMAIN s.pq : s.pq[i].id \in s.visited
      /\ \A j \in DOMAIN s.out : s.out[j] \in s.visited
      /\ \A i \in DOMAIN s.pq, j \in DOMAIN s.out : s.pq[i].id # s.out[j]
  BY DEF Searching
<1>2. CASE s.pq = <<>> \/ Len(s.out) >= ef
  BY <1>2 DEF Expand
<1>3. CASE ~(s.pq = <<>> \/ Len(s.out) >= ef)
  <2> DEFINE q == PqPop(s.pq)
             out == Append(s.out, top)
  <2>1. /\ q \in Seq(Items(A)) /\ Apart(q)
        /\ \A i \in DOMAIN q : \E j \in DOMAIN s.pq : j # 1 /\ q[i] = s.pq[j]
    <3> HIDE DEF A
    <3>1. s.pq \in Seq(Items(A)) /\ Apart(s.pq) /\ s.pq # <<>>
      BY <1>1, <1>3
    <3> QED
      BY <3>1, PqPopIs
  <2>2. popped = [s EXCEPT !.pq = q]
    OBVIOUS
  <2>3. /\ s.pq[1] \in Items(A) /\ 1 \in DOMAIN s.pq /\ top = s.pq[1].id
        /\ s.pq \in Seq(Items(A)) /\ s.out \in Seq(A) /\ s.visited \in SUBSET A
    BY <1>1, <1>3
  <2>4. top \in A
    BY <2>3 DEF Items
  <2> HIDE DEF A, q, top
  <2>5. \A i \in DOMAIN q : q[i].id # top /\ q[i].id \in s.visited /\ \A j \in DOMAIN s.out : q[i].id # s.out[j]
    <3> TAKE i \in DOMAIN q
    <3>1. PICK j \in DOMAIN s.pq : j # 1 /\ q[i] = s.pq[j]
      BY <2>1
    <3>2. s.pq[j].id # s.pq[1].id
      BY <1>1, <2>3, <3>1 DEF Apart
    <3> QED
      BY <1>1, <2>3, <3>1, <3>2
  <2>6. /\ top \in s.visited
        /\ \A j \in DOMAIN s.out : top # s.out[j]
    BY <1>1, <2>3
  <2>7. popped.pq = q /\ popped.visited = s.visited /\ popped.out = s.out
    BY <1>1, <2>2
  <2>8. popped \in [pq : Seq(Items(A)), visited : SUBSET A, out : Seq(A)]
    BY <1>1, <2>1, <2>2
  <2>9. popped \in Searching(A)
    BY <1>1, <2>1, <2>5, <2>7, <2>8 DEF Searching
  <2>10. taken = [popped EXCEPT !.out = out]
    BY <2>7
  <2>11. /\ out \in Seq(A) /\ DOMAIN out = 1..(Len(s.out) + 1) /\ Len(s.out) \in Nat
         /\ out[Len(s.out) + 1] = top /\ \A j \in 1..Len(s.out) : out[j] = s.out[j]
         /\ DOMAIN s.out = 1..Len(s.out)
    BY <2>3, <2>4
  <2> HIDE DEF popped, out, taken
  <2>12. taken.pq = q /\ taken.visited = s.visited /\ taken.out = out
    BY <2>7, <2>8, <2>10
  <2>13. taken \in [pq : Seq(Items(A)), visited : SUBSET A, out : Seq(A)]
    BY <2>8, <2>10, <2>11
  <2>14. IsInjective(out) /\ \A j \in DOMAIN out : out[j] = top \/ (j \in DOMAIN s.out /\ out[j] = s.out[j])
    <3>1. \A j \in DOMAIN out : out[j] = top \/ (j \in DOMAIN s.out /\ out[j] = s.out[j])
      BY <2>11
    <3>2. \A i, j \in DOMAIN s.out : s.out[i] = s.out[j] => i = j
      BY <1>1 DEF IsInjective
    <3>3. \A i, j \in DOMAIN out : out[i] = out[j] => i = j
      BY <2>6, <2>11, <3>2
    <3> QED
      BY <3>1, <3>3 DEF IsInjective
  <2>15. taken \in Searching(A)
    <3>1. \A j \in DOMAIN out : out[j] \in s.visited
      BY <1>1, <2>6, <2>14
    <3>2. \A i \in DOMAIN q, j \in DOMAIN out : q[i].id # out[j]
      BY <2>5, <2>14
    <3> QED
      BY <2>1, <2>5, <2>12, <2>13, <2>14, <3>1, <3>2 DEF Searching
  <2>16. Links(g, top, level) \in Seq(DOMAIN g.nodes)
    BY <2>4, LinksIs DEF A
  <2>17. VisitAll(g, p, ef, taken, Links(g, top, level)) \in Searching(A)
    BY <2>15, <2>16, VisitAllIs DEF A
  <2>18. Expand(g, p, level, ef, s) = IF level > g.nodes[top].level THEN popped
                                      ELSE VisitAll(g, p, ef, taken, Links(g, top, level))
    BY <1>3 DEF Expand, popped, taken, top
  <2>19. Expand(g, p, level, ef, s) \in Searching(A)
    BY <2>9, <2>17, <2>18
  <2> QED
    BY <2>19 DEF A
<1> QED
  BY <1>2, <1>3

(* A search of a layer returns live nodes or the entry point, none twice.  *)
LEMMA SearchLayerIs ==
  ASSUME NEW g, Searchable(g), NEW p \in Points, NEW entry \in Reach(g), NEW level \in Nat, NEW ef
  PROVE  SearchLayer(g, p, entry, level, ef) \in Seq(Reach(g)) /\ IsInjective(SearchLayer(g, p, entry, level, ef))
<1> DEFINE n == Len(g.nodes)
           D == Searching(Reach(g))
           item == [id |-> entry, dist |-> Near(g, p, entry)]
           base == [pq |-> <<item>>, visited |-> {entry}, out |-> <<>>]
           rec == CHOOSE f : f = [i \in 0..n |-> IF i = 0 THEN base ELSE Expand(g, p, level, ef, f[i - 1])]
           G == [x \in (1..n) \X D |-> Expand(g, p, level, ef, x[2])]
<1>1. n \in Nat
  BY DEF Searchable, NodesOk
<1> HIDE DEF n
<1>2. base \in D
  <2> DEFINE A == Reach(g)
             q == <<item>>
  <2>1. Near(g, p, entry) \in Nat
    BY ReachIs, NearIs DEF Searchable
  <2>2. item \in Items(A) /\ item.id = entry
    BY <2>1 DEF Items
  <2>3. entry \in A
    OBVIOUS
  <2> HIDE DEF A, item
  <2>4. q \in Seq(Items(A)) /\ DOMAIN q = {1} /\ q[1] = item
    BY <2>2
  <2> HIDE DEF q
  <2>5. base = [pq |-> q, visited |-> {entry}, out |-> <<>>]
    BY DEF q
  <2> HIDE DEF base
  <2>6. /\ base \in [pq : Seq(Items(A)), visited : SUBSET A, out : Seq(A)]
        /\ base.pq = q /\ base.visited = {entry} /\ base.out = <<>>
    BY <2>3, <2>4, <2>5
  <2>7. base \in Searching(A)
    BY <2>2, <2>4, <2>6 DEF Searching, Apart, IsInjective
  <2> QED
    BY <2>7 DEF A
<1>3. \A s \in D : Expand(g, p, level, ef, s) \in D
  BY ExpandIs
<1> HIDE DEF D, base
<1>4. G \in Turns(n, D)
  BY <1>3 DEF Turns
<1>5. \A x \in (1..n) \X D : G[x] = Expand(g, p, level, ef, x[2])
  OBVIOUS
<1> HIDE DEF G
<1>6. PICK f : IsLoop(f, n, D, base, G)
  BY <1>1, <1>2, <1>4, LoopExists
<1>7. f = [i \in 0..n |-> IF i = 0 THEN base ELSE Expand(g, p, level, ef, f[i - 1])]
  <2>1. /\ f = [i \in 0..n |-> f[i]] /\ f[0] = base
        /\ \A i \in 1..n : <<i, f[i - 1]>> \in (1..n) \X D /\ f[i] = G[<<i, f[i - 1]>>]
    BY <1>1, <1>2, <1>4, <1>6, LoopValues
  <2>2. \A i \in 1..n : G[<<i, f[i - 1]>>] = Expand(g, p, level, ef, f[i - 1])
    BY <1>5, <2>1
  <2>3. \A i \in 1..n : f[i] = Expand(g, p, level, ef, f[i - 1])
    BY <2>1, <2>2
  <2>4. n \in Nat /\ f[0] = base
    BY <1>1, <2>1
  <2>5. \A i \in 0..n : f[i] = IF i = 0 THEN base ELSE Expand(g, p, level, ef, f[i - 1])
    BY <2>3, <2>4
  <2> QED
    BY <2>1, <2>5
<1>8. rec = [i \in 0..n |-> IF i = 0 THEN base ELSE Expand(g, p, level, ef, rec[i - 1])]
  BY <1>7
<1> HIDE DEF rec
<1>9. rec[0] = base /\ \A i \in 1..n : rec[i] = Expand(g, p, level, ef, rec[i - 1])
  BY <1>1, <1>8
<1>10. rec[n] \in D
  <2>1. \A i \in 1..n : rec[i - 1] \in D => rec[i] \in D
    BY <1>3, <1>9
  <2>2. n \in Nat /\ rec[0] \in D
    BY <1>1, <1>2, <1>9
  <2>3. \A i \in 0..n : rec[i] \in D
    BY <2>1, <2>2, LoopStays
  <2> QED
    BY <2>2, <2>3
<1>11. SearchLayer(g, p, entry, level, ef) = rec[n].out
  BY DEF SearchLayer, rec, base, n, item
<1> QED
  BY <1>10, <1>11 DEF D, Searching

-----------------------------------------------------------------------------
(* Linking.                                                                *)

AllMapped(g) == \A n \in DOMAIN g.nodes : IsMapped(g, n)

LEMMA MinOfTwo ==
  ASSUME NEW a \in Int, NEW b \in Int
  PROVE  Min({a, b}) = IF a <= b THEN a ELSE b
<1>1. \E x \in {a, b} : \A y \in {a, b} : x <= y
  OBVIOUS
<1> DEFINE m == CHOOSE x \in {a, b} : \A y \in {a, b} : x <= y
<1>2. m \in {a, b} /\ \A y \in {a, b} : m <= y
  BY <1>1
<1>3. Min({a, b}) = m
  BY DEF Min
<1> HIDE DEF m
<1> QED
  BY <1>2, <1>3

LEMMA MaxOfTwo ==
  ASSUME NEW a \in Int, NEW b \in Int
  PROVE  Max({a, b}) = IF a >= b THEN a ELSE b
<1>1. \E x \in {a, b} : \A y \in {a, b} : x >= y
  OBVIOUS
<1> DEFINE m == CHOOSE x \in {a, b} : \A y \in {a, b} : x >= y
<1>2. m \in {a, b} /\ \A y \in {a, b} : m >= y
  BY <1>1
<1>3. Max({a, b}) = m
  BY DEF Max
<1> HIDE DEF m
<1> QED
  BY <1>2, <1>3

LEMMA MaxLinksIs ==
  ASSUME NEW level \in Nat
  PROVE  MaxLinks(level) \in Nat /\ MaxLinks(level) > 0
BY VectorAssumption DEF MaxLinks

(* A list of a node replaced by another one that its room holds.           *)
LEMMA PutIs ==
  ASSUME NEW g, g.nodes \in Seq(NodeRecords), NEW L, LinksOk(g, L), NEW n \in DOMAIN g.nodes,
         NEW l \in DOMAIN L[n], NEW new \in Seq(DOMAIN g.nodes), Len(new) <= g.nodes[n].room[l]
  PROVE  LET K == [L EXCEPT ![n][l] = new]
         IN  /\ LinksOk(g, K) /\ K[n][l] = new
             /\ \A m \in DOMAIN g.nodes : DOMAIN K[m] = DOMAIN L[m]
<1> DEFINE X == Seq(DOMAIN g.nodes)
           ls == L[n]
           ks == [ls EXCEPT ![l] = new]
           K == [L EXCEPT ![n] = ks]
<1>1. /\ L \in Seq(Seq(X)) /\ Len(L) = Len(g.nodes) /\ DOMAIN L = DOMAIN g.nodes
      /\ DOMAIN L = 1..Len(L) /\ Len(L) \in Nat
  BY DEF LinksOk
<1>2. ls \in Seq(X) /\ DOMAIN ls = 1..Len(ls) /\ Len(ls) \in Nat
  BY <1>1
<1>3. ks \in Seq(X) /\ Len(ks) = Len(ls) /\ DOMAIN ks = DOMAIN ls /\ ks[l] = new
      /\ \A i \in DOMAIN ls : i # l => ks[i] = ls[i]
  <2> HIDE DEF X, ls
  <2>1. l \in DOMAIN ls /\ new \in X
    BY DEF X, ls
  <2> QED
    BY <1>2, <2>1
<1> HIDE DEF ks
<1>4. K \in Seq(Seq(X)) /\ Len(K) = Len(L) /\ DOMAIN K = DOMAIN L /\ K[n] = ks
      /\ \A i \in DOMAIN L : i # n => K[i] = L[i]
  <2> HIDE DEF X
  <2> QED
    BY <1>1, <1>3
<1>5. K = [L EXCEPT ![n][l] = new]
  BY DEF ks
<1> HIDE DEF K, X
<1>6. ASSUME NEW m \in DOMAIN g.nodes
      PROVE  /\ DOMAIN K[m] = DOMAIN L[m] /\ (IsMapped(g, m) => Len(K[m]) = g.nodes[m].level + 1)
             /\ \A i \in DOMAIN K[m] : i \in DOMAIN g.nodes[m].room /\ Len(K[m][i]) <= g.nodes[m].room[i]
  <2>1. /\ IsMapped(g, m) => Len(L[m]) = g.nodes[m].level + 1
        /\ \A i \in DOMAIN L[m] : i \in DOMAIN g.nodes[m].room /\ Len(L[m][i]) <= g.nodes[m].room[i]
    BY DEF LinksOk
  <2>2. CASE m = n
    BY <1>3, <1>4, <2>1, <2>2
  <2>3. CASE m # n
    BY <1>1, <1>4, <2>1, <2>3
  <2> QED
    BY <2>2, <2>3
<1>7. LinksOk(g, K)
  BY <1>1, <1>4, <1>6 DEF LinksOk, X
<1> QED
  BY <1>3, <1>4, <1>5, <1>6, <1>7

LEMMA LinkedIs ==
  ASSUME NEW g, g.nodes \in Seq(NodeRecords), NEW L, LinksOk(g, L), NEW n \in DOMAIN g.nodes,
         NEW level \in Nat, level + 1 \in DOMAIN L[n], NEW m \in DOMAIN g.nodes
  PROVE  /\ LinksOk(g, Linked(g, L, n, level, m))
         /\ \A i \in DOMAIN g.nodes : DOMAIN Linked(g, L, n, level, m)[i] = DOMAIN L[i]
<1> DEFINE old == L[n][level + 1]
           room == g.nodes[n].room[level + 1]
           new == Append(old, m)
           X == DOMAIN g.nodes
<1>1. CASE Len(old) >= room
  BY <1>1 DEF Linked
<1>2. CASE ~(Len(old) >= room)
  <2>1. old \in Seq(X) /\ room \in Nat /\ m \in X
    BY ListIs
  <2>2. Linked(g, L, n, level, m) = [L EXCEPT ![n][level + 1] = new]
    BY <1>2 DEF Linked
  <2>3. new \in Seq(X) /\ Len(new) <= room
    <3> HIDE DEF old, room, X
    <3> QED
      BY <1>2, <2>1
  <2> HIDE DEF new
  <2> DEFINE K == [L EXCEPT ![n][level + 1] = new]
  <2>4. LinksOk(g, K) /\ \A i \in DOMAIN g.nodes : DOMAIN K[i] = DOMAIN L[i]
    BY <2>3, PutIs
  <2> HIDE DEF K
  <2>5. Linked(g, L, n, level, m) = K
    BY <2>2 DEF K
  <2> QED
    BY <2>4, <2>5
<1> QED
  BY <1>1, <1>2

LEMMA FarthestIs ==
  ASSUME NEW g, NEW node, NEW S, NEW l \in Seq(S), Len(l) > 0
  PROVE  Farthest(g, node, l) \in 1..Len(l)
<1> DEFINE n == Len(l)
           D == 1..n
           d(i) == Near(g, g.nodes[node].vec, l[i])
           base == 1
           rec == CHOOSE f : f = [i \in 0..n |-> IF i = 0 THEN base
                                                  ELSE IF d(i) > d(f[i - 1]) THEN i ELSE f[i - 1]]
           G == [x \in (1..n) \X D |-> IF d(x[1]) > d(x[2]) THEN x[1] ELSE x[2]]
<1>1. n \in Nat
  OBVIOUS
<1> HIDE DEF n, d
<1>2. base \in D
  BY DEF n
<1>3. \A s \in D, i \in 1..n : (IF d(i) > d(s) THEN i ELSE s) \in D
  OBVIOUS
<1> HIDE DEF D, base
<1>4. G \in Turns(n, D)
  BY <1>3 DEF Turns
<1>5. \A x \in (1..n) \X D : G[x] = (IF d(x[1]) > d(x[2]) THEN x[1] ELSE x[2])
  OBVIOUS
<1> HIDE DEF G
<1>6. PICK f : IsLoop(f, n, D, base, G)
  BY <1>1, <1>2, <1>4, LoopExists
<1>7. f = [i \in 0..n |-> IF i = 0 THEN base ELSE (IF d(i) > d(f[i - 1]) THEN i ELSE f[i - 1])]
  <2>1. /\ f = [i \in 0..n |-> f[i]] /\ f[0] = base
        /\ \A i \in 1..n : <<i, f[i - 1]>> \in (1..n) \X D /\ f[i] = G[<<i, f[i - 1]>>]
    BY <1>1, <1>2, <1>4, <1>6, LoopValues
  <2>2. \A i \in 1..n : G[<<i, f[i - 1]>>] = (IF d(i) > d(f[i - 1]) THEN i ELSE f[i - 1])
    BY <1>5, <2>1
  <2>3. \A i \in 1..n : f[i] = (IF d(i) > d(f[i - 1]) THEN i ELSE f[i - 1])
    BY <2>1, <2>2
  <2>4. n \in Nat /\ f[0] = base
    BY <1>1, <2>1
  <2>5. \A i \in 0..n : f[i] = IF i = 0 THEN base ELSE (IF d(i) > d(f[i - 1]) THEN i ELSE f[i - 1])
    BY <2>3, <2>4
  <2> QED
    BY <2>1, <2>5
<1>8. rec = [i \in 0..n |-> IF i = 0 THEN base ELSE (IF d(i) > d(rec[i - 1]) THEN i ELSE rec[i - 1])]
  BY <1>7
<1> HIDE DEF rec
<1>9. rec[0] = base /\ \A i \in 1..n : rec[i] = (IF d(i) > d(rec[i - 1]) THEN i ELSE rec[i - 1])
  BY <1>1, <1>8
<1>10. rec[n] \in D
  <2>1. \A i \in 1..n : rec[i - 1] \in D => rec[i] \in D
    BY <1>3, <1>9
  <2>2. n \in Nat /\ rec[0] \in D
    BY <1>1, <1>2, <1>9
  <2>3. \A i \in 0..n : rec[i] \in D
    BY <2>1, <2>2, LoopStays
  <2> QED
    BY <2>2, <2>3
<1>11. Farthest(g, node, l) = rec[n]
  BY DEF Farthest, rec, base, n, d
<1> QED
  BY <1>10, <1>11 DEF D, n

LEMMA WithoutFarthestIs ==
  ASSUME NEW g, NEW node, NEW S, NEW l \in Seq(S), Len(l) > 0
  PROVE  WithoutFarthest(g, node, l) \in Seq(S) /\ Len(WithoutFarthest(g, node, l)) = Len(l) - 1
<1> DEFINE k == Farthest(g, node, l)
           e == [l EXCEPT ![k] = Last(l)]
<1>1. k \in 1..Len(l)
  BY FarthestIs
<1>2. Last(l) \in S
  BY DEF Last
<1> HIDE DEF k
<1>3. e \in Seq(S) /\ Len(e) = Len(l)
  BY <1>1, <1>2
<1>4. WithoutFarthest(g, node, l) = SubSeq(e, 1, Len(e) - 1)
  BY DEF WithoutFarthest, Front, k
<1> HIDE DEF e
<1> QED
  BY <1>3, <1>4

(* A node that takes the new one for a neighbour keeps within its room.    *)
LEMMA LinkBackIs ==
  ASSUME NEW g, g.nodes \in Seq(NodeRecords), NEW L, LinksOk(g, L), NEW n \in DOMAIN g.nodes, IsMapped(g, n),
         NEW slot \in DOMAIN g.nodes, NEW level \in Nat
  PROVE  LinksOk(g, LinkBack(g, L, n, slot, level))
<1> DEFINE l == L[n][level + 1]
           W == WithoutFarthest(g, n, l)
           K == [L EXCEPT ![n][level + 1] = W]
           nearer == Near(g, g.nodes[n].vec, slot) < Near(g, g.nodes[n].vec, l[Farthest(g, n, l)])
<1>1. LinkBack(g, L, n, slot, level) =
        IF level > g.nodes[n].level THEN L
        ELSE IF Len(l) < MaxLinks(level) THEN Linked(g, L, n, level, slot)
        ELSE IF nearer THEN Linked(g, K, n, level, slot) ELSE L
  BY DEF LinkBack
<1>2. CASE level > g.nodes[n].level
  BY <1>1, <1>2
<1>3. CASE ~(level > g.nodes[n].level)
  <2>1. g.nodes[n] \in NodeRecords
    OBVIOUS
  <2>2. level <= g.nodes[n].level
    BY <1>3, <2>1 DEF NodeRecords
  <2>3. level + 1 \in DOMAIN L[n]
    BY <2>2, LevelIs
  <2>4. LinksOk(g, Linked(g, L, n, level, slot))
    BY <2>3, LinkedIs
  <2>5. CASE ~(Len(l) < MaxLinks(level))
    <3>1. l \in Seq(DOMAIN g.nodes) /\ g.nodes[n].room[level + 1] \in Nat /\ Len(l) <= g.nodes[n].room[level + 1]
      BY <2>3, ListIs
    <3> HIDE DEF l
    <3>2. Len(l) > 0 /\ Len(l) \in Nat
      <4>1. MaxLinks(level) \in Nat /\ MaxLinks(level) > 0
        BY MaxLinksIs
      <4> QED
        BY <2>5, <3>1, <4>1
    <3>3. W \in Seq(DOMAIN g.nodes) /\ Len(W) = Len(l) - 1
      BY <3>1, <3>2, WithoutFarthestIs
    <3>4. Len(W) <= g.nodes[n].room[level + 1]
      BY <3>1, <3>2, <3>3
    <3> HIDE DEF W
    <3>5. LinksOk(g, K) /\ DOMAIN K[n] = DOMAIN L[n]
      <4>1. LinksOk(g, K) /\ \A i \in DOMAIN g.nodes : DOMAIN K[i] = DOMAIN L[i]
        <5>1. W \in Seq(DOMAIN g.nodes)
          BY <3>3
        <5> QED
          BY <2>3, <3>4, <5>1, PutIs
      <4> HIDE DEF K
      <4> QED
        BY <4>1
    <3> HIDE DEF K
    <3>6. LinksOk(g, Linked(g, K, n, level, slot))
      BY <2>3, <3>5, LinkedIs
    <3> QED
      BY <1>1, <2>4, <3>6
  <2> QED
    BY <1>1, <2>4, <2>5
<1> QED
  BY <1>2, <1>3

(* Links being made: dies only if some vector is not mapped.               *)
Linking(g) ==
  {t \in [links : Seq(Seq(Seq(DOMAIN g.nodes))), dies : BOOLEAN, selected : Nat] :
     LinksOk(g, t.links) /\ (AllMapped(g) => ~t.dies)}

LEMMA LinkIs ==
  ASSUME NEW g, Searchable(g), NEW t \in Linking(g), NEW n \in Reach(g), NEW slot \in Valid(g),
         NEW level \in Nat, level <= g.nodes[slot].level
  PROVE  Link(g, t, n, slot, level) \in Linking(g)
<1> DEFINE L == Linked(g, t.links, slot, level, n)
           B == LinkBack(g, L, n, slot, level)
           X == Seq(Seq(Seq(DOMAIN g.nodes)))
<1>1. /\ t \in [links : X, dies : BOOLEAN, selected : Nat]
      /\ LinksOk(g, t.links) /\ (AllMapped(g) => ~t.dies)
  BY DEF Linking
<1>2. n \in DOMAIN g.nodes /\ IsMapped(g, n) /\ slot \in DOMAIN g.nodes /\ IsMapped(g, slot)
      /\ g.nodes \in Seq(NodeRecords)
  BY ReachIs DEF Searchable, NodesOk, Valid
<1>3. level + 1 \in DOMAIN t.links[slot]
  BY <1>1, <1>2, LevelIs
<1>4. LinksOk(g, L)
  BY <1>1, <1>2, <1>3, LinkedIs
<1> HIDE DEF L
<1>5. LinksOk(g, B)
  BY <1>2, <1>4, LinkBackIs
<1>6. B \in X
  BY <1>5 DEF LinksOk
<1>7. AllMapped(g) => ~ReadsUnmapped(g, L, n, level)
  <2> SUFFICES ASSUME AllMapped(g), level <= g.nodes[n].level, NEW i \in DOMAIN L[n][level + 1]
               PROVE  IsMapped(g, L[n][level + 1][i])
    BY DEF ReadsUnmapped
  <2>1. level + 1 \in DOMAIN L[n]
    BY <1>2, <1>4, LevelIs
  <2>2. L[n][level + 1] \in Seq(DOMAIN g.nodes)
    BY <1>2, <1>4, <2>1, ListIs
  <2>3. L[n][level + 1][i] \in DOMAIN g.nodes
    BY <2>2
  <2> QED
    BY <2>3 DEF AllMapped
<1> DEFINE stop == t.dies \/ n = slot \/ t.selected >= MaxLinks(level)
<1>8. Link(g, t, n, slot, level) =
        IF stop THEN t
        ELSE IF ReadsUnmapped(g, L, n, level) THEN [t EXCEPT !.dies = TRUE]
        ELSE [t EXCEPT !.links = B, !.selected = t.selected + 1]
  BY DEF Link, L
<1> HIDE DEF stop, B, X
<1>9. CASE ~stop /\ ReadsUnmapped(g, L, n, level)
  <2> DEFINE u == [t EXCEPT !.dies = TRUE]
  <2>1. u \in [links : X, dies : BOOLEAN, selected : Nat] /\ u.links = t.links
    BY <1>1
  <2> HIDE DEF u
  <2>2. u \in Linking(g)
    BY <1>1, <1>7, <1>9, <2>1 DEF Linking, X
  <2> QED
    BY <1>8, <1>9, <2>2 DEF u
<1>10. CASE ~stop /\ ~ReadsUnmapped(g, L, n, level)
  <2> DEFINE k == t.selected + 1
             v == [t EXCEPT !.links = B]
             u == [v EXCEPT !.selected = k]
  <2>1. u \in [links : X, dies : BOOLEAN, selected : Nat] /\ u.links = B /\ u.dies = t.dies
    <3>1. k \in Nat
      BY <1>1
    <3>2. v \in [links : X, dies : BOOLEAN, selected : Nat] /\ v.links = B /\ v.dies = t.dies
      BY <1>1, <1>6
    <3> HIDE DEF k, v
    <3> QED
      BY <3>1, <3>2
  <2>2. u = [t EXCEPT !.links = B, !.selected = k]
    OBVIOUS
  <2> HIDE DEF u
  <2>3. u \in Linking(g)
    BY <1>1, <1>5, <2>1 DEF Linking, X
  <2> QED
    BY <1>8, <1>10, <2>2, <2>3
<1> QED
  BY <1>8, <1>9, <1>10

LinkingLevels(g) ==
  {s \in [links : Seq(Seq(Seq(DOMAIN g.nodes))), dies : BOOLEAN, at : Reach(g)] :
     LinksOk(g, s.links) /\ (AllMapped(g) => ~s.dies)}

LEMMA LinkLevelIs ==
  ASSUME NEW g, IsGraph(g), Searchable(g), NEW s \in LinkingLevels(g), NEW slot \in Valid(g),
         NEW level \in Nat, level <= g.nodes[slot].level
  PROVE  LinkLevel(g, s, slot, level) \in LinkingLevels(g)
<1> DEFINE h == [g EXCEPT !.links = s.links]
           found == SearchLayer(h, g.nodes[slot].vec, s.at, level, EfConstruction)
           n == Len(found)
           D == Linking(g)
           base == [links |-> s.links, dies |-> FALSE, selected |-> 0]
           rec == CHOOSE f : f = [i \in 0..n |-> IF i = 0 THEN base ELSE Link(g, f[i - 1], found[i], slot, level)]
           G == [x \in (1..n) \X D |-> Link(g, x[2], found[x[1]], slot, level)]
           X == Seq(Seq(Seq(DOMAIN g.nodes)))
<1>1. /\ s \in [links : X, dies : BOOLEAN, at : Reach(g)]
      /\ LinksOk(g, s.links) /\ (AllMapped(g) => ~s.dies)
  BY DEF LinkingLevels
<1>2. Searchable(h) /\ Reach(h) = Reach(g)
  <2>1. h.nodes = g.nodes /\ h.links = s.links /\ h.entry = g.entry /\ h.top = g.top
    BY DEF IsGraph
  <2> HIDE DEF h
  <2>2. LinksOk(h, h.links)
    BY <1>1, <2>1 DEF LinksOk, IsMapped
  <2>3. NodesOk(h)
    BY <2>1 DEF NodesOk, IsMapped, Searchable
  <2> QED
    BY <2>1, <2>2, <2>3 DEF Searchable, IsMapped, Reach, Valid
<1> HIDE DEF h
<1>3. g.nodes[slot].vec \in Points
  <2>1. NodesOk(g) /\ slot \in DOMAIN g.nodes /\ IsMapped(g, slot) /\ g.nodes[slot] \in NodeRecords
    BY ReachIs DEF Searchable, Reach
  <2> QED
    BY <2>1 DEF IsMapped, NodeRecords
<1>4. found \in Seq(Reach(g))
  BY <1>1, <1>2, <1>3, SearchLayerIs
<1> HIDE DEF found
<1>5. n \in Nat /\ \A i \in 1..n : found[i] \in Reach(g)
  BY <1>4
<1>6. base \in D
  <2>1. base \in [links : X, dies : BOOLEAN, selected : Nat] /\ base.links = s.links /\ ~base.dies
    BY <1>1
  <2> HIDE DEF base
  <2> QED
    BY <1>1, <2>1 DEF Linking
<1>7. \A t \in D, i \in 1..n : Link(g, t, found[i], slot, level) \in D
  BY <1>5, LinkIs
<1> HIDE DEF D, base
<1> HIDE DEF n
<1>8. G \in Turns(n, D)
  BY <1>7 DEF Turns
<1>9. \A x \in (1..n) \X D : G[x] = Link(g, x[2], found[x[1]], slot, level)
  OBVIOUS
<1> HIDE DEF G
<1>10. PICK f : IsLoop(f, n, D, base, G)
  BY <1>5, <1>6, <1>8, LoopExists
<1>11. f = [i \in 0..n |-> IF i = 0 THEN base ELSE Link(g, f[i - 1], found[i], slot, level)]
  <2>1. /\ f = [i \in 0..n |-> f[i]] /\ f[0] = base
        /\ \A i \in 1..n : <<i, f[i - 1]>> \in (1..n) \X D /\ f[i] = G[<<i, f[i - 1]>>]
    BY <1>5, <1>6, <1>8, <1>10, LoopValues
  <2>2. \A i \in 1..n : G[<<i, f[i - 1]>>] = Link(g, f[i - 1], found[i], slot, level)
    BY <1>9, <2>1
  <2>3. \A i \in 1..n : f[i] = Link(g, f[i - 1], found[i], slot, level)
    BY <2>1, <2>2
  <2>4. n \in Nat /\ f[0] = base
    BY <1>5, <2>1
  <2>5. \A i \in 0..n : f[i] = IF i = 0 THEN base ELSE Link(g, f[i - 1], found[i], slot, level)
    BY <2>3, <2>4
  <2> QED
    BY <2>1, <2>5
<1>12. rec = [i \in 0..n |-> IF i = 0 THEN base ELSE Link(g, rec[i - 1], found[i], slot, level)]
  BY <1>11
<1> HIDE DEF rec
<1>13. rec[0] = base /\ \A i \in 1..n : rec[i] = Link(g, rec[i - 1], found[i], slot, level)
  BY <1>5, <1>12
<1>14. rec[n] \in D
  <2>1. \A i \in 1..n : rec[i - 1] \in D => rec[i] \in D
    BY <1>7, <1>13
  <2>2. n \in Nat /\ rec[0] \in D
    BY <1>5, <1>6, <1>13
  <2>3. \A i \in 0..n : rec[i] \in D
    BY <2>1, <2>2, LoopStays
  <2> QED
    BY <2>2, <2>3
<1> DEFINE r == rec[n]
           at == IF found = <<>> THEN s.at ELSE found[1]
<1>15. LinkLevel(g, s, slot, level) = IF s.dies THEN s ELSE [links |-> r.links, dies |-> r.dies, at |-> at]
  BY DEF LinkLevel, rec, base, n, found, h
<1>16. r \in [links : X, dies : BOOLEAN, selected : Nat] /\ LinksOk(g, r.links) /\ (AllMapped(g) => ~r.dies)
  BY <1>14 DEF D, Linking
<1>17. at \in Reach(g)
  BY <1>1, <1>4
<1> HIDE DEF r, at, X
<1> DEFINE u == [links |-> r.links, dies |-> r.dies, at |-> at]
<1>18. u \in [links : X, dies : BOOLEAN, at : Reach(g)] /\ u.links = r.links /\ u.dies = r.dies
  BY <1>16, <1>17
<1> HIDE DEF u
<1>19. u \in LinkingLevels(g)
  BY <1>16, <1>18 DEF LinkingLevels, X
<1> QED
  BY <1>15, <1>19 DEF u

(* Linking a node on all levels.                                           *)
LEMMA LinkLevelsIs ==
  ASSUME NEW g, IsGraph(g), Searchable(g), g.top >= -1, NEW slot \in Valid(g), NEW at \in Reach(g)
  PROVE  LinkLevels(g, slot, at) \in LinkingLevels(g)
<1> DEFINE low == Min({g.nodes[slot].level, g.top})
           n == low + 1
           D == LinkingLevels(g)
           base == [links |-> g.links, dies |-> FALSE, at |-> at]
           rec == CHOOSE f : f = [i \in 0..n |-> IF i = 0 THEN base ELSE LinkLevel(g, f[i - 1], slot, low - i + 1)]
           G == [x \in (1..n) \X D |-> LinkLevel(g, x[2], slot, low - x[1] + 1)]
           X == Seq(Seq(Seq(DOMAIN g.nodes)))
<1>1. n \in Nat /\ \A i \in 1..n : low - i + 1 \in Nat /\ low - i + 1 <= g.nodes[slot].level
  <2>1. g.nodes[slot].level \in Nat /\ g.top \in Int
    <3>1. g.nodes[slot] \in NodeRecords
      BY ReachIs DEF Reach
    <3> QED
      BY <3>1 DEF NodeRecords, Searchable
  <2>2. low = IF g.nodes[slot].level <= g.top THEN g.nodes[slot].level ELSE g.top
    BY <2>1, MinOfTwo
  <2> HIDE DEF low
  <2> QED
    BY <2>1, <2>2
<1>2. base \in D
  <2>1. LinksOk(g, g.links) /\ g.links \in X
    BY DEF Searchable, LinksOk
  <2> HIDE DEF X
  <2>2. base \in [links : X, dies : BOOLEAN, at : Reach(g)] /\ base.links = g.links /\ ~base.dies
    BY <2>1
  <2> HIDE DEF base
  <2> QED
    BY <2>1, <2>2 DEF LinkingLevels, X
<1> HIDE DEF n
<1>3. \A s \in D, i \in 1..n : LinkLevel(g, s, slot, low - i + 1) \in D
  BY <1>1, LinkLevelIs
<1> HIDE DEF D, base, low
<1>4. G \in Turns(n, D)
  BY <1>3 DEF Turns
<1>5. \A x \in (1..n) \X D : G[x] = LinkLevel(g, x[2], slot, low - x[1] + 1)
  OBVIOUS
<1> HIDE DEF G
<1>6. PICK f : IsLoop(f, n, D, base, G)
  BY <1>1, <1>2, <1>4, LoopExists
<1>7. f = [i \in 0..n |-> IF i = 0 THEN base ELSE LinkLevel(g, f[i - 1], slot, low - i + 1)]
  <2>1. /\ f = [i \in 0..n |-> f[i]] /\ f[0] = base
        /\ \A i \in 1..n : <<i, f[i - 1]>> \in (1..n) \X D /\ f[i] = G[<<i, f[i - 1]>>]
    BY <1>1, <1>2, <1>4, <1>6, LoopValues
  <2>2. \A i \in 1..n : G[<<i, f[i - 1]>>] = LinkLevel(g, f[i - 1], slot, low - i + 1)
    BY <1>5, <2>1
  <2>3. \A i \in 1..n : f[i] = LinkLevel(g, f[i - 1], slot, low - i + 1)
    BY <2>1, <2>2
  <2>4. n \in Nat /\ f[0] = base
    BY <1>1, <2>1
  <2>5. \A i \in 0..n : f[i] = IF i = 0 THEN base ELSE LinkLevel(g, f[i - 1], slot, low - i + 1)
    BY <2>3, <2>4
  <2> QED
    BY <2>1, <2>5
<1>8. rec = [i \in 0..n |-> IF i = 0 THEN base ELSE LinkLevel(g, rec[i - 1], slot, low - i + 1)]
  BY <1>7
<1> HIDE DEF rec
<1>9. rec[0] = base /\ \A i \in 1..n : rec[i] = LinkLevel(g, rec[i - 1], slot, low - i + 1)
  BY <1>1, <1>8
<1>10. rec[n] \in D
  <2>1. \A i \in 1..n : rec[i - 1] \in D => rec[i] \in D
    BY <1>3, <1>9
  <2>2. n \in Nat /\ rec[0] \in D
    BY <1>1, <1>2, <1>9
  <2>3. \A i \in 0..n : rec[i] \in D
    BY <2>1, <2>2, LoopStays
  <2> QED
    BY <2>2, <2>3
<1>11. LinkLevels(g, slot, at) = rec[n]
  BY DEF LinkLevels, rec, base, n, low
<1> QED
  BY <1>10, <1>11 DEF D

-----------------------------------------------------------------------------
(* Inserting.                                                              *)

LEMMA SeqGrows ==
  ASSUME NEW S, NEW T, S \subseteq T
  PROVE  Seq(S) \subseteq Seq(T)
OBVIOUS

(* A fill of a pool: a vector for each mapped node, none for the others.   *)
FillOk(g, f) ==
  /\ f \in [DOMAIN g.nodes -> Points \union {None}]
  /\ \A n \in DOMAIN g.nodes : f[n] # None <=> IsMapped(g, n)

LEMMA FillsAre ==
  ASSUME NEW g, Shape(g), NEW f \in Fills(g)
  PROVE  FillOk(g, f) /\ (g.pool > 0 => \A n \in DOMAIN g.nodes : f[n] = g.nodes[n].vec)
<1> DEFINE same == [n \in DOMAIN g.nodes |-> g.nodes[n].vec]
           kept == g.pool > 0 \/ g.free # <<>> \/ Len(g.nodes) < g.capacity
<1>1. Fills(g) = IF kept THEN {same} ELSE [DOMAIN g.nodes -> Points]
  BY DEF Fills
<1>2. CASE kept
  <2>1. f = same
    BY <1>1, <1>2
  <2>2. \A n \in DOMAIN g.nodes : g.nodes[n] \in NodeRecords
    BY DEF Shape, NodesOk
  <2>3. \A n \in DOMAIN g.nodes : g.nodes[n].vec \in Points \union {None}
    BY <2>2 DEF NodeRecords
  <2> QED
    BY <2>1, <2>3 DEF FillOk, IsMapped
<1>3. CASE ~kept
  <2>1. f \in [DOMAIN g.nodes -> Points]
    BY <1>1, <1>3
  <2>2. \A n \in DOMAIN g.nodes : IsMapped(g, n)
    <3>1. ToSet(g.free) = {}
      BY <1>3 DEF ToSet
    <3> QED
      BY <3>1 DEF Shape, FreeOk, Valid, NodesOk
  <2> QED
    BY <1>3, <2>1, <2>2, VectorAssumption DEF FillOk
<1> QED
  BY <1>2, <1>3

LEMMA RefilledIs ==
  ASSUME NEW g, Shape(g), NEW f, FillOk(g, f)
  PROVE  LET w == Refilled(g, f)
         IN  /\ Shape(w) /\ Valid(w) = Valid(g)
             /\ DOMAIN w.nodes = DOMAIN g.nodes /\ Len(w.nodes) = Len(g.nodes)
             /\ \A n \in DOMAIN g.nodes :
                  /\ w.nodes[n].id = g.nodes[n].id /\ w.nodes[n].valid = g.nodes[n].valid
                  /\ w.nodes[n].vec = f[n] /\ (IsMapped(w, n) <=> IsMapped(g, n))
             /\ w.free = g.free /\ w.count = g.count /\ w.entry = g.entry /\ w.top = g.top
             /\ w.pool = g.pool
<1> DEFINE N == [n \in DOMAIN g.nodes |-> [g.nodes[n] EXCEPT !.vec = f[n]]]
           w == Refilled(g, f)
<1>1. w = [g EXCEPT !.nodes = N]
  BY DEF Refilled
<1>2. g.nodes \in Seq(NodeRecords) /\ DOMAIN g.nodes = 1..Len(g.nodes) /\ Len(g.nodes) \in Nat
  BY DEF Shape, NodesOk
<1>3. ASSUME NEW n \in DOMAIN g.nodes
      PROVE  /\ N[n] \in NodeRecords /\ N[n].id = g.nodes[n].id /\ N[n].valid = g.nodes[n].valid
             /\ N[n].level = g.nodes[n].level /\ N[n].room = g.nodes[n].room /\ N[n].vec = f[n]
  <2> DEFINE a == g.nodes[n]
             b == [a EXCEPT !.vec = f[n]]
  <2>1. a \in NodeRecords /\ f[n] \in Points \union {None}
    BY <1>2 DEF FillOk
  <2>2. N[n] = b
    OBVIOUS
  <2> HIDE DEF a
  <2>3. b \in NodeRecords /\ b.id = a.id /\ b.valid = a.valid /\ b.level = a.level /\ b.room = a.room /\ b.vec = f[n]
    BY <2>1 DEF NodeRecords
  <2> QED
    BY <2>2, <2>3 DEF a
<1>4. DOMAIN N = DOMAIN g.nodes
  OBVIOUS
<1> HIDE DEF N
<1>5. N \in Seq(NodeRecords) /\ Len(N) = Len(g.nodes)
  <2>1. N \in [1..Len(g.nodes) -> NodeRecords]
    <3>1. N = [n \in 1..Len(g.nodes) |-> N[n]]
      BY <1>2 DEF N
    <3> QED
      BY <1>2, <1>3, <3>1
  <2> QED
    BY <1>2, <2>1
<1>6. /\ IsGraph(w) /\ w.nodes = N /\ w.links = g.links /\ w.free = g.free /\ w.count = g.count
      /\ w.entry = g.entry /\ w.top = g.top /\ w.capacity = g.capacity /\ w.pool = g.pool
  BY <1>1 DEF Shape, IsGraph
<1> HIDE DEF w
<1>7. \A n \in DOMAIN g.nodes : IsMapped(w, n) <=> IsMapped(g, n)
  BY <1>3, <1>6 DEF IsMapped, FillOk
<1>8. Valid(w) = Valid(g)
  BY <1>3, <1>4, <1>6 DEF Valid
<1>9. NodesOk(w)
  BY <1>3, <1>4, <1>5, <1>6, <1>7 DEF NodesOk, Shape
<1>10. LinksOk(w, w.links)
  BY <1>3, <1>4, <1>5, <1>6, <1>7, ZenonT(30) DEF LinksOk, Shape
<1>11. FreeOk(w)
  BY <1>4, <1>6, <1>8 DEF FreeOk, Shape
<1>12. Shape(w)
  BY <1>5, <1>6, <1>9, <1>10, <1>11 DEF Shape
<1> QED
  BY <1>3, <1>4, <1>5, <1>6, <1>7, <1>8, <1>12 DEF w

(* The slot that hnsw_insert uses.                                         *)
Slot(g) == IF g.free # <<>> THEN Last(g.free) ELSE Len(g.nodes) + 1

(* Taking the last slot off the free list.                                 *)
LEMMA FreeSlot ==
  ASSUME NEW S, NEW s \in Seq(S), IsInjective(s), s # <<>>
  PROVE  /\ Last(s) \in S /\ Last(s) \in ToSet(s)
         /\ Front(s) \in Seq(S) /\ IsInjective(Front(s)) /\ ToSet(Front(s)) = ToSet(s) \ {Last(s)}
<1> DEFINE n == Len(s)
           t == SubSeq(s, 1, n - 1)
<1>1. n \in Nat \ {0} /\ DOMAIN s = 1..n /\ Last(s) = s[n] /\ Front(s) = t
  BY DEF Last, Front
<1>2. t \in Seq(S) /\ DOMAIN t = 1..(n - 1) /\ \A i \in 1..(n - 1) : t[i] = s[i]
  BY <1>1
<1> HIDE DEF n, t
<1>3. \A i, j \in 1..n : s[i] = s[j] => i = j
  BY <1>1 DEF IsInjective
<1>4. IsInjective(t)
  BY <1>1, <1>2, <1>3 DEF IsInjective
<1>5. ToSet(s) = {s[i] : i \in 1..n} /\ ToSet(t) = {t[i] : i \in 1..(n - 1)}
  BY <1>1, <1>2 DEF ToSet
<1>6. ToSet(t) = ToSet(s) \ {s[n]}
  <2>1. ASSUME NEW x \in ToSet(t) PROVE x \in ToSet(s) \ {s[n]}
    BY <1>1, <1>2, <1>3, <1>5
  <2>2. ASSUME NEW x \in ToSet(s) \ {s[n]} PROVE x \in ToSet(t)
    <3>1. PICK i \in 1..n : x = s[i]
      BY <1>5
    <3>2. i \in 1..(n - 1)
      BY <1>1, <3>1
    <3>3. x = t[i]
      BY <1>2, <3>1, <3>2
    <3> QED
      BY <1>5, <3>2, <3>3
  <2> QED
    BY <2>1, <2>2
<1>7. s[n] \in S /\ s[n] \in ToSet(s)
  BY <1>1, <1>5
<1> QED
  BY <1>1, <1>2, <1>4, <1>6, <1>7

LEMMA WithSlotIs ==
  ASSUME NEW g, Shape(g)
  PROVE  LET w == WithSlot(g)
         IN  /\ IsGraph(w) /\ w.nodes = g.nodes /\ w.links = g.links /\ w.count = g.count
             /\ w.entry = g.entry /\ w.top = g.top
             /\ w.free = IF g.free # <<>> THEN Front(g.free) ELSE <<>>
             /\ w.capacity \in Nat \ {0} /\ w.pool \in Nat /\ (g.pool > 0 => w.pool > 0)
             /\ Len(g.nodes) <= w.capacity
             /\ (g.free = <<>> => Len(g.nodes) + 1 <= w.capacity)
<1>1. IsGraph(g) /\ g.capacity \in Nat \ {0} /\ g.pool \in Nat /\ Len(g.nodes) \in Nat /\ Len(g.nodes) <= g.capacity
  BY DEF Shape, NodesOk
<1>2. CASE g.free # <<>>
  <2>1. WithSlot(g) = [g EXCEPT !.free = Front(g.free)]
    BY <1>2 DEF WithSlot
  <2> DEFINE w == [g EXCEPT !.free = Front(g.free)]
  <2>2. /\ IsGraph(w) /\ w.nodes = g.nodes /\ w.links = g.links /\ w.count = g.count
        /\ w.entry = g.entry /\ w.top = g.top /\ w.free = Front(g.free) /\ w.capacity = g.capacity /\ w.pool = g.pool
    BY <1>1 DEF IsGraph
  <2> HIDE DEF w
  <2> QED
    BY <1>1, <1>2, <2>1, <2>2 DEF w
<1>3. CASE g.free = <<>> /\ Len(g.nodes) < g.capacity
  <2>1. WithSlot(g) = g
    BY <1>3 DEF WithSlot
  <2> QED
    BY <1>1, <1>3, <2>1
<1>4. CASE g.free = <<>> /\ ~(Len(g.nodes) < g.capacity)
  <2> DEFINE c == 2 * g.capacity
             e == EnsuredPool(g, c)
             w == [g EXCEPT !.capacity = c, !.pool = e]
  <2>1. WithSlot(g) = w
    BY <1>4 DEF WithSlot
  <2>2. c \in Nat \ {0} /\ Len(g.nodes) + 1 <= c
    BY <1>1
  <2> HIDE DEF c
  <2>3. e \in Nat /\ e > 0
    <3>1. InitialCapacity \in Nat \ {0}
      BY VectorAssumption
    <3>2. Max({2 * c, InitialCapacity}) = IF 2 * c >= InitialCapacity THEN 2 * c ELSE InitialCapacity
      BY <2>2, <3>1, MaxOfTwo
    <3> DEFINE m == Max({2 * c, InitialCapacity})
    <3>3. m \in Nat /\ m > 0
      BY <2>2, <3>1, <3>2
    <3>4. e = IF c <= g.pool THEN g.pool ELSE m
      BY DEF EnsuredPool
    <3> HIDE DEF e, m
    <3> QED
      BY <1>1, <2>2, <3>3, <3>4
  <2> HIDE DEF e
  <2>4. /\ IsGraph(w) /\ w.nodes = g.nodes /\ w.links = g.links /\ w.count = g.count
        /\ w.entry = g.entry /\ w.top = g.top /\ w.free = g.free /\ w.capacity = c /\ w.pool = e
    BY <1>1 DEF IsGraph
  <2> HIDE DEF w
  <2> QED
    BY <1>1, <1>4, <2>1, <2>2, <2>3, <2>4
<1> QED
  BY <1>2, <1>3, <1>4

(* A sequence with a member replaced, or with one more at its end.         *)
Placed(s, k, x) == IF k <= Len(s) THEN [s EXCEPT ![k] = x] ELSE Append(s, x)

IsPlaced(t, S, s, k, x) ==
  /\ t \in Seq(S) /\ Len(t) = (IF k <= Len(s) THEN Len(s) ELSE Len(s) + 1)
  /\ DOMAIN t = DOMAIN s \union {k} /\ t[k] = x
  /\ \A i \in DOMAIN s : i # k => t[i] = s[i]

LEMMA PlacedIs ==
  ASSUME NEW S, NEW s \in Seq(S), NEW x \in S, NEW k \in 1..(Len(s) + 1)
  PROVE  IsPlaced(Placed(s, k, x), S, s, k, x)
<1> USE DEF IsPlaced
<1>1. CASE k <= Len(s)
  <2> DEFINE t == [s EXCEPT ![k] = x]
  <2>1. Placed(s, k, x) = t
    BY <1>1 DEF Placed
  <2>2. t \in Seq(S) /\ Len(t) = Len(s) /\ DOMAIN t = DOMAIN s /\ k \in DOMAIN s /\ t[k] = x
        /\ \A i \in DOMAIN s : i # k => t[i] = s[i]
    BY <1>1
  <2> HIDE DEF t
  <2> QED
    BY <1>1, <2>1, <2>2
<1>2. CASE ~(k <= Len(s))
  <2> DEFINE t == Append(s, x)
  <2>1. Placed(s, k, x) = t
    BY <1>2 DEF Placed
  <2>2. k = Len(s) + 1 /\ Len(s) \in Nat
    BY <1>2
  <2>3. t \in Seq(S) /\ Len(t) = Len(s) + 1 /\ DOMAIN t = 1..(Len(s) + 1) /\ t[Len(s) + 1] = x
        /\ DOMAIN s = 1..Len(s) /\ \A i \in 1..Len(s) : t[i] = s[i]
    OBVIOUS
  <2> HIDE DEF t
  <2>4. DOMAIN t = DOMAIN s \union {k}
    BY <2>2, <2>3
  <2> QED
    BY <1>2, <2>1, <2>2, <2>3, <2>4
<1> QED
  BY <1>1, <1>2

(* The slot is not that of a live node.                                    *)
LEMMA SlotIs ==
  ASSUME NEW g, Shape(g)
  PROVE  /\ Slot(g) \in 1..(Len(g.nodes) + 1) /\ Slot(g) \notin Valid(g)
         /\ Len(g.nodes) \in Nat /\ DOMAIN g.nodes = 1..Len(g.nodes)
         /\ Slot(g) <= Len(g.nodes) <=> g.free # <<>>
<1>1. Len(g.nodes) \in Nat /\ DOMAIN g.nodes = 1..Len(g.nodes)
  BY DEF Shape, NodesOk
<1>2. CASE g.free # <<>>
  <2>1. Slot(g) = Last(g.free)
    BY <1>2 DEF Slot
  <2>2. Last(g.free) \in DOMAIN g.nodes /\ Last(g.free) \in ToSet(g.free)
    BY <1>2, FreeSlot DEF Shape, FreeOk
  <2>3. Last(g.free) \notin Valid(g)
    BY <2>2 DEF Shape, FreeOk
  <2> QED
    BY <1>1, <1>2, <2>1, <2>2, <2>3
<1>3. CASE g.free = <<>>
  <2>1. Slot(g) = Len(g.nodes) + 1
    BY <1>3 DEF Slot
  <2> QED
    BY <1>1, <1>3, <2>1 DEF Valid
<1> QED
  BY <1>2, <1>3

(* A node that hnsw_insert makes.                                          *)
Fresh(node) ==
  /\ node \in NodeRecords /\ node.valid /\ node.vec # None
  /\ node.room = [l \in 1..(node.level + 1) |-> MaxLinks(l - 1)]

LEMMA NewNodeIs ==
  ASSUME NEW id \in Nat, NEW p \in Points, NEW level \in Nat
  PROVE  /\ Fresh(NewNode(id, p, level))
         /\ NewNode(id, p, level).id = id /\ NewNode(id, p, level).vec = p /\ NewNode(id, p, level).level = level
<1> DEFINE r == [l \in 1..(level + 1) |-> MaxLinks(l - 1)]
           node == NewNode(id, p, level)
<1>1. r \in Seq(Nat)
  <2>1. \A l \in 1..(level + 1) : r[l] \in Nat
    BY MaxLinksIs
  <2>2. r = [l \in 1..(level + 1) |-> r[l]]
    OBVIOUS
  <2> HIDE DEF r
  <2>3. r \in [1..(level + 1) -> Nat]
    BY <2>1, <2>2
  <2> QED
    BY <2>3
<1>2. node = [id |-> id, valid |-> TRUE, level |-> level, vec |-> p, room |-> r]
  BY DEF NewNode
<1> HIDE DEF node
<1>3. node.id = id /\ node.valid /\ node.level = level /\ node.vec = p /\ node.room = r
  BY <1>2
<1>4. node.room = [l \in 1..(node.level + 1) |-> MaxLinks(l - 1)]
  BY <1>3
<1> HIDE DEF r
<1>5. node \in NodeRecords
  BY <1>1, <1>2 DEF NodeRecords
<1>6. Fresh(node)
  BY <1>3, <1>4, <1>5, VectorAssumption DEF Fresh
<1> QED
  BY <1>3, <1>6 DEF node

LEMMA WithNodeIs ==
  ASSUME NEW g, Shape(g), NEW node, Fresh(node)
  PROVE  LET h == WithNode(WithSlot(g), Slot(g), node)
         IN  /\ Shape(h)
             /\ DOMAIN h.nodes = DOMAIN g.nodes \union {Slot(g)} /\ h.nodes[Slot(g)] = node
             /\ \A n \in DOMAIN g.nodes : n # Slot(g) => h.nodes[n] = g.nodes[n]
             /\ Valid(h) = Valid(g) \union {Slot(g)}
             /\ h.count = g.count + 1 /\ h.entry = g.entry /\ h.top = g.top
             /\ h.pool = WithSlot(g).pool
<1> DEFINE w == WithSlot(g)
           slot == Slot(g)
           ls == [l \in 1..(node.level + 1) |-> <<>>]
           N == Placed(g.nodes, slot, node)
           L == Placed(g.links, slot, ls)
           h == WithNode(w, slot, node)
           X == DOMAIN g.nodes \union {slot}
           c == g.count + 1
<1>1. /\ IsGraph(w) /\ w.nodes = g.nodes /\ w.links = g.links /\ w.count = g.count
      /\ w.entry = g.entry /\ w.top = g.top
      /\ w.free = IF g.free # <<>> THEN Front(g.free) ELSE <<>>
      /\ w.capacity \in Nat \ {0} /\ w.pool \in Nat
      /\ Len(g.nodes) <= w.capacity
      /\ (g.free = <<>> => Len(g.nodes) + 1 <= w.capacity)
  BY WithSlotIs
<1>2. /\ slot \in 1..(Len(g.nodes) + 1) /\ slot \notin Valid(g)
      /\ Len(g.nodes) \in Nat /\ DOMAIN g.nodes = 1..Len(g.nodes)
      /\ slot <= Len(g.nodes) <=> g.free # <<>>
  BY SlotIs
<1> HIDE DEF w, slot
<1>3. /\ g.nodes \in Seq(NodeRecords) /\ g.links \in Seq(Seq(Seq(DOMAIN g.nodes))) /\ Len(g.links) = Len(g.nodes)
      /\ g.count \in Nat
  BY DEF Shape, NodesOk, LinksOk
<1>4. h = [w EXCEPT !.nodes = N, !.links = L, !.count = c]
  <2>1. CASE slot <= Len(g.nodes)
    BY <1>1, <1>3, <2>1 DEF WithNode, Placed
  <2>2. CASE ~(slot <= Len(g.nodes))
    BY <1>1, <1>3, <2>2 DEF WithNode, Placed
  <2> QED
    BY <2>1, <2>2
<1>5. /\ N \in Seq(NodeRecords) /\ Len(N) = (IF slot <= Len(g.nodes) THEN Len(g.nodes) ELSE Len(g.nodes) + 1)
      /\ DOMAIN N = X /\ N[slot] = node /\ \A i \in DOMAIN g.nodes : i # slot => N[i] = g.nodes[i]
  <2>1. g.nodes \in Seq(NodeRecords) /\ node \in NodeRecords /\ slot \in 1..(Len(g.nodes) + 1)
    BY <1>2, <1>3 DEF Fresh
  <2>2. IsPlaced(N, NodeRecords, g.nodes, slot, node)
    BY <2>1, PlacedIs
  <2> HIDE DEF N
  <2> QED
    BY <2>2 DEF IsPlaced
<1>6. /\ ls \in Seq(Seq(X)) /\ Len(ls) = node.level + 1 /\ node.level \in Nat
      /\ \A l \in DOMAIN ls : l \in 1..(node.level + 1) /\ Len(ls[l]) = 0
  <2>1. node.level \in Nat
    BY DEF Fresh, NodeRecords
  <2> HIDE DEF X
  <2>2. \A l \in 1..(node.level + 1) : ls[l] \in Seq(X) /\ Len(ls[l]) = 0
    OBVIOUS
  <2>3. ls = [l \in 1..(node.level + 1) |-> ls[l]] /\ DOMAIN ls = 1..(node.level + 1)
    OBVIOUS
  <2> HIDE DEF ls
  <2>4. ls \in [1..(node.level + 1) -> Seq(X)]
    BY <2>2, <2>3
  <2> QED
    <3>1. ls \in Seq(Seq(X))
      BY <2>1, <2>4
    <3>2. Len(ls) = node.level + 1
      BY <2>1, <2>3, <3>1
    <3> QED
      BY <2>1, <2>2, <2>3, <3>1, <3>2
<1> HIDE DEF ls
<1>7. g.links \in Seq(Seq(Seq(X)))
  <2>1. Seq(DOMAIN g.nodes) \subseteq Seq(X)
    BY SeqGrows
  <2> HIDE DEF X
  <2>2. Seq(Seq(DOMAIN g.nodes)) \subseteq Seq(Seq(X))
    BY <2>1, SeqGrows
  <2>3. Seq(Seq(Seq(DOMAIN g.nodes))) \subseteq Seq(Seq(Seq(X)))
    BY <2>2, SeqGrows
  <2> QED
    BY <1>3, <2>3
<1>8. /\ L \in Seq(Seq(Seq(X))) /\ Len(L) = Len(N) /\ L[slot] = ls
      /\ \A i \in DOMAIN g.nodes : i # slot => L[i] = g.links[i]
  <2> HIDE DEF X, N
  <2>1. slot \in 1..(Len(g.links) + 1) /\ DOMAIN g.links = DOMAIN g.nodes
    BY <1>2, <1>3
  <2> QED
    <3>1. g.links \in Seq(Seq(Seq(X))) /\ ls \in Seq(Seq(X)) /\ slot \in 1..(Len(g.links) + 1)
      BY <1>6, <1>7, <2>1
    <3>2. IsPlaced(L, Seq(Seq(X)), g.links, slot, ls)
      BY <3>1, PlacedIs
    <3> HIDE DEF L
    <3> QED
      BY <1>3, <1>5, <2>1, <3>2 DEF IsPlaced
<1> HIDE DEF N, L, c
<1>9. /\ IsGraph(h) /\ h.nodes = N /\ h.links = L /\ h.free = w.free /\ h.count = c
      /\ h.entry = w.entry /\ h.top = w.top /\ h.capacity = w.capacity /\ h.pool = w.pool
  BY <1>1, <1>4, ZenonT(30) DEF IsGraph
<1> HIDE DEF h
<1>10. Valid(h) = Valid(g) \union {slot}
  <2>1. \A n \in X : N[n].valid <=> n = slot \/ g.nodes[n].valid
    BY <1>5 DEF Fresh
  <2> QED
    BY <1>5, <1>9, <2>1 DEF Valid
<1>11. \A l \in 1..(node.level + 1) : MaxLinks(l - 1) \in Nat
  <2>1. \A l \in 1..(node.level + 1) : l - 1 \in Nat
    BY <1>6
  <2> QED
    BY <2>1, MaxLinksIs
<1>12. NodesOk(h)
  <2> SUFFICES ASSUME NEW n \in X
               PROVE  /\ N[n].valid => N[n].vec # None
                      /\ \A l \in DOMAIN N[n].room : N[n].room[l] <= MaxLinks(l - 1)
    BY <1>5, <1>9 DEF NodesOk, IsMapped
  <2>1. CASE n = slot
    <3>1. \A l \in 1..(node.level + 1) : MaxLinks(l - 1) \in Nat
      BY <1>11
    <3>2. node.room = [l \in 1..(node.level + 1) |-> MaxLinks(l - 1)] /\ node.vec # None
      BY DEF Fresh
    <3>3. \A l \in DOMAIN node.room : node.room[l] <= MaxLinks(l - 1)
      BY <3>1, <3>2
    <3> QED
      BY <1>5, <2>1, <3>2, <3>3
  <2>2. CASE n # slot
    BY <1>5, <2>2 DEF Shape, NodesOk, IsMapped
  <2> QED
    BY <2>1, <2>2
<1>13. LinksOk(h, h.links)
  <2> SUFFICES ASSUME NEW n \in X
               PROVE  /\ N[n].vec # None => Len(L[n]) = N[n].level + 1
                      /\ \A l \in DOMAIN L[n] : l \in DOMAIN N[n].room /\ Len(L[n][l]) <= N[n].room[l]
    BY <1>5, <1>8, <1>9 DEF LinksOk, IsMapped
  <2>1. CASE n = slot
    <3>1. \A l \in 1..(node.level + 1) : MaxLinks(l - 1) \in Nat
      BY <1>11
    <3>2. DOMAIN node.room = 1..(node.level + 1) /\ \A l \in 1..(node.level + 1) : node.room[l] \in Nat
      BY <3>1 DEF Fresh
    <3>3. \A l \in DOMAIN ls : l \in DOMAIN node.room /\ Len(ls[l]) <= node.room[l]
      BY <1>6, <3>2
    <3> QED
      BY <1>5, <1>6, <1>8, <2>1, <3>3
  <2>2. CASE n # slot
    BY <1>5, <1>8, <2>2 DEF Shape, LinksOk, IsMapped
  <2> QED
    BY <2>1, <2>2
<1>14. FreeOk(h)
  <2>1. CASE g.free # <<>>
    <3>1. g.free \in Seq(DOMAIN g.nodes) /\ IsInjective(g.free) /\ ToSet(g.free) = DOMAIN g.nodes \ Valid(g)
      BY DEF Shape, FreeOk
    <3>2. /\ Front(g.free) \in Seq(DOMAIN g.nodes) /\ IsInjective(Front(g.free))
          /\ ToSet(Front(g.free)) = ToSet(g.free) \ {Last(g.free)}
      BY <2>1, <3>1, FreeSlot
    <3>3. slot = Last(g.free) /\ h.free = Front(g.free)
      BY <1>1, <1>9, <2>1 DEF slot, Slot
    <3>4. DOMAIN h.nodes = DOMAIN g.nodes
      BY <1>2, <1>5, <1>9, <2>1
    <3> QED
      BY <1>10, <3>1, <3>2, <3>3, <3>4 DEF FreeOk
  <2>2. CASE g.free = <<>>
    <3>1. h.free = <<>>
      BY <1>1, <1>9, <2>2
    <3>2. DOMAIN g.nodes \ Valid(g) = {}
      BY <2>2 DEF Shape, FreeOk, ToSet
    <3>3. DOMAIN h.nodes \ Valid(h) = {}
      BY <1>5, <1>9, <1>10, <3>2
    <3> QED
      BY <3>1, <3>3 DEF FreeOk, ToSet, IsInjective
  <2> QED
    BY <2>1, <2>2
<1>15. c \in Nat /\ g.top \in Int /\ g.top >= -1
  BY <1>3 DEF Shape, c
<1>16. Len(h.nodes) <= h.capacity
  BY <1>1, <1>2, <1>5, <1>9
<1>17. Shape(h)
  BY <1>1, <1>9, <1>12, <1>13, <1>14, <1>15, <1>16 DEF Shape
<1> QED
  BY <1>1, <1>5, <1>9, <1>10, <1>17 DEF h, w, slot, c

(* h is g with a node for the id more, its other vectors those of the fill. *)
Grown(g, h, id, p, f) ==
  \E slot \in DOMAIN h.nodes \ Valid(g) :
    /\ DOMAIN h.nodes = DOMAIN g.nodes \union {slot} /\ Valid(h) = Valid(g) \union {slot}
    /\ h.nodes[slot].id = id /\ h.nodes[slot].vec = p
    /\ \A n \in DOMAIN g.nodes \ {slot} : h.nodes[n].id = g.nodes[n].id /\ h.nodes[n].vec = f[n]
    /\ h.count = g.count + 1 /\ h.entry \in DOMAIN h.nodes /\ IsMapped(h, h.entry)

Inserted(g, id, p, f, r) ==
  /\ (g.pool > 0 /\ AllMapped(g)) => ~r.dies
  /\ ~r.dies => Shape(r.g) /\ r.g.pool > 0 /\ Grown(g, r.g, id, p, f)

(* The nodes and free list of a graph with other links, counts and entry.  *)
LEMMA ShapeKept ==
  ASSUME NEW h, Shape(h), NEW k, IsGraph(k), k.nodes = h.nodes, k.free = h.free, LinksOk(h, k.links),
         {k.count, k.pool} \subseteq Nat, k.top \in Int, k.top >= -1,
         k.capacity \in Nat \ {0}, Len(k.nodes) <= k.capacity
  PROVE  Shape(k)
<1>1. NodesOk(k)
  BY DEF Shape, NodesOk, IsMapped
<1>2. LinksOk(k, k.links)
  BY DEF LinksOk, IsMapped
<1>3. FreeOk(k)
  BY DEF Shape, FreeOk, Valid
<1> QED
  BY <1>1, <1>2, <1>3 DEF Shape

(* hnsw_insert uses a slot of no live node; it can only die in a graph     *)
(* with removed nodes whose vectors are gone, or without a pool.           *)
LEMMA InsertIs ==
  ASSUME NEW g, Shape(g), g.entry \in DOMAIN g.nodes \union {0},
         NEW id \in Nat, NEW p \in Points, NEW level \in Nat, NEW f, FillOk(g, f)
  PROVE  Inserted(g, id, p, f, HnswInsert(g, id, p, level, f))
<1> DEFINE v == Refilled(g, f)
           slot == Slot(v)
           w == WithSlot(v)
           node == NewNode(id, p, level)
           h == WithNode(w, slot, node)
           last == LinkLevels(h, slot, Descend(h, p, level))
           r == HnswInsert(g, id, p, level, f)
           first == [h EXCEPT !.entry = slot, !.top = level]
           top == IF level > h.top THEN level ELSE h.top
           entry == IF level > h.top THEN slot ELSE h.entry
           linked == [h EXCEPT !.links = last.links, !.top = top, !.entry = entry]
<1>1. /\ Shape(v) /\ Valid(v) = Valid(g)
      /\ DOMAIN v.nodes = DOMAIN g.nodes /\ Len(v.nodes) = Len(g.nodes)
      /\ \A n \in DOMAIN g.nodes :
           /\ v.nodes[n].id = g.nodes[n].id /\ v.nodes[n].valid = g.nodes[n].valid
           /\ v.nodes[n].vec = f[n] /\ (IsMapped(v, n) <=> IsMapped(g, n))
      /\ v.free = g.free /\ v.count = g.count /\ v.entry = g.entry /\ v.top = g.top
      /\ v.pool = g.pool
  BY RefilledIs
<1>2. /\ Fresh(node) /\ node.id = id /\ node.vec = p
  BY NewNodeIs
<1>3. slot = (IF g.free # <<>> THEN Last(g.free) ELSE Len(g.nodes) + 1) /\ slot \notin Valid(g) /\ slot # 0
  BY <1>1, SlotIs DEF Slot
<1>4. r = IF w.pool = 0 THEN [g |-> g, dies |-> TRUE]
          ELSE IF h.entry = 0 THEN [g |-> first, dies |-> FALSE]
          ELSE IF ~IsMapped(h, h.entry) THEN [g |-> g, dies |-> TRUE]
          ELSE [g |-> linked, dies |-> last.dies]
  BY <1>3 DEF HnswInsert
<1>5. w.pool \in Nat /\ (g.pool > 0 => w.pool > 0)
  BY <1>1, WithSlotIs
<1> HIDE DEF v, node
<1>6. /\ Shape(h)
      /\ DOMAIN h.nodes = DOMAIN g.nodes \union {slot} /\ h.nodes[slot] = node
      /\ \A n \in DOMAIN g.nodes : n # slot => h.nodes[n] = v.nodes[n]
      /\ Valid(h) = Valid(g) \union {slot}
      /\ h.count = g.count + 1 /\ h.entry = g.entry /\ h.top = g.top
      /\ h.pool = w.pool
  <2>1. /\ Shape(h)
        /\ DOMAIN h.nodes = DOMAIN v.nodes \union {slot} /\ h.nodes[slot] = node
        /\ \A n \in DOMAIN v.nodes : n # slot => h.nodes[n] = v.nodes[n]
        /\ Valid(h) = Valid(v) \union {slot}
        /\ h.count = v.count + 1 /\ h.entry = v.entry /\ h.top = v.top
        /\ h.pool = w.pool
    BY <1>1, <1>2, WithNodeIs
  <2> QED
    BY <1>1, <2>1
<1> HIDE DEF slot, w, h
<1>7. p # None
  BY VectorAssumption
<1>8. ASSUME NEW k, k.nodes = h.nodes, k.count = h.count, k.entry \in DOMAIN h.nodes, IsMapped(h, k.entry)
      PROVE  Grown(g, k, id, p, f)
  <2>1. \A n \in DOMAIN g.nodes \ {slot} : k.nodes[n].id = g.nodes[n].id /\ k.nodes[n].vec = f[n]
    BY <1>1, <1>6, <1>8
  <2>2. slot \in DOMAIN k.nodes \ Valid(g) /\ Valid(k) = Valid(g) \union {slot}
    BY <1>3, <1>6, <1>8 DEF Valid
  <2>3. IsMapped(k, k.entry)
    BY <1>8 DEF IsMapped
  <2> QED
    BY <1>2, <1>6, <1>8, <2>1, <2>2, <2>3 DEF Grown
<1>9. IsMapped(h, slot)
  BY <1>2, <1>6, <1>7 DEF IsMapped
<1>10. AllMapped(g) => AllMapped(h)
  <2> SUFFICES ASSUME AllMapped(g), NEW n \in DOMAIN h.nodes
               PROVE  IsMapped(h, n)
    BY DEF AllMapped
  <2>1. CASE n = slot
    BY <1>9, <2>1
  <2>2. CASE n # slot
    BY <1>1, <1>6, <2>2 DEF AllMapped, IsMapped
  <2> QED
    BY <2>1, <2>2
<1>11. CASE w.pool = 0
  <2>1. r = [g |-> g, dies |-> TRUE]
    BY <1>4, <1>11
  <2> HIDE DEF r
  <2>2. r.dies = TRUE /\ ~(g.pool > 0)
    BY <1>5, <1>11, <2>1
  <2> QED
    BY <2>2 DEF Inserted, r
<1>12. CASE w.pool # 0 /\ h.entry = 0
  <2>1. r = [g |-> first, dies |-> FALSE]
    BY <1>4, <1>12
  <2>2. /\ IsGraph(first) /\ first.nodes = h.nodes /\ first.links = h.links /\ first.free = h.free
        /\ first.count = h.count /\ first.entry = slot /\ first.top = level
        /\ first.capacity = h.capacity /\ first.pool = h.pool
    BY <1>6 DEF Shape, IsGraph
  <2> HIDE DEF first
  <2>3. Shape(first)
    <3>1. /\ LinksOk(h, first.links) /\ {first.count, first.pool} \subseteq Nat /\ first.top \in Int /\ first.top >= -1
          /\ first.capacity \in Nat \ {0} /\ Len(first.nodes) <= first.capacity
      BY <1>6, <2>2 DEF Shape
    <3> QED
      BY <1>6, <2>2, <3>1, ShapeKept
  <2>4. Grown(g, first, id, p, f)
    BY <1>6, <1>8, <1>9, <2>2
  <2>5. first.pool > 0
    BY <1>5, <1>6, <1>12, <2>2
  <2> HIDE DEF r
  <2>6. r.dies = FALSE /\ r.g = first
    BY <2>1
  <2> QED
    BY <2>3, <2>4, <2>5, <2>6 DEF Inserted, r
<1>13. CASE w.pool # 0 /\ h.entry # 0 /\ ~IsMapped(h, h.entry)
  <2>1. r = [g |-> g, dies |-> TRUE]
    BY <1>4, <1>13
  <2>2. ~AllMapped(g)
    BY <1>6, <1>10, <1>13 DEF AllMapped
  <2> HIDE DEF r
  <2>3. r.dies = TRUE
    BY <2>1
  <2> QED
    BY <2>2, <2>3 DEF Inserted, r
<1>14. CASE w.pool # 0 /\ h.entry # 0 /\ IsMapped(h, h.entry)
  <2>1. r = [g |-> linked, dies |-> last.dies]
    BY <1>4, <1>14
  <2>2. h.entry \in DOMAIN h.nodes
    BY <1>6, <1>14
  <2>3. Searchable(h)
    BY <1>6, <1>14, <2>2 DEF Searchable, Shape
  <2>4. Descend(h, p, level) \in Reach(h) /\ slot \in Valid(h)
    BY <1>6, <2>3, DescendIs
  <2>5. last \in LinkingLevels(h)
    <3>1. IsGraph(h) /\ h.top >= -1
      BY <1>6 DEF Shape
    <3> QED
      BY <2>3, <2>4, <3>1, LinkLevelsIs
  <2> HIDE DEF last
  <2>6. last.dies \in BOOLEAN /\ LinksOk(h, last.links) /\ (AllMapped(h) => ~last.dies)
    BY <2>5 DEF LinkingLevels
  <2>7. /\ top \in Int /\ top >= -1 /\ entry \in DOMAIN h.nodes /\ IsMapped(h, entry)
    BY <1>6, <1>9, <1>14, <2>2 DEF Shape
  <2> HIDE DEF top, entry
  <2>8. /\ IsGraph(linked) /\ linked.nodes = h.nodes /\ linked.links = last.links /\ linked.free = h.free
        /\ linked.count = h.count /\ linked.entry = entry /\ linked.top = top
        /\ linked.capacity = h.capacity /\ linked.pool = h.pool
    BY <1>6 DEF Shape, IsGraph
  <2> HIDE DEF linked
  <2>9. Shape(linked)
    BY <1>6, <2>6, <2>7, <2>8, ShapeKept DEF Shape
  <2>10. Grown(g, linked, id, p, f)
    BY <1>6, <1>8, <2>7, <2>8
  <2>11. linked.pool > 0
    BY <1>5, <1>6, <1>14, <2>8
  <2> HIDE DEF r
  <2>12. r.dies = last.dies /\ r.g = linked
    BY <2>1
  <2> QED
    BY <1>10, <2>6, <2>9, <2>10, <2>11, <2>12 DEF Inserted, r
<1> QED
  BY <1>11, <1>12, <1>13, <1>14

-----------------------------------------------------------------------------
(* What the nodes stand for.                                               *)

(* Entries are added and deleted, and keep their points.                   *)
Later(es, fs) ==
  /\ DOMAIN es \subseteq DOMAIN fs
  /\ \A o \in DOMAIN es : fs[o].point = es[o].point /\ (es[o].deleted => fs[o].deleted)

LEMMA StandsLater ==
  ASSUME NEW g, NEW es, NEW fs, NEW S, Later(es, fs), Stands(g, es, S)
  PROVE  Stands(g, fs, S) /\ (AsStored(g, es) => AsStored(g, fs))
BY DEF Later, Stands, AsStored, Valid

LEMMA ListLater ==
  ASSUME NEW es, NEW fs, NEW ls, Later(es, fs), ListOk(ls, es)
  PROVE  ListOk(ls, fs)
<1>1. Seq(DOMAIN es) \subseteq Seq(DOMAIN fs)
  BY SeqGrows DEF Later
<1> QED
  BY <1>1 DEF ListOk

(* Live nodes are finitely many.                                           *)
LEMMA ValidFinite ==
  ASSUME NEW g, NodesOk(g)
  PROVE  IsFiniteSet(Valid(g)) /\ Cardinality(Valid(g)) \in Nat
<1>1. DOMAIN g.nodes = 1..Len(g.nodes) /\ Len(g.nodes) \in Nat
  BY DEF NodesOk
<1>2. IsFiniteSet(1..Len(g.nodes))
  BY <1>1, FS_Interval
<1>3. Valid(g) \subseteq 1..Len(g.nodes)
  BY <1>1 DEF Valid
<1>4. IsFiniteSet(Valid(g))
  BY <1>2, <1>3, FS_Subset
<1> QED
  BY <1>4, FS_CardinalityType

SameVectors(g, f) == \A n \in DOMAIN g.nodes : f[n] = g.nodes[n].vec

(* What h stands for after a step from g.                                  *)
StandsFor(g, h, es, S) ==
  /\ Stands(h, es, S) /\ h.entry \in DOMAIN h.nodes
  /\ g.count <= Cardinality(Valid(g)) => Counted(h)
  /\ g.count = Cardinality(Valid(g)) => h.count = Cardinality(Valid(h))

(* An insertion for an entry that no live node stands for.                 *)
LEMMA StandsGrown ==
  ASSUME NEW g, NEW h, NEW es, NEW S, NEW o \in DOMAIN es, o \notin S, NEW p, NEW f,
         Stands(g, es, S), NodesOk(g), g.count \in Nat, Grown(g, h, o, p, f)
  PROVE  /\ StandsFor(g, h, es, S \union {o})
         /\ (es[o].point = p /\ SameVectors(g, f) /\ AsStored(g, es)) => AsStored(h, es)
<1>1. PICK slot \in DOMAIN h.nodes \ Valid(g) :
        /\ DOMAIN h.nodes = DOMAIN g.nodes \union {slot} /\ Valid(h) = Valid(g) \union {slot}
        /\ h.nodes[slot].id = o /\ h.nodes[slot].vec = p
        /\ \A n \in DOMAIN g.nodes \ {slot} : h.nodes[n].id = g.nodes[n].id /\ h.nodes[n].vec = f[n]
        /\ h.count = g.count + 1 /\ h.entry \in DOMAIN h.nodes /\ IsMapped(h, h.entry)
  BY DEF Grown
<1>2. Valid(g) \subseteq DOMAIN g.nodes \ {slot}
  BY <1>1 DEF Valid
<1>3. \A n \in Valid(g) : h.nodes[n].id = g.nodes[n].id /\ h.nodes[n].vec = f[n] /\ g.nodes[n].id # o
  BY <1>1, <1>2 DEF Stands
<1>4. Stands(h, es, S \union {o})
  <2>1. \A n \in DOMAIN h.nodes : h.nodes[n].id \in DOMAIN es
    BY <1>1 DEF Stands
  <2>2. \A n, m \in Valid(h) : h.nodes[n].id = h.nodes[m].id => n = m
    BY <1>1, <1>3 DEF Stands
  <2>3. {h.nodes[n].id : n \in Valid(h)} = S \union {o}
    <3>1. {h.nodes[n].id : n \in Valid(h)} = {h.nodes[n].id : n \in Valid(g)} \union {o}
      BY <1>1
    <3>2. {h.nodes[n].id : n \in Valid(g)} = {g.nodes[n].id : n \in Valid(g)}
      BY <1>3
    <3> QED
      BY <3>1, <3>2 DEF Stands
  <2>4. \A n \in DOMAIN h.nodes \ Valid(h) : es[h.nodes[n].id].deleted
    BY <1>1 DEF Stands
  <2> QED
    BY <2>1, <2>2, <2>3, <2>4 DEF Stands
<1>5. Cardinality(Valid(h)) = Cardinality(Valid(g)) + 1 /\ Cardinality(Valid(g)) \in Nat
  BY <1>1, ValidFinite, FS_AddElement, ZenonT(30)
<1>6. g.count <= Cardinality(Valid(g)) => Counted(h)
  BY <1>1, <1>5 DEF Counted
<1>7. g.count = Cardinality(Valid(g)) => h.count = Cardinality(Valid(h))
  BY <1>1, <1>5
<1>8. ASSUME AsStored(g, es), es[o].point = p, SameVectors(g, f)
      PROVE  AsStored(h, es)
  <2>1. \A n \in Valid(g) : h.nodes[n].vec = es[h.nodes[n].id].point
    BY <1>2, <1>3, <1>8 DEF AsStored, SameVectors
  <2> QED
    BY <1>1, <1>8, <2>1 DEF AsStored
<1> QED
  BY <1>1, <1>4, <1>6, <1>7, <1>8 DEF StandsFor

(* What hnsw_remove leaves.                                                *)
Left(g, h, id) ==
  /\ Shape(h) /\ h.entry = g.entry /\ h.pool = g.pool
  /\ DOMAIN h.nodes = DOMAIN g.nodes
  /\ \A n \in DOMAIN g.nodes : h.nodes[n].id = g.nodes[n].id /\ h.nodes[n].vec = g.nodes[n].vec
  /\ Valid(h) = {n \in Valid(g) : g.nodes[n].id # id}
  /\ Counted(g) => Counted(h)
  /\ g.count = Cardinality(Valid(g)) => h.count = Cardinality(Valid(h))

IsAppended(t, S, s, x) ==
  /\ t \in Seq(S) /\ ToSet(t) = ToSet(s) \union {x}
  /\ (IsInjective(s) /\ x \notin ToSet(s)) => IsInjective(t)

LEMMA AppendedIs ==
  ASSUME NEW S, NEW s \in Seq(S), NEW x \in S
  PROVE  IsAppended(Append(s, x), S, s, x)
<1> DEFINE n == Len(s)
           t == Append(s, x)
<1>1. n \in Nat /\ DOMAIN s = 1..n /\ t \in Seq(S) /\ DOMAIN t = 1..(n + 1) /\ t[n + 1] = x
      /\ \A i \in 1..n : t[i] = s[i]
  OBVIOUS
<1> HIDE DEF n, t
<1>2. ToSet(t) = {t[i] : i \in 1..(n + 1)} /\ ToSet(s) = {s[i] : i \in 1..n}
  BY <1>1 DEF ToSet
<1>3. ToSet(t) = ToSet(s) \union {x}
  <2>1. ToSet(t) \subseteq ToSet(s) \union {x}
    BY <1>1, <1>2
  <2>2. ToSet(s) \subseteq ToSet(t)
    BY <1>1, <1>2
  <2>3. x \in ToSet(t)
    BY <1>1, <1>2
  <2> QED
    BY <2>1, <2>2, <2>3
<1>4. ASSUME IsInjective(s), x \notin ToSet(s) PROVE IsInjective(t)
  <2>1. \A i, j \in 1..n : s[i] = s[j] => i = j
    BY <1>1, <1>4 DEF IsInjective
  <2>2. \A i \in 1..n : s[i] # x
    BY <1>2, <1>4
  <2>3. \A i, j \in 1..(n + 1) : t[i] = t[j] => i = j
    BY <1>1, <2>1, <2>2
  <2> QED
    BY <1>1, <2>3 DEF IsInjective
<1> QED
  BY <1>1, <1>3, <1>4 DEF t, IsAppended

LEMMA RemoveIs ==
  ASSUME NEW g, Shape(g), \A n, m \in Valid(g) : g.nodes[n].id = g.nodes[m].id => n = m, NEW id
  PROVE  Left(g, HnswRemove(g, id), id)
<1>1. CASE Holders(g, id) = {}
  <2>1. HnswRemove(g, id) = g
    BY <1>1 DEF HnswRemove
  <2>2. Valid(g) = {n \in Valid(g) : g.nodes[n].id # id}
    BY <1>1 DEF Holders, Valid
  <2> QED
    BY <2>1, <2>2 DEF Left
<1>2. CASE Holders(g, id) # {}
  <2> DEFINE n == Min(Holders(g, id))
             a == [g.nodes[n] EXCEPT !.valid = FALSE]
             N == [g.nodes EXCEPT ![n] = a]
             c == Max({g.count - 1, 0})
             free == Append(g.free, n)
             h == [g EXCEPT !.nodes = N, !.count = c, !.free = free]
  <2>1. g.nodes \in Seq(NodeRecords) /\ DOMAIN g.nodes = 1..Len(g.nodes) /\ Len(g.nodes) \in Nat
    BY DEF Shape, NodesOk
  <2>2. n \in DOMAIN g.nodes /\ g.nodes[n].id = id /\ g.nodes[n].valid
    <3>1. Holders(g, id) \in SUBSET Nat
      BY <2>1 DEF Holders
    <3>2. n \in Holders(g, id)
      BY <1>2, <3>1, LeastNumber
    <3> HIDE DEF n
    <3> QED
      BY <3>2 DEF Holders
  <2>3. HnswRemove(g, id) = h
    BY <1>2 DEF HnswRemove
  <2> HIDE DEF n
  <2>4. a \in NodeRecords /\ a.id = id /\ ~a.valid /\ a.level = g.nodes[n].level /\ a.vec = g.nodes[n].vec
        /\ a.room = g.nodes[n].room
    <3> DEFINE b == g.nodes[n]
    <3>1. b \in NodeRecords /\ b.id = id
      BY <2>1, <2>2
    <3> HIDE DEF b
    <3>2. LET e == [b EXCEPT !.valid = FALSE]
          IN  e \in NodeRecords /\ e.id = id /\ ~e.valid /\ e.level = b.level /\ e.vec = b.vec /\ e.room = b.room
      BY <3>1 DEF NodeRecords
    <3> QED
      BY <3>2 DEF b
  <2> HIDE DEF a
  <2>5. N \in Seq(NodeRecords) /\ Len(N) = Len(g.nodes) /\ DOMAIN N = DOMAIN g.nodes /\ N[n] = a
        /\ \A m \in DOMAIN g.nodes : m # n => N[m] = g.nodes[m]
    BY <2>1, <2>2, <2>4
  <2>6. g.count \in Nat /\ c = (IF g.count > 0 THEN g.count - 1 ELSE 0)
    <3>1. g.count \in Nat /\ g.count - 1 \in Int
      BY DEF Shape
    <3> QED
      BY <3>1, MaxOfTwo
  <2>7. free \in Seq(DOMAIN g.nodes) /\ ToSet(free) = ToSet(g.free) \union {n} /\ IsInjective(free)
    <3>1. g.free \in Seq(DOMAIN g.nodes) /\ IsInjective(g.free) /\ n \notin ToSet(g.free)
      BY <2>2 DEF Shape, FreeOk, Valid
    <3>2. IsAppended(free, DOMAIN g.nodes, g.free, n)
      BY <2>2, <3>1, AppendedIs
    <3> QED
      BY <3>1, <3>2 DEF IsAppended
  <2> HIDE DEF N, c, free
  <2>8. /\ IsGraph(h) /\ h.nodes = N /\ h.links = g.links /\ h.free = free /\ h.count = c
        /\ h.entry = g.entry /\ h.top = g.top /\ h.capacity = g.capacity /\ h.pool = g.pool
    BY DEF Shape, IsGraph
  <2> HIDE DEF h
  <2>9. Valid(h) = Valid(g) \ {n}
    BY <2>4, <2>5, <2>8 DEF Valid
  <2>10. Valid(h) = {m \in Valid(g) : g.nodes[m].id # id}
    BY <2>2, <2>9 DEF Valid
  <2>11. \A m \in DOMAIN g.nodes : /\ N[m].id = g.nodes[m].id /\ N[m].vec = g.nodes[m].vec
                                   /\ N[m].level = g.nodes[m].level /\ N[m].room = g.nodes[m].room
                                   /\ (N[m].valid => g.nodes[m].valid)
    BY <2>2, <2>4, <2>5
  <2>12. NodesOk(h)
    BY <2>5, <2>8, <2>11 DEF Shape, NodesOk, IsMapped
  <2>13. LinksOk(h, h.links)
    <3>1. LinksOk(g, g.links)
      BY DEF Shape
    <3> QED
      BY <2>5, <2>8, <2>11, <3>1 DEF LinksOk, IsMapped
  <2>14. FreeOk(h)
    <3>1. ToSet(g.free) = DOMAIN g.nodes \ Valid(g)
      BY DEF Shape, FreeOk
    <3>2. ToSet(free) = DOMAIN g.nodes \ Valid(h)
      BY <2>2, <2>7, <2>9, <3>1
    <3> QED
      BY <2>5, <2>7, <2>8, <3>2 DEF FreeOk
  <2>15. Shape(h)
    <3>1. c \in Nat
      BY <2>6
    <3> QED
      BY <2>5, <2>8, <2>12, <2>13, <2>14, <3>1 DEF Shape
  <2>16. Cardinality(Valid(h)) = Cardinality(Valid(g)) - 1 /\ Cardinality(Valid(g)) \in Nat
         /\ Cardinality(Valid(g)) >= 1
    <3>1. n \in Valid(g)
      BY <2>2 DEF Valid
    <3>2. IsFiniteSet(Valid(g)) /\ Cardinality(Valid(g)) \in Nat
      BY ValidFinite DEF Shape
    <3>3. Cardinality(Valid(g) \ {n}) = Cardinality(Valid(g)) - 1 /\ IsFiniteSet(Valid(g) \ {n})
      BY <3>1, <3>2, FS_RemoveElement
    <3>4. Cardinality(Valid(g) \ {n}) \in Nat
      BY <3>3, FS_CardinalityType
    <3> QED
      BY <2>9, <3>2, <3>3, <3>4
  <2>17. Counted(g) => Counted(h)
    <3> SUFFICES ASSUME Counted(g)
                 PROVE  Counted(h)
      OBVIOUS
    <3>1. h.count <= Cardinality(Valid(h))
      BY <2>6, <2>8, <2>16 DEF Counted
    <3>2. ASSUME h.count > 0 PROVE IsMapped(h, h.entry)
      <4>1. g.count > 0
        BY <2>6, <2>8, <3>2
      <4>2. IsMapped(g, g.entry)
        BY <4>1 DEF Counted
      <4>3. N[g.entry].vec = g.nodes[g.entry].vec
        BY <2>4, <2>5 DEF N
      <4> QED
        BY <2>8, <4>2, <4>3 DEF IsMapped
    <3> QED
      BY <3>1, <3>2 DEF Counted
  <2>18. g.count = Cardinality(Valid(g)) => h.count = Cardinality(Valid(h))
    BY <2>6, <2>8, <2>16
  <2>19. Left(g, h, id)
    BY <2>5, <2>8, <2>10, <2>11, <2>15, <2>17, <2>18 DEF Left
  <2> QED
    BY <2>3, <2>19
<1> QED
  BY <1>1, <1>2

(* What index.bin keeps of a graph can be read back.                       *)
LEMMA SerializedIs ==
  ASSUME NEW g, Shape(g)
  PROVE  LET h == Serialized(g)
         IN  /\ Shape(h) /\ Valid(h) = Valid(g) /\ h.entry = g.entry
             /\ DOMAIN h.nodes = DOMAIN g.nodes
             /\ \A n \in DOMAIN g.nodes : h.nodes[n].id = g.nodes[n].id
             /\ \A n \in Valid(g) : h.nodes[n].vec = g.nodes[n].vec
<1> DEFINE N == [n \in DOMAIN g.nodes |-> IF g.nodes[n].valid THEN g.nodes[n] ELSE [g.nodes[n] EXCEPT !.vec = None]]
           L == [n \in DOMAIN g.links |-> IF g.nodes[n].valid THEN g.links[n] ELSE <<>>]
           h == Serialized(g)
           X == Seq(Seq(DOMAIN g.nodes))
<1>1. h = [g EXCEPT !.nodes = N, !.links = L]
  BY DEF Serialized
<1>2. /\ g.nodes \in Seq(NodeRecords) /\ DOMAIN g.nodes = 1..Len(g.nodes) /\ Len(g.nodes) \in Nat
      /\ g.links \in Seq(X) /\ Len(g.links) = Len(g.nodes) /\ DOMAIN g.links = DOMAIN g.nodes
  BY DEF Shape, NodesOk, LinksOk
<1>3. ASSUME NEW n \in DOMAIN g.nodes
      PROVE  /\ N[n] \in NodeRecords /\ N[n].id = g.nodes[n].id /\ N[n].valid = g.nodes[n].valid
             /\ N[n].level = g.nodes[n].level /\ N[n].room = g.nodes[n].room
             /\ N[n].vec = IF g.nodes[n].valid THEN g.nodes[n].vec ELSE None
  <2> DEFINE a == g.nodes[n]
             b == [a EXCEPT !.vec = None]
  <2>1. a \in NodeRecords
    BY <1>2
  <2>2. N[n] = IF a.valid THEN a ELSE b
    OBVIOUS
  <2> HIDE DEF a
  <2>3. b \in NodeRecords /\ b.id = a.id /\ b.valid = a.valid /\ b.level = a.level /\ b.room = a.room /\ b.vec = None
    BY <2>1 DEF NodeRecords
  <2> HIDE DEF b
  <2> QED
    BY <2>1, <2>2, <2>3 DEF a
<1>4. \A n \in DOMAIN g.nodes : L[n] \in X /\ L[n] = IF g.nodes[n].valid THEN g.links[n] ELSE <<>>
  <2> HIDE DEF X
  <2>1. \A n \in DOMAIN g.nodes : g.links[n] \in X
    BY <1>2
  <2>2. <<>> \in X
    BY DEF X
  <2> QED
    BY <1>2, <2>1, <2>2
<1>5. DOMAIN N = DOMAIN g.nodes /\ DOMAIN L = DOMAIN g.nodes
      /\ N = [n \in 1..Len(g.nodes) |-> N[n]] /\ L = [n \in 1..Len(g.nodes) |-> L[n]]
  BY <1>2
<1> HIDE DEF N, L, X
<1>6. N \in Seq(NodeRecords) /\ Len(N) = Len(g.nodes)
  <2>1. N \in [1..Len(g.nodes) -> NodeRecords]
    BY <1>2, <1>3, <1>5
  <2> QED
    BY <1>2, <2>1
<1>7. L \in Seq(X) /\ Len(L) = Len(g.nodes)
  <2>1. L \in [1..Len(g.nodes) -> X]
    BY <1>2, <1>4, <1>5
  <2> QED
    BY <1>2, <2>1
<1>8. /\ IsGraph(h) /\ h.nodes = N /\ h.links = L /\ h.free = g.free /\ h.count = g.count
      /\ h.entry = g.entry /\ h.top = g.top /\ h.capacity = g.capacity /\ h.pool = g.pool
  BY <1>1 DEF Shape, IsGraph
<1> HIDE DEF h
<1>9. Valid(h) = Valid(g)
  BY <1>3, <1>5, <1>8 DEF Valid
<1>10. NodesOk(h)
  <2>1. NodesOk(g)
    BY DEF Shape
  <2>2. \A n \in DOMAIN N : (N[n].valid => N[n].vec # None) /\ \A l \in DOMAIN N[n].room : N[n].room[l] <= MaxLinks(l - 1)
    BY <1>3, <1>5, <2>1 DEF NodesOk, IsMapped
  <2> QED
    BY <1>6, <1>8, <2>2 DEF NodesOk, IsMapped
<1>11. LinksOk(h, h.links)
  <2>1. LinksOk(g, g.links) /\ NodesOk(g)
    BY DEF Shape
  <2>2. ASSUME NEW n \in DOMAIN N
        PROVE  /\ N[n].vec # None => Len(L[n]) = N[n].level + 1
               /\ \A l \in DOMAIN L[n] : l \in DOMAIN N[n].room /\ Len(L[n][l]) <= N[n].room[l]
    <3>1. CASE g.nodes[n].valid
      BY <1>3, <1>4, <1>5, <2>1, <3>1 DEF LinksOk, NodesOk, IsMapped
    <3>2. CASE ~g.nodes[n].valid
      <4>1. N[n].vec = None /\ L[n] = <<>>
        BY <1>3, <1>4, <1>5, <3>2
      <4> QED
        BY <4>1
    <3> QED
      BY <3>1, <3>2
  <2> QED
    BY <1>5, <1>6, <1>7, <1>8, <2>2 DEF LinksOk, IsMapped, X
<1>12. FreeOk(h)
  BY <1>5, <1>8, <1>9 DEF Shape, FreeOk
<1>13. Shape(h)
  BY <1>6, <1>8, <1>10, <1>11, <1>12 DEF Shape
<1>14. \A n \in Valid(g) : n \in DOMAIN g.nodes /\ g.nodes[n].valid
  BY DEF Valid
<1> QED
  BY <1>3, <1>5, <1>8, <1>9, <1>13, <1>14 DEF h

LEMMA DeserializedIs ==
  ASSUME NEW g, Shape(g), g.entry \in DOMAIN g.nodes
  PROVE  LET h == Deserialized(g)
         IN  /\ Shape(h) /\ Valid(h) = Valid(g) /\ h.entry = g.entry /\ h.count = 0
             /\ DOMAIN h.nodes = DOMAIN g.nodes
             /\ \A n \in DOMAIN g.nodes : h.nodes[n].id = g.nodes[n].id /\ h.nodes[n].vec = g.nodes[n].vec
<1> DEFINE room(n) == [l \in DOMAIN g.links[n] |-> Len(g.links[n][l])]
           N == [n \in DOMAIN g.nodes |-> [g.nodes[n] EXCEPT !.room = room(n)]]
           h == Deserialized(g)
           X == Seq(DOMAIN g.nodes)
<1>1. h = [g EXCEPT !.nodes = N, !.count = 0, !.capacity = Len(g.nodes), !.pool = 0]
  BY DEF Deserialized
<1>2. /\ g.nodes \in Seq(NodeRecords) /\ DOMAIN g.nodes = 1..Len(g.nodes) /\ Len(g.nodes) \in Nat
      /\ g.links \in Seq(Seq(X)) /\ Len(g.links) = Len(g.nodes) /\ DOMAIN g.links = DOMAIN g.nodes
  BY DEF Shape, NodesOk, LinksOk
<1>3. ASSUME NEW n \in DOMAIN g.nodes
      PROVE  /\ room(n) \in Seq(Nat) /\ DOMAIN room(n) = DOMAIN g.links[n]
             /\ \A l \in DOMAIN g.links[n] : room(n)[l] = Len(g.links[n][l])
  <2> DEFINE ls == g.links[n]
             k == Len(ls)
             r == room(n)
  <2> HIDE DEF X
  <2>1. ls \in Seq(X)
    BY <1>2
  <2>2. k \in Nat /\ DOMAIN ls = 1..k /\ \A l \in 1..k : ls[l] \in X
    BY <2>1
  <2>3. \A l \in 1..k : Len(ls[l]) \in Nat
    BY <2>2 DEF X
  <2>4. r = [l \in 1..k |-> Len(ls[l])]
    BY <2>2
  <2> HIDE DEF r, ls, k
  <2>5. r \in [1..k -> Nat] /\ DOMAIN r = DOMAIN ls /\ \A l \in DOMAIN ls : r[l] = Len(ls[l])
    BY <2>2, <2>3, <2>4
  <2>6. r \in Seq(Nat)
    BY <2>2, <2>5
  <2> QED
    BY <2>5, <2>6 DEF r, ls
<1> HIDE DEF room
<1>4. ASSUME NEW n \in DOMAIN g.nodes
      PROVE  /\ N[n] \in NodeRecords /\ N[n].id = g.nodes[n].id /\ N[n].valid = g.nodes[n].valid
             /\ N[n].level = g.nodes[n].level /\ N[n].vec = g.nodes[n].vec /\ N[n].room = room(n)
  <2> DEFINE a == g.nodes[n]
             b == [a EXCEPT !.room = room(n)]
  <2>1. a \in NodeRecords
    BY <1>2
  <2>2. N[n] = b
    OBVIOUS
  <2> HIDE DEF a
  <2>3. b \in NodeRecords /\ b.id = a.id /\ b.valid = a.valid /\ b.level = a.level /\ b.vec = a.vec /\ b.room = room(n)
    BY <1>3, <2>1 DEF NodeRecords
  <2> HIDE DEF b
  <2> QED
    BY <2>2, <2>3 DEF a
<1>5. DOMAIN N = DOMAIN g.nodes /\ N = [n \in 1..Len(g.nodes) |-> N[n]]
  BY <1>2
<1> HIDE DEF N
<1>6. N \in Seq(NodeRecords) /\ Len(N) = Len(g.nodes)
  <2>1. N \in [1..Len(g.nodes) -> NodeRecords]
    BY <1>2, <1>4, <1>5
  <2> DEFINE k == Len(g.nodes)
  <2>2. k \in Nat /\ N \in [1..k -> NodeRecords]
    BY <1>2, <2>1
  <2> HIDE DEF k
  <2>3. N \in Seq(NodeRecords) /\ Len(N) = k
    BY <2>2
  <2> QED
    BY <2>3 DEF k
<1>7. /\ IsGraph(h) /\ h.nodes = N /\ h.links = g.links /\ h.free = g.free /\ h.count = 0
      /\ h.entry = g.entry /\ h.top = g.top /\ h.capacity = Len(g.nodes) /\ h.pool = 0
  BY <1>1 DEF Shape, IsGraph
<1> HIDE DEF h
<1>8. Valid(h) = Valid(g)
  BY <1>4, <1>5, <1>7 DEF Valid
<1>9. ASSUME NEW n \in DOMAIN N, NEW l \in DOMAIN g.links[n]
      PROVE  N[n].room[l] = Len(g.links[n][l]) /\ N[n].room[l] \in Nat /\ N[n].room[l] <= MaxLinks(l - 1)
  <2>1. N[n].room = room(n) /\ room(n) \in Seq(Nat) /\ l \in DOMAIN room(n) /\ room(n)[l] = Len(g.links[n][l])
    BY <1>3, <1>4, <1>5
  <2>2. room(n)[l] \in Nat
    BY <2>1
  <2> DEFINE old == g.nodes[n].room
  <2>3. l \in DOMAIN old /\ Len(g.links[n][l]) <= old[l] /\ old[l] <= MaxLinks(l - 1) /\ old \in Seq(Nat)
    <3>1. g.nodes[n] \in NodeRecords
      BY <1>2, <1>5
    <3>2. old \in Seq(Nat)
      BY <3>1 DEF NodeRecords
    <3> QED
      BY <1>5, <3>2 DEF Shape, LinksOk, NodesOk
  <2>4. old[l] \in Nat /\ MaxLinks(l - 1) \in Nat
    <3> HIDE DEF old
    <3>1. old[l] \in Nat /\ l - 1 \in Nat
      BY <2>3
    <3> QED
      BY <3>1, MaxLinksIs
  <2> QED
    BY <2>1, <2>2, <2>3, <2>4, SMTT(30)
<1>10. \A n \in DOMAIN N : DOMAIN N[n].room = DOMAIN g.links[n]
  BY <1>3, <1>4, <1>5
<1>11. NodesOk(h)
  <2>1. \A n \in DOMAIN N : N[n].valid => N[n].vec # None
    BY <1>4, <1>5 DEF Shape, NodesOk, IsMapped
  <2> QED
    BY <1>6, <1>7, <1>9, <1>10, <2>1 DEF NodesOk, IsMapped
<1>12. LinksOk(h, h.links)
  <2>1. \A n \in DOMAIN N : N[n].vec # None => Len(g.links[n]) = N[n].level + 1
    BY <1>4, <1>5 DEF Shape, LinksOk, IsMapped
  <2>2. \A n \in DOMAIN N : \A l \in DOMAIN g.links[n] : l \in DOMAIN N[n].room /\ Len(g.links[n][l]) <= N[n].room[l]
    BY <1>9, <1>10
  <2> QED
    BY <1>2, <1>5, <1>6, <1>7, <2>1, <2>2 DEF LinksOk, IsMapped
<1>13. FreeOk(h)
  BY <1>5, <1>7, <1>8 DEF Shape, FreeOk
<1>14. Shape(h)
  <2>1. Len(g.nodes) \in Nat \ {0}
    BY <1>2
  <2> QED
    BY <1>6, <1>7, <1>11, <1>12, <1>13, <2>1 DEF Shape
<1> QED
  BY <1>4, <1>5, <1>7, <1>8, <1>14 DEF h

-----------------------------------------------------------------------------
(* Loops whose result is said of each turn.                                *)

LEMMA Counting ==
  ASSUME NEW n \in Nat, NEW Good, 0 \in Good, \A i \in 1..n : i - 1 \in Good => i \in Good
  PROVE  \A i \in 0..n : i \in Good
<1> DEFINE f == [i \in 0..n |-> i]
<1>1. f[0] \in Good
  OBVIOUS
<1>2. \A i \in 1..n : f[i - 1] = i - 1 /\ f[i] = i
  OBVIOUS
<1>3. \A i \in 1..n : f[i - 1] \in Good => f[i] \in Good
  BY <1>2
<1>4. \A i \in 0..n : f[i] = i
  OBVIOUS
<1> HIDE DEF f
<1>5. \A i \in 0..n : f[i] \in Good
  BY <1>1, <1>3, LoopStays
<1> QED
  BY <1>4, <1>5

(* The members of s in T, in an array without repetitions; all of s if     *)
(* they all are.                                                           *)
IsOnly(r, S, s, T) ==
  /\ r \in Seq(S) /\ IsInjective(r) /\ ToSet(r) = ToSet(s) \cap T
  /\ ToSet(s) \subseteq T => Len(r) = Len(s)

(* A turn of the loop of Only. *)
Taken(r, x, T) == IF x \in T THEN Append(r, x) ELSE r

LEMMA OnlyIs ==
  ASSUME NEW S, NEW s \in Seq(S), NEW T,
         \A i, j \in DOMAIN s : s[i] = s[j] /\ s[i] \in T => i = j
  PROVE  IsOnly(Only(s, T), S, s, T)
<1> DEFINE n == Len(s)
           D == Seq(S)
           base == <<>>
           rec == CHOOSE f : f = [i \in 0..n |-> IF i = 0 THEN base ELSE Taken(f[i - 1], s[i], T)]
           G == [x \in (1..n) \X D |-> Taken(x[2], s[x[1]], T)]
<1>1. n \in Nat /\ DOMAIN s = 1..n /\ \A i \in 1..n : s[i] \in S
  OBVIOUS
<1> HIDE DEF n
<1>2. base \in D
  OBVIOUS
<1>3. \A r \in D, i \in 1..n : Taken(r, s[i], T) \in D
  BY <1>1 DEF Taken
<1>4. base = <<>>
  OBVIOUS
<1> HIDE DEF D, base
<1>5. G \in Turns(n, D)
  BY <1>3 DEF Turns
<1>6. \A x \in (1..n) \X D : G[x] = Taken(x[2], s[x[1]], T)
  OBVIOUS
<1> HIDE DEF G
<1>7. PICK f : IsLoop(f, n, D, base, G)
  BY <1>1, <1>2, <1>5, LoopExists
<1>8. f = [i \in 0..n |-> IF i = 0 THEN base ELSE Taken(f[i - 1], s[i], T)]
  <2>1. /\ f = [i \in 0..n |-> f[i]] /\ f[0] = base
        /\ \A i \in 1..n : <<i, f[i - 1]>> \in (1..n) \X D /\ f[i] = G[<<i, f[i - 1]>>]
    BY <1>1, <1>2, <1>5, <1>7, LoopValues
  <2>2. \A i \in 1..n : G[<<i, f[i - 1]>>] = Taken(f[i - 1], s[i], T)
    BY <1>6, <2>1
  <2>3. \A i \in 1..n : f[i] = Taken(f[i - 1], s[i], T)
    BY <2>1, <2>2
  <2>4. n \in Nat /\ f[0] = base
    BY <1>1, <2>1
  <2>5. \A i \in 0..n : f[i] = IF i = 0 THEN base ELSE Taken(f[i - 1], s[i], T)
    BY <2>3, <2>4
  <2> QED
    BY <2>1, <2>5
<1>9. rec = [i \in 0..n |-> IF i = 0 THEN base ELSE Taken(rec[i - 1], s[i], T)]
  BY <1>8
<1> HIDE DEF rec
<1>10. rec[0] = base /\ \A i \in 1..n : rec[i] = Taken(rec[i - 1], s[i], T)
  BY <1>1, <1>9
<1>11. rec[n] \in D
  <2>1. \A i \in 1..n : rec[i - 1] \in D => rec[i] \in D
    BY <1>3, <1>10
  <2>2. n \in Nat /\ rec[0] \in D
    BY <1>1, <1>2, <1>10
  <2>3. \A i \in 0..n : rec[i] \in D
    BY <2>1, <2>2, LoopStays
  <2> QED
    BY <2>2, <2>3
<1> DEFINE Part(i) == {s[j] : j \in 1..i}
           Good == {i \in 0..n : /\ rec[i] \in Seq(S) /\ IsInjective(rec[i]) /\ ToSet(rec[i]) = Part(i) \cap T
                                 /\ Part(i) \subseteq T => Len(rec[i]) = i}
<1>12. 0 \in Good
  <2>1. Part(0) = {}
    OBVIOUS
  <2>2. rec[0] = <<>> /\ 0 \in 0..n
    BY <1>1, <1>4, <1>10
  <2>3. ToSet(<<>>) = {} /\ IsInjective(<<>>) /\ <<>> \in Seq(S) /\ Len(<<>>) = 0
    BY DEF ToSet, IsInjective
  <2> HIDE DEF Part
  <2> QED
    BY <2>1, <2>2, <2>3
<1>13. ASSUME NEW i \in 1..n, i - 1 \in Good
       PROVE  i \in Good
  <2> DEFINE a == rec[i - 1]
             b == rec[i]
  <2>1. a \in Seq(S) /\ IsInjective(a) /\ ToSet(a) = Part(i - 1) \cap T /\ (Part(i - 1) \subseteq T => Len(a) = i - 1)
    BY <1>13
  <2>2. b = IF s[i] \in T THEN Append(a, s[i]) ELSE a
    BY <1>10 DEF Taken
  <2>3. Part(i) = Part(i - 1) \union {s[i]} /\ i \in Nat /\ i \in 0..n
    BY <1>1
  <2>4. s[i] \in T => s[i] \notin Part(i - 1)
    BY <1>1
  <2>5. s[i] \in S
    BY <1>1
  <2> HIDE DEF a, b, Part
  <2>6. CASE s[i] \in T
    <3>1. IsAppended(Append(a, s[i]), S, a, s[i])
      BY <2>1, <2>5, AppendedIs
    <3>2. b = Append(a, s[i])
      BY <2>2, <2>6
    <3>3. b \in Seq(S) /\ IsInjective(b) /\ ToSet(b) = ToSet(a) \union {s[i]}
      BY <2>1, <2>4, <2>6, <3>1, <3>2 DEF IsAppended
    <3>4. Len(b) = Len(a) + 1
      BY <2>1, <2>5, <3>2
    <3>5. Part(i) \subseteq T => Len(b) = i
      BY <2>1, <2>3, <3>4
    <3>6. ToSet(b) = Part(i) \cap T
      BY <2>1, <2>3, <2>6, <3>3
    <3> QED
      BY <2>3, <3>3, <3>5, <3>6 DEF b
  <2>7. CASE s[i] \notin T
    <3>1. b = a
      BY <2>2, <2>7
    <3>2. ToSet(b) = Part(i) \cap T /\ ~(Part(i) \subseteq T)
      BY <2>1, <2>3, <2>7, <3>1
    <3> QED
      BY <2>1, <2>3, <3>1, <3>2 DEF b
  <2> QED
    BY <2>6, <2>7
<1> HIDE DEF Good
<1>14. \A i \in 0..n : i \in Good
  BY <1>1, <1>12, <1>13, Counting
<1>15. /\ rec[n] \in Seq(S) /\ IsInjective(rec[n]) /\ ToSet(rec[n]) = Part(n) \cap T
       /\ Part(n) \subseteq T => Len(rec[n]) = n
  <2>1. n \in Good
    BY <1>1, <1>14
  <2> QED
    BY <2>1 DEF Good
<1>16. Part(n) = ToSet(s)
  BY <1>1 DEF ToSet
<1>17. Only(s, T) = rec[n]
  BY DEF Only, rec, base, n, Taken
<1> HIDE DEF Part
<1> QED
  BY <1>15, <1>16, <1>17 DEF IsOnly, n

-----------------------------------------------------------------------------
(* Building a graph.                                                       *)

Fields == {"there", "nodes", "links", "free", "count", "entry", "top", "capacity", "pool"}

Values == BOOLEAN \union Seq(NodeRecords) \union Seq(Seq(Seq(Nat))) \union Seq(Nat) \union Int

(* Graphs between two insertions of the first session: nothing is removed. *)
Building ==
  {g \in [Fields -> Values] :
     /\ Shape(g) /\ g.entry \in DOMAIN g.nodes \union {0} /\ g.pool > 0 /\ Valid(g) = DOMAIN g.nodes}

LEMMA ShapeIsValue ==
  ASSUME NEW g, Shape(g), g.entry \in DOMAIN g.nodes \union {0}
  PROVE  g \in [Fields -> Values]
<1>1. /\ DOMAIN g = Fields /\ g = [x \in Fields |-> g[x]] /\ g.there \in BOOLEAN
      /\ g.nodes \in Seq(NodeRecords) /\ g.count \in Int /\ g.top \in Int /\ g.capacity \in Int /\ g.pool \in Int
  <2>1. DOMAIN g = Fields /\ g = [x \in DOMAIN g |-> g[x]] /\ g.there = TRUE
    BY DEF Shape, IsGraph, Fields
  <2>2. /\ g.nodes \in Seq(NodeRecords) /\ g.count \in Int /\ g.top \in Int /\ g.capacity \in Int /\ g.pool \in Int
    BY DEF Shape, NodesOk
  <2> HIDE DEF Fields
  <2> QED
    BY <2>1, <2>2
<1>2. DOMAIN g.nodes = 1..Len(g.nodes) /\ Len(g.nodes) \in Nat
  BY <1>1
<1>3. g.entry \in Int /\ DOMAIN g.nodes \subseteq Nat
  BY <1>2
<1>4. g.free \in Seq(Nat)
  <2>1. g.free \in Seq(DOMAIN g.nodes)
    BY DEF Shape, FreeOk
  <2> QED
    BY <1>3, <2>1, SeqGrows
<1>5. g.links \in Seq(Seq(Seq(Nat)))
  <2>1. g.links \in Seq(Seq(Seq(DOMAIN g.nodes)))
    BY DEF Shape, LinksOk
  <2>2. Seq(DOMAIN g.nodes) \subseteq Seq(Nat)
    BY <1>3, SeqGrows
  <2>3. Seq(Seq(DOMAIN g.nodes)) \subseteq Seq(Seq(Nat))
    BY <2>2, SeqGrows
  <2>4. Seq(Seq(Seq(DOMAIN g.nodes))) \subseteq Seq(Seq(Seq(Nat)))
    BY <2>3, SeqGrows
  <2> QED
    BY <2>1, <2>4
<1>6. \A x \in Fields : g[x] \in Values
  <2> SUFFICES ASSUME NEW x \in Fields
               PROVE  g[x] \in Values
    OBVIOUS
  <2>1. x \in {"there", "nodes", "links", "free", "count", "entry", "top", "capacity", "pool"}
    BY DEF Fields
  <2>2. g.there \in Values /\ g.nodes \in Values /\ g.links \in Values /\ g.free \in Values
        /\ g.count \in Values /\ g.entry \in Values /\ g.top \in Values /\ g.capacity \in Values /\ g.pool \in Values
    BY <1>1, <1>3, <1>4, <1>5 DEF Values
  <2> HIDE DEF Values
  <2> QED
    BY <2>1, <2>2
<1> QED
  BY <1>1, <1>6

(* The vectors that the nodes have are a fill.                             *)
LEMMA SameFill ==
  ASSUME NEW g, Shape(g)
  PROVE  FillOk(g, [n \in DOMAIN g.nodes |-> g.nodes[n].vec])
<1>1. \A n \in DOMAIN g.nodes : g.nodes[n] \in NodeRecords
  BY DEF Shape, NodesOk
<1>2. \A n \in DOMAIN g.nodes : g.nodes[n].vec \in Points \union {None}
  BY <1>1 DEF NodeRecords
<1> QED
  BY <1>2 DEF FillOk, IsMapped

LEMMA CreatedIs ==
  /\ HnswCreate \in Building /\ Valid(HnswCreate) = {} /\ DOMAIN HnswCreate.nodes = {}
  /\ HnswCreate.count = 0
<1> DEFINE g == HnswCreate
           i == InitialCapacity
<1>1. i \in Nat \ {0}
  BY VectorAssumption
<1>2. g = [there |-> TRUE, nodes |-> <<>>, links |-> <<>>, free |-> <<>>, count |-> 0, entry |-> 0,
           top |-> -1, capacity |-> i, pool |-> i]
  BY DEF HnswCreate
<1> HIDE DEF g, i
<1>3. IsGraph(g)
  BY <1>2 DEF IsGraph
<1>4. g.nodes = <<>> /\ g.links = <<>> /\ g.free = <<>> /\ g.count = 0 /\ g.entry = 0 /\ g.top = -1
      /\ g.capacity = i /\ g.pool = i
  BY <1>2
<1>5. DOMAIN g.nodes = {} /\ Len(g.nodes) = 0 /\ Valid(g) = {}
  BY <1>4 DEF Valid
<1>6. NodesOk(g)
  BY <1>4, <1>5 DEF NodesOk
<1>7. LinksOk(g, g.links)
  BY <1>4, <1>5 DEF LinksOk
<1>8. FreeOk(g)
  BY <1>4, <1>5 DEF FreeOk, IsInjective, ToSet
<1>9. Shape(g)
  BY <1>1, <1>3, <1>4, <1>5, <1>6, <1>7, <1>8 DEF Shape
<1>10. g \in [Fields -> Values]
  BY <1>4, <1>9, ShapeIsValue
<1>11. g \in Building
  <2>1. g.entry \in DOMAIN g.nodes \union {0} /\ g.pool > 0 /\ Valid(g) = DOMAIN g.nodes
    BY <1>1, <1>4, <1>5
  <2> QED
    BY <1>9, <1>10, <2>1 DEF Building
<1> QED
  BY <1>4, <1>5, <1>11 DEF g

(* One entry put into a graph that is being built.                         *)
Built1(es, g, o, level) == HnswInsert(g, o, es[o].point, level, [n \in DOMAIN g.nodes |-> g.nodes[n].vec]).g

LEMMA Built1Is ==
  ASSUME NEW es \in Seq(EntryRecords), NEW g \in Building, NEW o \in DOMAIN es, NEW level \in Nat
  PROVE  /\ Built1(es, g, o, level) \in Building
         /\ Grown(g, Built1(es, g, o, level), o, es[o].point, [n \in DOMAIN g.nodes |-> g.nodes[n].vec])
<1> DEFINE f == [n \in DOMAIN g.nodes |-> g.nodes[n].vec]
           p == es[o].point
           r == HnswInsert(g, o, p, level, f)
           h == r.g
<1>1. Shape(g) /\ g.entry \in DOMAIN g.nodes \union {0} /\ g.pool > 0 /\ Valid(g) = DOMAIN g.nodes
  BY DEF Building
<1>2. o \in Nat /\ p \in Points
  <2>1. es[o] \in EntryRecords /\ o \in Nat
    OBVIOUS
  <2> QED
    BY <2>1 DEF EntryRecords
<1>3. FillOk(g, f)
  BY <1>1, SameFill
<1>4. AllMapped(g)
  BY <1>1 DEF AllMapped, Shape, NodesOk, Valid
<1> HIDE DEF f, p
<1>5. Inserted(g, o, p, f, r)
  BY <1>1, <1>2, <1>3, InsertIs
<1>6. Shape(h) /\ h.pool > 0 /\ Grown(g, h, o, p, f)
  BY <1>1, <1>4, <1>5 DEF Inserted
<1> HIDE DEF r
<1>7. Valid(h) = DOMAIN h.nodes /\ h.entry \in DOMAIN h.nodes
  BY <1>1, <1>6 DEF Grown
<1>8. h \in [Fields -> Values]
  BY <1>6, <1>7, ShapeIsValue
<1>9. h \in Building
  BY <1>6, <1>7, <1>8 DEF Building
<1>10. h = Built1(es, g, o, level)
  BY DEF Built1, r, f, p
<1> QED
  BY <1>6, <1>9, <1>10 DEF f, p

(* The graph of the entries in ls: each in a live node, counted, its       *)
(* vector the entry's.                                                     *)
LEMMA BuiltIs ==
  ASSUME NEW es \in Seq(EntryRecords), NEW ls, ListOk(ls, es), Len(ls) > 0, NEW levels \in [DOMAIN ls -> Nat]
  PROVE  LET g == Built(es, ls, levels)
         IN  /\ Shape(g) /\ Counted(g) /\ Holds(g, es, ls) /\ AsStored(g, es)
             /\ g.count = Cardinality(Valid(g))
<1> DEFINE n == Len(ls)
           D == Building
           base == HnswCreate
           rec == CHOOSE f : f = [i \in 0..n |-> IF i = 0 THEN base ELSE Built1(es, f[i - 1], ls[i], levels[i])]
           G == [x \in (1..n) \X D |-> Built1(es, x[2], ls[x[1]], levels[x[1]])]
<1>1. n \in Nat /\ DOMAIN ls = 1..n /\ \A i \in 1..n : ls[i] \in DOMAIN es /\ levels[i] \in Nat
  BY DEF ListOk
<1> HIDE DEF n
<1>2. base \in D
  BY CreatedIs
<1>3. \A s \in D, i \in 1..n : Built1(es, s, ls[i], levels[i]) \in D
  BY <1>1, Built1Is
<1> HIDE DEF D, base
<1>4. G \in Turns(n, D)
  BY <1>3 DEF Turns
<1>0. n \in Nat
  BY <1>1
<1>5. \A x \in (1..n) \X D : G[x] = Built1(es, x[2], ls[x[1]], levels[x[1]])
  OBVIOUS
<1> HIDE DEF G
<1>6. PICK f : IsLoop(f, n, D, base, G)
  BY <1>0, <1>2, <1>4, LoopExists
<1>7. f = [i \in 0..n |-> IF i = 0 THEN base ELSE Built1(es, f[i - 1], ls[i], levels[i])]
  <2>1. /\ f = [i \in 0..n |-> f[i]] /\ f[0] = base
        /\ \A i \in 1..n : <<i, f[i - 1]>> \in (1..n) \X D /\ f[i] = G[<<i, f[i - 1]>>]
    BY <1>0, <1>2, <1>4, <1>6, LoopValues
  <2>2. \A i \in 1..n : G[<<i, f[i - 1]>>] = Built1(es, f[i - 1], ls[i], levels[i])
    BY <1>5, <2>1
  <2>3. \A i \in 1..n : f[i] = Built1(es, f[i - 1], ls[i], levels[i])
    BY <2>1, <2>2
  <2>4. n \in Nat /\ f[0] = base
    BY <1>0, <2>1
  <2>5. \A i \in 0..n : f[i] = IF i = 0 THEN base ELSE Built1(es, f[i - 1], ls[i], levels[i])
    BY <2>3, <2>4
  <2> QED
    BY <2>1, <2>5
<1>8. rec = [i \in 0..n |-> IF i = 0 THEN base ELSE Built1(es, rec[i - 1], ls[i], levels[i])]
  BY <1>7
<1> HIDE DEF rec
<1>9. rec[0] = base /\ \A i \in 1..n : rec[i] = Built1(es, rec[i - 1], ls[i], levels[i])
  BY <1>0, <1>8
<1>10. rec[n] \in D
  <2>1. \A i \in 1..n : rec[i - 1] \in D => rec[i] \in D
    BY <1>3, <1>9
  <2>2. n \in Nat /\ rec[0] \in D
    BY <1>0, <1>2, <1>9
  <2>3. \A i \in 0..n : rec[i] \in D
    BY <2>1, <2>2, LoopStays
  <2> QED
    BY <2>2, <2>3
<1>11. \A i \in 0..n : rec[i] \in D
  <2>1. \A i \in 1..n : rec[i - 1] \in D => rec[i] \in D
    BY <1>3, <1>9
  <2>2. n \in Nat /\ rec[0] \in D
    BY <1>1, <1>2, <1>9
  <2> QED
    BY <2>1, <2>2, LoopStays
<1> DEFINE Part(i) == {ls[j] : j \in 1..i}
           Good == {i \in 0..n : /\ Stands(rec[i], es, Part(i)) /\ AsStored(rec[i], es)
                                 /\ rec[i].count = Cardinality(Valid(rec[i]))
                                 /\ i > 0 => Counted(rec[i]) /\ rec[i].entry \in DOMAIN rec[i].nodes}
<1>12. 0 \in Good
  <2>1. Part(0) = {} /\ 0 \in 0..n
    BY <1>1
  <2>2. rec[0] = HnswCreate
    BY <1>9 DEF base
  <2> HIDE DEF Part
  <2>3. Stands(HnswCreate, es, {}) /\ AsStored(HnswCreate, es)
    BY CreatedIs DEF Stands, AsStored
  <2>4. HnswCreate.count = Cardinality(Valid(HnswCreate))
    BY CreatedIs, FS_EmptySet
  <2>5. Stands(rec[0], es, Part(0)) /\ AsStored(rec[0], es) /\ rec[0].count = Cardinality(Valid(rec[0]))
    BY <2>1, <2>2, <2>3, <2>4
  <2> QED
    BY <2>1, <2>5
<1>13. ASSUME NEW i \in 1..n, i - 1 \in Good
       PROVE  i \in Good
  <2> DEFINE a == rec[i - 1]
             b == rec[i]
             S == Part(i - 1)
             o == ls[i]
             v == [m \in DOMAIN a.nodes |-> a.nodes[m].vec]
  <2>1. Stands(a, es, S) /\ AsStored(a, es) /\ a.count = Cardinality(Valid(a)) /\ i - 1 \in 0..n
    BY <1>13
  <2>2. b = Built1(es, a, o, levels[i])
    BY <1>9
  <2>3. a \in Building
    BY <1>11, <2>1 DEF D
  <2>4. Part(i) = S \union {o} /\ i \in 0..n /\ i > 0 /\ o \in DOMAIN es /\ levels[i] \in Nat
    BY <1>1
  <2>5. o \notin S
    <3>1. \A j, k \in 1..n : ls[j] = ls[k] => j = k
      BY <1>1 DEF ListOk, IsInjective
    <3> QED
      BY <1>1, <3>1
  <2> HIDE DEF a, b, S, o, Part
  <2>6. Grown(a, b, o, es[o].point, v)
    BY <2>2, <2>3, <2>4, Built1Is
  <2>7. NodesOk(a) /\ a.count \in Nat /\ \A m \in DOMAIN a.nodes : v[m] = a.nodes[m].vec
    BY <2>3 DEF Building, Shape
  <2> HIDE DEF v
  <2>8. StandsFor(a, b, es, S \union {o}) /\ AsStored(b, es)
    <3>1. SameVectors(a, v)
      BY <2>7 DEF SameVectors
    <3> DEFINE p == es[o].point
    <3>2. Grown(a, b, o, p, v) /\ es[o].point = p
      BY <2>6
    <3> HIDE DEF p
    <3>3. o \in DOMAIN es /\ o \notin S /\ Stands(a, es, S) /\ NodesOk(a) /\ a.count \in Nat
      BY <2>1, <2>4, <2>5, <2>7
    <3>4. /\ StandsFor(a, b, es, S \union {o})
          /\ (es[o].point = p /\ SameVectors(a, v) /\ AsStored(a, es)) => AsStored(b, es)
      BY <3>2, <3>3, StandsGrown
    <3> QED
      BY <2>1, <3>1, <3>2, <3>4
  <2>9. a.count <= Cardinality(Valid(a))
    BY <2>1, <2>7
  <2> QED
    BY <2>1, <2>4, <2>8, <2>9 DEF b, StandsFor
<1> HIDE DEF Good
<1>14. \A i \in 0..n : i \in Good
  BY <1>1, <1>12, <1>13, Counting
<1>15. /\ Stands(rec[n], es, Part(n)) /\ AsStored(rec[n], es)
       /\ rec[n].count = Cardinality(Valid(rec[n]))
       /\ Counted(rec[n]) /\ rec[n].entry \in DOMAIN rec[n].nodes
  <2>1. n \in Good /\ n > 0
    BY <1>1, <1>14 DEF n
  <2> QED
    BY <2>1 DEF Good
<1>16. Part(n) = ToSet(ls)
  BY <1>1 DEF ToSet
<1>17. Built(es, ls, levels) = rec[n]
  BY DEF Built, rec, base, n, Built1
<1>18. Shape(rec[n])
  BY <1>10 DEF D, Building
<1> HIDE DEF Part
<1> QED
  BY <1>15, <1>16, <1>17, <1>18 DEF Holds

-----------------------------------------------------------------------------
(* The array and the graph together.                                       *)

LEMMA GraphThere ==
  ASSUME NEW g, NEW ls, NEW es, BothOk(ls, g, es)
  PROVE  /\ g.there \in BOOLEAN
         /\ ~g.there => g = NoGraph
         /\ g.there => Shape(g) /\ Counted(g) /\ Holds(g, es, ls)
<1>1. NoGraph.there = FALSE
  BY DEF NoGraph
<1>2. Shape(g) => g.there = TRUE
  BY DEF Shape, IsGraph
<1> QED
  BY <1>1, <1>2 DEF BothOk

LEMMA BothLater ==
  ASSUME NEW g, NEW ls, NEW es, NEW fs, BothOk(ls, g, es), Later(es, fs)
  PROVE  BothOk(ls, g, fs)
BY StandsLater, ListLater DEF BothOk, Holds

(* Both without an entry that is deleted.                                  *)
LEMMA RemovedFromIs ==
  ASSUME NEW s, NEW es, NEW fs, NEW o \in DOMAIN fs,
         BothOk(s.list, s.graph, es), Later(es, fs), fs[o].deleted
  PROVE  LET r == RemovedFrom(s, o)
         IN  /\ BothOk(r.list, r.graph, fs) /\ ToSet(r.list) = ToSet(s.list) \ {o}
             /\ r.graph.there = s.graph.there
             /\ s.graph.there =>
                  /\ r.graph.pool = s.graph.pool
                  /\ AsStored(s.graph, es) => AsStored(r.graph, fs)
                  /\ s.graph.count = Cardinality(Valid(s.graph)) => r.graph.count = Cardinality(Valid(r.graph))
<1> DEFINE ls == Only(s.list, ToSet(s.list) \ {o})
           g == s.graph
           h == IF g.there THEN HnswRemove(g, o) ELSE g
           r == RemovedFrom(s, o)
<1>1. BothOk(s.list, g, fs)
  BY BothLater
<1>2. r = [list |-> ls, graph |-> h]
  BY DEF RemovedFrom
<1>3. ListOk(ls, fs) /\ ToSet(ls) = ToSet(s.list) \ {o}
  <2>1. s.list \in Seq(DOMAIN fs) /\ IsInjective(s.list)
    BY <1>1 DEF BothOk, ListOk
  <2>2. IsOnly(ls, DOMAIN fs, s.list, ToSet(s.list) \ {o})
    BY <2>1, OnlyIs DEF IsInjective
  <2> QED
    BY <2>2 DEF IsOnly, ListOk
<1> HIDE DEF ls
<1>4. CASE ~g.there
  <2>1. g = NoGraph /\ h = NoGraph
    BY <1>1, <1>4, GraphThere
  <2> HIDE DEF h, r
  <2>2. r.list = ls /\ r.graph = NoGraph
    BY <1>2, <2>1
  <2>3. BothOk(r.list, r.graph, fs)
    BY <1>3, <2>2 DEF BothOk
  <2> QED
    BY <1>3, <1>4, <2>1, <2>2, <2>3 DEF r
<1>5. CASE g.there
  <2>1. Shape(g) /\ Counted(g) /\ Holds(g, fs, s.list)
    BY <1>1, <1>5, GraphThere
  <2>2. h = HnswRemove(g, o)
    BY <1>5
  <2>3. \A n, m \in Valid(g) : g.nodes[n].id = g.nodes[m].id => n = m
    BY <2>1 DEF Holds, Stands
  <2>4. Left(g, h, o)
    BY <2>1, <2>2, <2>3, RemoveIs
  <2> HIDE DEF h, r
  <2>5. Stands(h, fs, ToSet(ls))
    <3>1. Stands(g, fs, ToSet(s.list))
      BY <2>1 DEF Holds
    <3>2. \A n \in Valid(h) : n \in Valid(g) /\ n \in DOMAIN g.nodes /\ g.nodes[n].id # o /\ h.nodes[n].id = g.nodes[n].id
      BY <2>4 DEF Left, Valid
    <3>3. {h.nodes[n].id : n \in Valid(h)} = ToSet(s.list) \ {o}
      <4>1. {h.nodes[n].id : n \in Valid(h)} = {g.nodes[n].id : n \in Valid(h)}
        BY <3>2
      <4>2. {g.nodes[n].id : n \in Valid(g)} = ToSet(s.list)
        BY <3>1 DEF Stands
      <4>3. Valid(h) = {n \in Valid(g) : g.nodes[n].id # o}
        BY <2>4 DEF Left
      <4> QED
        BY <4>1, <4>2, <4>3
    <3>4. \A n \in DOMAIN h.nodes : h.nodes[n].id \in DOMAIN fs
      BY <2>4, <3>1 DEF Left, Stands
    <3>5. \A n, m \in Valid(h) : h.nodes[n].id = h.nodes[m].id => n = m
      BY <3>1, <3>2 DEF Stands
    <3>6. \A n \in DOMAIN h.nodes \ Valid(h) : fs[h.nodes[n].id].deleted
      <4> TAKE n \in DOMAIN h.nodes \ Valid(h)
      <4>1. n \in DOMAIN g.nodes /\ h.nodes[n].id = g.nodes[n].id
        BY <2>4 DEF Left
      <4>2. CASE n \in Valid(g)
        BY <2>4, <4>1, <4>2 DEF Left
      <4>3. CASE n \notin Valid(g)
        BY <3>1, <4>1, <4>3 DEF Stands
      <4> QED
        BY <4>2, <4>3
    <3> QED
      BY <1>3, <3>3, <3>4, <3>5, <3>6 DEF Stands
  <2>6. Shape(h) /\ Counted(h) /\ Holds(h, fs, ls)
    BY <2>1, <2>4, <2>5 DEF Left, Holds
  <2>7. h.there = TRUE
    BY <2>6 DEF Shape, IsGraph
  <2>8. r.list = ls /\ r.graph = h
    BY <1>2
  <2>9. BothOk(r.list, r.graph, fs)
    BY <1>3, <2>6, <2>8 DEF BothOk
  <2>10. AsStored(g, es) => AsStored(h, fs)
    <3>1. AsStored(g, es) => AsStored(g, fs)
      <4> SUFFICES ASSUME AsStored(g, es)
                   PROVE  AsStored(g, fs)
        OBVIOUS
      <4>1. Holds(g, es, s.list)
        BY <1>5, GraphThere
      <4> QED
        BY <4>1, StandsLater DEF Holds
    <3>2. AsStored(g, fs) => AsStored(h, fs)
      BY <2>4 DEF Left, AsStored, Valid
    <3> QED
      BY <3>1, <3>2
  <2>11. h.pool = g.pool /\ (g.count = Cardinality(Valid(g)) => h.count = Cardinality(Valid(h)))
    BY <2>4 DEF Left
  <2>12. g.there = TRUE
    BY <2>1 DEF Shape, IsGraph
  <2> QED
    BY <1>3, <2>7, <2>8, <2>9, <2>10, <2>11, <2>12 DEF r
<1>6. g.there \in BOOLEAN
  BY <1>1, GraphThere
<1> QED
  BY <1>4, <1>5, <1>6

LEMMA MaybeEnabledIs ==
  ASSUME NEW es \in Seq(EntryRecords), NEW ls, ListOk(ls, es), NEW g \in MaybeEnabled(es, ls, NoGraph)
  PROVE  /\ BothOk(ls, g, es)
         /\ g.there => AsStored(g, es) /\ g.count = Cardinality(Valid(g))
<1>1. NoGraph.there = FALSE
  BY DEF NoGraph
<1>2. CASE Len(ls) < HnswThreshold
  <2>1. g = NoGraph
    BY <1>2 DEF MaybeEnabled
  <2> QED
    BY <1>1, <2>1 DEF BothOk
<1>3. CASE ~(Len(ls) < HnswThreshold)
  <2>1. PICK levels \in [DOMAIN ls -> 0..MaxLevel] : g = Built(es, ls, levels)
    BY <1>1, <1>3 DEF MaybeEnabled
  <2>2. levels \in [DOMAIN ls -> Nat]
    BY VectorAssumption
  <2>3. Len(ls) > 0
    <3>1. Len(ls) \in Nat
      BY DEF ListOk
    <3> QED
      BY <1>3, <3>1, VectorAssumption
  <2>4. /\ Shape(g) /\ Counted(g) /\ Holds(g, es, ls) /\ AsStored(g, es)
        /\ g.count = Cardinality(Valid(g))
    BY <2>1, <2>2, <2>3, BuiltIs
  <2> QED
    BY <2>4 DEF BothOk
<1> QED
  BY <1>2, <1>3

(* Both with a new entry, if nothing died.                                 *)
LEMMA AddedIs ==
  ASSUME NEW es \in Seq(EntryRecords), NEW s, BothOk(s.list, s.graph, es),
         NEW o \in DOMAIN es, o \notin ToSet(s.list), NEW p \in Points, es[o].point = p,
         NEW r \in Added(es, s, o, p), ~r.dies
  PROVE  /\ BothOk(r.list, r.graph, es)
         /\ (r.graph.there /\ ~s.graph.there) => AsStored(r.graph, es) /\ r.graph.count = Cardinality(Valid(r.graph))
         /\ s.graph.there =>
              /\ (s.graph.pool > 0 /\ AsStored(s.graph, es)) => AsStored(r.graph, es)
              /\ s.graph.count = Cardinality(Valid(s.graph)) => r.graph.count = Cardinality(Valid(r.graph))
<1> DEFINE ls == Append(s.list, o)
           g == s.graph
<1>1. ListOk(ls, es) /\ ToSet(ls) = ToSet(s.list) \union {o}
  <2>1. s.list \in Seq(DOMAIN es) /\ IsInjective(s.list)
    BY DEF BothOk, ListOk
  <2>2. IsAppended(ls, DOMAIN es, s.list, o)
    BY <2>1, AppendedIs
  <2> HIDE DEF ls
  <2> QED
    BY <2>1, <2>2 DEF IsAppended, ListOk
<1> HIDE DEF ls
<1>2. CASE ~g.there
  <2>1. g = NoGraph
    BY <1>2, GraphThere
  <2>2. PICK k \in MaybeEnabled(es, ls, NoGraph) : r = [list |-> ls, graph |-> k, dies |-> FALSE]
    BY <1>2, <2>1 DEF Added, ls
  <2>3. r.list = ls /\ r.graph = k
    BY <2>2
  <2>4. /\ BothOk(ls, k, es)
        /\ k.there => AsStored(k, es) /\ k.count = Cardinality(Valid(k))
    BY <1>1, MaybeEnabledIs
  <2> QED
    BY <1>2, <2>3, <2>4
<1>3. CASE g.there
  <2>1. Shape(g) /\ Counted(g) /\ Holds(g, es, s.list)
    BY <1>3, GraphThere
  <2>2. PICK level \in 0..MaxLevel, f \in Fills(g) :
          LET q == HnswInsert(g, o, p, level, f) IN r = [list |-> ls, graph |-> q.g, dies |-> q.dies]
    BY <1>3 DEF Added, ls
  <2> DEFINE q == HnswInsert(g, o, p, level, f)
             h == q.g
  <2>3. FillOk(g, f) /\ (g.pool > 0 => SameVectors(g, f))
    BY <2>1, FillsAre DEF SameVectors
  <2>4. level \in Nat /\ o \in Nat /\ g.entry \in DOMAIN g.nodes \union {0}
    BY <2>1 DEF Holds
  <2>5. Inserted(g, o, p, f, q)
    BY <2>1, <2>3, <2>4, InsertIs
  <2> HIDE DEF q
  <2>6. r.list = ls /\ r.graph = h /\ r.dies = q.dies
    BY <2>2 DEF q
  <2>7. Shape(h) /\ Grown(g, h, o, p, f)
    BY <2>5, <2>6 DEF Inserted
  <2> HIDE DEF h
  <2>8. /\ StandsFor(g, h, es, ToSet(s.list) \union {o})
        /\ (es[o].point = p /\ SameVectors(g, f) /\ AsStored(g, es)) => AsStored(h, es)
    <3>1. Stands(g, es, ToSet(s.list)) /\ NodesOk(g) /\ g.count \in Nat
      BY <2>1 DEF Holds, Shape
    <3> QED
      BY <2>7, <3>1, StandsGrown
  <2>9. g.count <= Cardinality(Valid(g))
    BY <2>1 DEF Counted
  <2>10. Counted(h) /\ Holds(h, es, ls)
    BY <1>1, <2>8, <2>9 DEF StandsFor, Holds
  <2>11. BothOk(ls, h, es)
    BY <1>1, <2>7, <2>10 DEF BothOk
  <2>12. /\ (g.pool > 0 /\ AsStored(g, es)) => AsStored(h, es)
         /\ g.count = Cardinality(Valid(g)) => h.count = Cardinality(Valid(h))
    BY <2>3, <2>8 DEF StandsFor
  <2> QED
    BY <1>3, <2>6, <2>11, <2>12
<1> QED
  BY <1>2, <1>3

-----------------------------------------------------------------------------
(* The actions.                                                            *)

(* An entry is deleted.                                                    *)
LEMMA DeletedIs ==
  ASSUME NEW es \in Seq(EntryRecords), NEW o \in DOMAIN es
  PROVE  LET fs == [es EXCEPT ![o].deleted = TRUE]
         IN  fs \in Seq(EntryRecords) /\ DOMAIN fs = DOMAIN es /\ Later(es, fs) /\ fs[o].deleted
<1> DEFINE n == Len(es)
           fs == [es EXCEPT ![o].deleted = TRUE]
<1>1. n \in Nat /\ DOMAIN es = 1..n /\ \A i \in 1..n : es[i] \in EntryRecords
  OBVIOUS
<1>2. \A i \in 1..n : es[i].deleted \in BOOLEAN
  BY <1>1 DEF EntryRecords
<1> DEFINE d == [es[o] EXCEPT !.deleted = TRUE]
<1>3. d \in EntryRecords /\ d.point = es[o].point /\ d.deleted = TRUE
  BY <1>1 DEF EntryRecords
<1>4. fs = [i \in 1..n |-> IF i = o THEN d ELSE es[i]]
  BY <1>1
<1> HIDE DEF d, fs, n
<1>5. fs \in [1..n -> EntryRecords]
  BY <1>1, <1>3, <1>4
<1>6. DOMAIN fs = 1..n /\ \A i \in 1..n : fs[i] = IF i = o THEN d ELSE es[i]
  BY <1>4
<1>7. fs \in Seq(EntryRecords)
  BY <1>1, <1>5
<1>8. Later(es, fs) /\ fs[o].deleted
  BY <1>1, <1>3, <1>6 DEF Later
<1> QED
  BY <1>1, <1>6, <1>7, <1>8 DEF fs

(* An entry's time runs out.                                               *)
LEMMA ExpiredIs ==
  ASSUME NEW es \in Seq(EntryRecords), NEW o \in DOMAIN es
  PROVE  LET fs == [es EXCEPT ![o].expired = TRUE]
         IN  fs \in Seq(EntryRecords) /\ Later(es, fs)
<1> DEFINE n == Len(es)
           fs == [es EXCEPT ![o].expired = TRUE]
<1>1. n \in Nat /\ DOMAIN es = 1..n /\ \A i \in 1..n : es[i] \in EntryRecords
  OBVIOUS
<1> DEFINE d == [es[o] EXCEPT !.expired = TRUE]
<1>3. d \in EntryRecords /\ d.point = es[o].point /\ d.deleted = es[o].deleted
  BY <1>1 DEF EntryRecords
<1>4. fs = [i \in 1..n |-> IF i = o THEN d ELSE es[i]]
  BY <1>1
<1> HIDE DEF d, fs, n
<1>5. fs \in [1..n -> EntryRecords]
  BY <1>1, <1>3, <1>4
<1>6. DOMAIN fs = 1..n /\ \A i \in 1..n : fs[i] = IF i = o THEN d ELSE es[i]
  BY <1>4
<1>7. fs \in Seq(EntryRecords)
  BY <1>1, <1>5
<1>8. Later(es, fs)
  BY <1>1, <1>3, <1>6 DEF Later
<1> QED
  BY <1>7, <1>8 DEF fs

(* An entry is written behind the others.                                  *)
LEMMA WrittenIs ==
  ASSUME NEW es \in Seq(EntryRecords), NEW e \in EntryRecords
  PROVE  LET fs == Append(es, e)
         IN  /\ fs \in Seq(EntryRecords) /\ Later(es, fs) /\ Len(es) + 1 \in DOMAIN fs \ DOMAIN es
             /\ fs[Len(es) + 1] = e
<1> DEFINE n == Len(es)
           fs == Append(es, e)
<1>1. n \in Nat /\ DOMAIN es = 1..n /\ fs \in Seq(EntryRecords) /\ DOMAIN fs = 1..(n + 1) /\ fs[n + 1] = e
      /\ \A i \in 1..n : fs[i] = es[i]
  OBVIOUS
<1> HIDE DEF n, fs
<1>2. Later(es, fs) /\ n + 1 \in DOMAIN fs \ DOMAIN es
  BY <1>1 DEF Later
<1> QED
  BY <1>1, <1>2 DEF n, fs

LEMMA LaterLater ==
  ASSUME NEW es, NEW fs, NEW hs, Later(es, fs), Later(fs, hs)
  PROVE  Later(es, hs)
BY DEF Later

(* index.bin can be of an earlier state of the pool.                       *)
LEMMA DiskLater ==
  ASSUME Sound, image' = image, Later(entries, entries')
  PROVE  OnDisk'
<1>1. SUFFICES ASSUME image.there
               PROVE  /\ ListOk(image.list, entries') /\ image.refilled \in BOOLEAN
                      /\ image.graph = NoGraph \/ (Shape(image.graph) /\ Holds(image.graph, entries', image.list))
                      /\ (image.graph.there /\ ~image.refilled) => AsStored(image.graph, entries')
  BY DEF OnDisk
<1> DEFINE g == image.graph
<1>2. /\ ListOk(image.list, entries) /\ image.refilled \in BOOLEAN
      /\ g = NoGraph \/ (Shape(g) /\ Holds(g, entries, image.list))
      /\ (g.there /\ ~image.refilled) => AsStored(g, entries)
  BY <1>1 DEF Sound, OnDisk
<1> HIDE DEF g
<1>3. ListOk(image.list, entries')
  BY <1>2, ListLater
<1>4. CASE g = NoGraph
  <2>1. ~g.there
    BY <1>4 DEF NoGraph
  <2> QED
    BY <1>2, <1>3, <1>4, <2>1 DEF g
<1>5. CASE Shape(g) /\ Holds(g, entries, image.list)
  <2>1. Holds(g, entries', image.list) /\ (AsStored(g, entries) => AsStored(g, entries'))
    BY <1>5, StandsLater DEF Holds
  <2> QED
    BY <1>2, <1>3, <1>5, <2>1 DEF g
<1> QED
  BY <1>2, <1>4, <1>5

LEMMA SoundAtFirst ==
  Init => Sound
<1> SUFFICES ASSUME Init
             PROVE  Sound
  OBVIOUS
<1> USE DEF Init
<1>1. entries \in Seq(EntryRecords) /\ ListOk(list, entries)
  BY DEF ListOk, IsInjective
<1>2. ~graph.there /\ ~image.there
  BY DEF NoGraph, NoImage
<1>3. InMemory /\ OnDisk
  BY <1>1, <1>2 DEF InMemory, BothOk, OnDisk
<1>4. 0 \in 0..MaxSessions
  BY VectorAssumption
<1>5. {open, refilled} \subseteq BOOLEAN /\ sessions \in 0..MaxSessions /\ image = NoImage /\ ~open /\ list = <<>>
      /\ graph = NoGraph /\ ~refilled
  BY <1>4
<1> QED
  BY <1>1, <1>3, <1>5 DEF Sound

(* What is left when a session ends.                                       *)
LEMMA GoneSound ==
  ASSUME Gone, entries' \in Seq(EntryRecords), sessions' \in 0..MaxSessions,
         image' = NoImage \/ (image'.there = TRUE /\ sessions' > 0), OnDisk'
  PROVE  Sound'
<1> USE DEF Gone
<1>1. ListOk(list', entries')
  BY DEF ListOk, IsInjective
<1>2. ~graph'.there
  BY DEF NoGraph
<1>3. InMemory'
  BY <1>1, <1>2 DEF InMemory, BothOk
<1> QED
  BY <1>3 DEF Sound

LEMMA KillSound ==
  ASSUME Sound, Kill
  PROVE  Sound'
<1>1. Gone /\ entries' = entries /\ image' = image /\ sessions' = sessions
  BY DEF Kill
<1>2. Later(entries, entries')
  BY <1>1 DEF Later
<1>3. OnDisk'
  BY <1>1, <1>2, DiskLater
<1> QED
  BY <1>1, <1>3, GoneSound DEF Sound

(* index.bin receives a graph that can be read back.                       *)
LEMMA CloseSound ==
  ASSUME Sound, Close
  PROVE  Sound'
<1> DEFINE h == IF graph.there THEN Serialized(graph) ELSE NoGraph
<1>1. /\ Gone /\ entries' = entries /\ sessions' = sessions /\ open
      /\ image' = [there |-> TRUE, list |-> list, graph |-> h, refilled |-> refilled]
  BY DEF Close
<1> HIDE DEF h
<1>2. image'.there = TRUE /\ image'.list = list /\ image'.graph = h /\ image'.refilled = refilled
  BY <1>1
<1>3. BothOk(list, graph, entries) /\ refilled \in BOOLEAN /\ sessions > 0 /\ sessions \in 0..MaxSessions
      /\ ((graph.there /\ ~refilled) => AsStored(graph, entries))
  BY <1>1 DEF Sound, InMemory
<1>4. /\ h = NoGraph \/ (Shape(h) /\ Holds(h, entries, list))
      /\ (h.there /\ ~refilled) => AsStored(h, entries)
  <2>1. CASE graph.there
    <3>1. Shape(graph) /\ Holds(graph, entries, list)
      BY <1>3, <2>1, GraphThere
    <3>2. h = Serialized(graph)
      BY <2>1 DEF h
    <3>3. /\ Shape(h) /\ Valid(h) = Valid(graph) /\ h.entry = graph.entry
          /\ DOMAIN h.nodes = DOMAIN graph.nodes
          /\ \A n \in DOMAIN graph.nodes : h.nodes[n].id = graph.nodes[n].id
          /\ \A n \in Valid(graph) : h.nodes[n].vec = graph.nodes[n].vec
      BY <3>1, <3>2, SerializedIs
    <3>4. Stands(h, entries, ToSet(list))
      <4>1. \A n \in Valid(h) : n \in DOMAIN graph.nodes /\ h.nodes[n].id = graph.nodes[n].id
        BY <3>3 DEF Valid
      <4>2. {h.nodes[n].id : n \in Valid(h)} = {graph.nodes[n].id : n \in Valid(graph)}
        BY <3>3, <4>1
      <4>3. Stands(graph, entries, ToSet(list))
        BY <3>1 DEF Holds
      <4> QED
        BY <3>3, <4>1, <4>2, <4>3 DEF Stands
    <3>5. Holds(h, entries, list)
      BY <3>1, <3>3, <3>4 DEF Holds
    <3>6. AsStored(graph, entries) => AsStored(h, entries)
      BY <3>3 DEF AsStored, Valid
    <3> QED
      BY <1>3, <2>1, <3>3, <3>5, <3>6
  <2>2. CASE ~graph.there
    BY <2>2 DEF h, NoGraph
  <2> QED
    BY <2>1, <2>2
<1>5. OnDisk'
  BY <1>1, <1>2, <1>3, <1>4 DEF OnDisk, BothOk
<1>6. entries' \in Seq(EntryRecords)
  BY <1>1 DEF Sound
<1> QED
  BY <1>1, <1>2, <1>3, <1>5, <1>6, GoneSound

(* A session starts with what index.bin holds or with what it finds.       *)
LEMMA OpenSound ==
  ASSUME Sound, Open
  PROVE  Sound'
<1>1. ~open /\ open' = TRUE /\ sessions' = sessions + 1 /\ sessions < MaxSessions
      /\ entries' = entries /\ image' = image
  BY DEF Open
<1>2. /\ entries \in Seq(EntryRecords) /\ sessions \in 0..MaxSessions
      /\ image = NoImage \/ (image.there = TRUE /\ sessions > 0)
      /\ ~refilled /\ refilled \in BOOLEAN
  BY <1>1 DEF Sound
<1>3. sessions' \in 0..MaxSessions /\ sessions' > 0 /\ (sessions > 0 => sessions' > 1)
  BY <1>1, <1>2, VectorAssumption
<1>4. Later(entries, entries')
  BY <1>1 DEF Later
<1>5. OnDisk'
  BY <1>1, <1>4, DiskLater
<1>6. refilled' \in BOOLEAN /\ InMemory'
  <2>1. CASE image.there /\ image.list # <<>>
    <3> DEFINE g == image.graph
               h == graph'
    <3>1. list' = image.list /\ refilled' = image.refilled /\ h = IF g.there THEN Deserialized(g) ELSE NoGraph
      BY <2>1 DEF Open
    <3>2. /\ ListOk(image.list, entries) /\ image.refilled \in BOOLEAN
          /\ g = NoGraph \/ (Shape(g) /\ Holds(g, entries, image.list))
          /\ (g.there /\ ~image.refilled) => AsStored(g, entries)
      BY <2>1 DEF Sound, OnDisk
    <3>3. sessions' # 1
      <4>1. image # NoImage
        BY <2>1 DEF NoImage
      <4> QED
        BY <1>1, <1>2, <4>1
    <3> HIDE DEF g, h
    <3>4. CASE g = NoGraph
      <4>1. h = NoGraph /\ ~h.there
        BY <3>1, <3>4 DEF NoGraph
      <4> QED
        BY <1>1, <3>1, <3>2, <4>1 DEF InMemory, BothOk, h
    <3>5. CASE Shape(g) /\ Holds(g, entries, image.list)
      <4>1. g.there = TRUE /\ h = Deserialized(g)
        BY <3>1, <3>5 DEF Shape, IsGraph
      <4>2. g.entry \in DOMAIN g.nodes /\ Stands(g, entries, ToSet(image.list))
        BY <3>5 DEF Holds
      <4>3. /\ Shape(h) /\ Valid(h) = Valid(g) /\ h.entry = g.entry /\ h.count = 0
            /\ DOMAIN h.nodes = DOMAIN g.nodes
            /\ \A n \in DOMAIN g.nodes : h.nodes[n].id = g.nodes[n].id /\ h.nodes[n].vec = g.nodes[n].vec
        BY <3>5, <4>1, <4>2, DeserializedIs
      <4>4. \A n \in Valid(h) : n \in DOMAIN g.nodes /\ h.nodes[n].id = g.nodes[n].id
        BY <4>3 DEF Valid
      <4>5. {h.nodes[n].id : n \in Valid(h)} = {g.nodes[n].id : n \in Valid(g)}
        BY <4>3, <4>4
      <4>6. Stands(h, entries, ToSet(image.list))
        BY <4>2, <4>3, <4>4, <4>5 DEF Stands
      <4>7. Holds(h, entries, image.list)
        BY <4>2, <4>3, <4>6 DEF Holds
      <4>8. Counted(h)
        <5>1. Cardinality(Valid(h)) \in Nat
          BY <4>3, ValidFinite DEF Shape
        <5> QED
          BY <4>3, <5>1 DEF Counted
      <4>9. AsStored(g, entries) => AsStored(h, entries)
        BY <4>3, <4>4 DEF AsStored
      <4>10. BothOk(list', h, entries')
        BY <1>1, <3>1, <3>2, <4>3, <4>7, <4>8 DEF BothOk
      <4> QED
        BY <1>1, <3>1, <3>2, <3>3, <4>1, <4>9, <4>10 DEF InMemory, h
    <3> QED
      BY <3>2, <3>4, <3>5
  <2>2. CASE ~(image.there /\ image.list # <<>>)
    <3> DEFINE s == [o \in DOMAIN entries |-> o]
               n == Len(entries)
               h == graph'
    <3>1. list' = Only(s, Readables) /\ h \in MaybeEnabled(entries, list', NoGraph) /\ refilled' = refilled
      BY <2>2 DEF Open
    <3>2. n \in Nat /\ DOMAIN entries = 1..n
      BY <1>2
    <3> HIDE DEF n
    <3>3. s \in Seq(DOMAIN entries) /\ \A i, j \in DOMAIN s : s[i] = s[j] => i = j
      BY <3>2
    <3> HIDE DEF s
    <3>4. IsOnly(list', DOMAIN entries, s, Readables)
      BY <3>1, <3>3, OnlyIs
    <3>5. ListOk(list', entries)
      BY <3>4 DEF IsOnly, ListOk
    <3> HIDE DEF h
    <3>6. /\ BothOk(list', h, entries)
          /\ h.there => AsStored(h, entries) /\ h.count = Cardinality(Valid(h))
      BY <1>2, <3>1, <3>5, MaybeEnabledIs
    <3> QED
      BY <1>1, <1>2, <3>1, <3>6 DEF InMemory, h
  <2> QED
    BY <2>1, <2>2
<1> QED
  BY <1>1, <1>2, <1>3, <1>5, <1>6 DEF Sound

(* The time of an entry runs out behind the back of the array.             *)
LEMMA RunOutSound ==
  ASSUME Sound, NEW o \in DOMAIN entries, RunOut(o)
  PROVE  Sound'
<1>1. /\ open /\ entries' = [entries EXCEPT ![o].expired = TRUE]
      /\ list' = list /\ graph' = graph /\ image' = image /\ open' = open /\ sessions' = sessions
      /\ refilled' = refilled
  BY DEF RunOut
<1>2. entries' \in Seq(EntryRecords) /\ Later(entries, entries')
  BY <1>1, ExpiredIs DEF Sound
<1>3. OnDisk'
  BY <1>1, <1>2, DiskLater
<1>4. BothOk(list, graph, entries)
  BY DEF Sound, InMemory
<1>5. BothOk(list, graph, entries')
  BY <1>2, <1>4, BothLater
<1>6. graph.there /\ AsStored(graph, entries) => AsStored(graph, entries')
  <2> SUFFICES ASSUME graph.there, AsStored(graph, entries)
               PROVE  AsStored(graph, entries')
    OBVIOUS
  <2>1. Holds(graph, entries, list)
    BY <1>4, GraphThere
  <2> QED
    BY <1>2, <2>1, StandsLater DEF Holds
<1>7. InMemory'
  BY <1>1, <1>5, <1>6 DEF Sound, InMemory
<1> QED
  BY <1>1, <1>2, <1>3, <1>7 DEF Sound

LEMMA DelSound ==
  ASSUME Sound, NEW o \in ToSet(list), Del(o)
  PROVE  Sound'
<1>1. /\ open /\ entries' = [entries EXCEPT ![o].deleted = TRUE]
      /\ list' = RemovedFrom(Both, o).list /\ graph' = RemovedFrom(Both, o).graph
      /\ image' = image /\ open' = open /\ sessions' = sessions /\ refilled' = refilled
  BY DEF Del, Becomes
<1>2. BothOk(list, graph, entries)
  BY DEF Sound, InMemory
<1>3. o \in DOMAIN entries
  BY <1>2 DEF BothOk, ListOk, ToSet
<1>4. entries' \in Seq(EntryRecords) /\ DOMAIN entries' = DOMAIN entries /\ Later(entries, entries') /\ entries'[o].deleted
  BY <1>1, <1>3, DeletedIs DEF Sound
<1>5. OnDisk'
  BY <1>1, <1>4, DiskLater
<1>6. Both.list = list /\ Both.graph = graph
  BY DEF Both
<1> DEFINE s == Both
           fs == entries'
<1>7. BothOk(s.list, s.graph, entries) /\ Later(entries, fs) /\ fs[o].deleted /\ o \in DOMAIN fs
  BY <1>2, <1>3, <1>4, <1>6
<1> HIDE DEF s, fs
<1>8. LET r == RemovedFrom(s, o)
      IN  /\ BothOk(r.list, r.graph, fs) /\ ToSet(r.list) = ToSet(s.list) \ {o}
          /\ r.graph.there = s.graph.there
          /\ s.graph.there =>
               /\ r.graph.pool = s.graph.pool
               /\ AsStored(s.graph, entries) => AsStored(r.graph, fs)
               /\ s.graph.count = Cardinality(Valid(s.graph)) => r.graph.count = Cardinality(Valid(r.graph))
  BY <1>7, RemovedFromIs
<1>9. /\ BothOk(list', graph', entries') /\ graph'.there = graph.there
      /\ graph.there =>
           /\ AsStored(graph, entries) => AsStored(graph', entries')
           /\ graph.count = Cardinality(Valid(graph)) => graph'.count = Cardinality(Valid(graph'))
  BY <1>1, <1>6, <1>8 DEF s, fs
<1>10. InMemory'
  BY <1>1, <1>9 DEF Sound, InMemory
<1> QED
  BY <1>1, <1>4, <1>5, <1>10 DEF Sound

(* A vector is set for a new key or instead of the entry `old`.            *)
LEMMA SetVectorSound ==
  ASSUME Sound, NEW p \in Points, NEW old \in {0} \union ToSet(list), SetVector(old, p)
  PROVE  Sound'
<1> DEFINE o == Len(entries) + 1
           kept == IF old = 0 THEN entries ELSE [entries EXCEPT ![old].deleted = TRUE]
           e == [point |-> p, expired |-> FALSE, deleted |-> FALSE]
           s == IF old = 0 THEN Both ELSE RemovedFrom(Both, old)
<1>1. open /\ entries' = Append(kept, e) /\ image' = image /\ sessions' = sessions
  BY DEF SetVector
<1>2. PICK r \in Added(entries', s, o, p) :
        IF r.dies THEN Gone
        ELSE Becomes(r) /\ open' = open /\ refilled' = (refilled \/ (graph.there /\ graph.pool = 0))
  BY DEF SetVector
<1>3. /\ entries \in Seq(EntryRecords) /\ BothOk(list, graph, entries) /\ refilled \in BOOLEAN
      /\ graph.there =>
           /\ ~refilled => AsStored(graph, entries)
           /\ sessions = 1 => graph.count = Cardinality(Valid(graph))
  BY DEF Sound, InMemory
<1>4. ToSet(list) \subseteq DOMAIN entries /\ DOMAIN entries = 1..Len(entries) /\ Len(entries) \in Nat
  BY <1>3 DEF BothOk, ListOk, ToSet
<1>5. /\ kept \in Seq(EntryRecords) /\ DOMAIN kept = DOMAIN entries /\ Later(entries, kept)
      /\ old # 0 => kept[old].deleted
  <2>1. CASE old = 0
    BY <1>3, <2>1 DEF Later
  <2>2. CASE old # 0
    <3>1. old \in DOMAIN entries
      BY <1>4, <2>2
    <3> QED
      BY <1>3, <2>2, <3>1, DeletedIs
  <2> QED
    BY <2>1, <2>2
<1> HIDE DEF kept
<1>6. e \in EntryRecords /\ e.point = p
  BY DEF EntryRecords
<1> HIDE DEF e
<1>7. /\ entries' \in Seq(EntryRecords) /\ Later(kept, entries') /\ o \in DOMAIN entries' \ DOMAIN entries
      /\ entries'[o] = e
  <2>1. Len(kept) = Len(entries)
    BY <1>4, <1>5
  <2> QED
    BY <1>1, <1>5, <1>6, <2>1, WrittenIs
<1> HIDE DEF o, s
<1>8. Later(entries, entries')
  BY <1>5, <1>7, LaterLater
<1>9. OnDisk'
  BY <1>1, <1>8, DiskLater
<1>10. /\ BothOk(s.list, s.graph, entries') /\ o \notin ToSet(s.list) /\ s.graph.there = graph.there
       /\ graph.there =>
            /\ s.graph.pool = graph.pool
            /\ AsStored(graph, entries) => AsStored(s.graph, entries')
            /\ graph.count = Cardinality(Valid(graph)) => s.graph.count = Cardinality(Valid(s.graph))
  <2>0. o \notin ToSet(list)
    BY <1>4, <1>7
  <2>1. Both.list = list /\ Both.graph = graph
    BY DEF Both
  <2>2. CASE old = 0
    <3>1. s.list = list /\ s.graph = graph
      BY <2>1, <2>2 DEF s
    <3>2. BothOk(list, graph, entries')
      BY <1>3, <1>8, BothLater
    <3>3. graph.there /\ AsStored(graph, entries) => AsStored(graph, entries')
      <4> SUFFICES ASSUME graph.there, AsStored(graph, entries)
                   PROVE  AsStored(graph, entries')
        OBVIOUS
      <4>1. Holds(graph, entries, list)
        BY <1>3, GraphThere
      <4> QED
        BY <1>8, <4>1, StandsLater DEF Holds
    <3> QED
      BY <2>0, <3>1, <3>2, <3>3
  <2>3. CASE old # 0
    <3> DEFINE b == Both
               fs == entries'
               r0 == RemovedFrom(b, old)
    <3>1. fs[old].deleted /\ old \in DOMAIN fs
      <4>1. old \in DOMAIN kept /\ kept[old].deleted
        BY <1>4, <1>5, <2>3
      <4> QED
        BY <1>7, <4>1 DEF Later
    <3>2. /\ BothOk(b.list, b.graph, entries) /\ Later(entries, fs)
          /\ fs[old].deleted /\ old \in DOMAIN fs
      BY <1>3, <1>8, <2>1, <3>1
    <3> HIDE DEF b, fs
    <3>3. LET r1 == RemovedFrom(b, old)
          IN  /\ BothOk(r1.list, r1.graph, fs) /\ ToSet(r1.list) = ToSet(b.list) \ {old}
              /\ r1.graph.there = b.graph.there
              /\ b.graph.there =>
                   /\ r1.graph.pool = b.graph.pool
                   /\ AsStored(b.graph, entries) => AsStored(r1.graph, fs)
                   /\ b.graph.count = Cardinality(Valid(b.graph)) => r1.graph.count = Cardinality(Valid(r1.graph))
      BY <3>2, RemovedFromIs
    <3>4. s = r0
      BY <2>3 DEF s, b
    <3> QED
      BY <2>0, <2>1, <3>3, <3>4 DEF b, fs
  <2> QED
    BY <2>2, <2>3
<1>11. CASE r.dies
  <2>1. sessions' \in 0..MaxSessions /\ (image' = NoImage \/ (image'.there = TRUE /\ sessions' > 0))
    BY <1>1 DEF Sound
  <2> QED
    BY <1>2, <1>7, <1>9, <1>11, <2>1, GoneSound
<1>12. CASE ~r.dies
  <2> DEFINE fs == entries'
  <2>1. fs[o].point = p /\ fs \in Seq(EntryRecords) /\ o \in DOMAIN fs /\ r \in Added(fs, s, o, p)
        /\ BothOk(s.list, s.graph, fs)
    BY <1>2, <1>6, <1>7, <1>10
  <2>2. list' = r.list /\ graph' = r.graph /\ open' = open /\ refilled' = (refilled \/ (graph.there /\ graph.pool = 0))
    BY <1>2, <1>12 DEF Becomes
  <2> HIDE DEF fs
  <2>3. /\ BothOk(r.list, r.graph, fs)
        /\ (r.graph.there /\ ~s.graph.there) => AsStored(r.graph, fs) /\ r.graph.count = Cardinality(Valid(r.graph))
        /\ s.graph.there =>
             /\ (s.graph.pool > 0 /\ AsStored(s.graph, fs)) => AsStored(r.graph, fs)
             /\ s.graph.count = Cardinality(Valid(s.graph)) => r.graph.count = Cardinality(Valid(r.graph))
    BY <1>10, <1>12, <2>1, AddedIs
  <2>4. graph.there \in BOOLEAN /\ (graph.there => graph.pool \in Nat)
    BY <1>3, GraphThere DEF Shape
  <2>5. ~refilled' => ~refilled /\ (graph.there => graph.pool > 0)
    <3>1. CASE graph.there
      <4>1. CASE graph.pool = 0
        BY <2>2, <3>1, <4>1
      <4>2. CASE graph.pool # 0
        <5>1. graph.pool > 0
          BY <2>4, <3>1, <4>2
        <5>2. ~refilled' => ~refilled
          BY <2>2, Zenon
        <5> QED
          BY <5>1, <5>2
      <4> QED
        BY <4>1, <4>2
    <3>2. CASE ~graph.there
      BY <2>2, <3>2
    <3> QED
      BY <3>1, <3>2
  <2>6. graph'.there =>
          /\ ~refilled' => AsStored(graph', entries')
          /\ sessions' = 1 => graph'.count = Cardinality(Valid(graph'))
    BY <1>1, <1>3, <1>10, <2>2, <2>3, <2>4, <2>5 DEF fs
  <2>7. InMemory'
    BY <2>2, <2>3, <2>6 DEF InMemory, fs
  <2>8. refilled' \in BOOLEAN
    BY <1>3, <2>2, <2>4
  <2> QED
    BY <1>1, <1>7, <1>9, <2>2, <2>7, <2>8 DEF Sound
<1> QED
  BY <1>11, <1>12

(* The invariant; see the comment at the head of the module.               *)
THEOREM SoundAlways ==
  Spec => []Sound
<1>1. Sound /\ [Next]_vars => Sound'
  <2> SUFFICES ASSUME Sound, [Next]_vars
               PROVE  Sound'
    OBVIOUS
  <2>1. CASE Open
    BY <2>1, OpenSound
  <2>2. CASE Close
    BY <2>2, CloseSound
  <2>3. CASE Kill
    BY <2>3, KillSound
  <2>4. CASE \E p \in Points : \E old \in {0} \union ToSet(list) : SetVector(old, p)
    BY <2>4, SetVectorSound
  <2>5. CASE \E o \in ToSet(list) : Del(o)
    BY <2>5, DelSound
  <2>6. CASE \E o \in DOMAIN entries : RunOut(o)
    BY <2>6, RunOutSound
  <2>7. CASE UNCHANGED vars
    BY <2>7 DEF vars, Sound, InMemory, OnDisk
  <2> QED
    BY <2>1, <2>2, <2>3, <2>4, <2>5, <2>6, <2>7 DEF Next
<1> QED
  BY <1>1, SoundAtFirst, PTL DEF Spec

-----------------------------------------------------------------------------
(* Slots, nodes and the array.                                             *)

(* Free lists and links name nodes; see TypeOK of VectorIndex.             *)
THEOREM TypeOKAlways ==
  Spec => []TypeOK
<1>1. Sound => TypeOK
  <2> SUFFICES ASSUME Sound
               PROVE  TypeOK
    OBVIOUS
  <2>1. entries \in Seq([point : Points, expired : BOOLEAN, deleted : BOOLEAN])
    BY DEF Sound, EntryRecords
  <2>2. BothOk(list, graph, entries)
    BY DEF Sound, InMemory
  <2>3. ToSet(list) \subseteq DOMAIN entries
    BY <2>2 DEF BothOk, ListOk, ToSet
  <2>4. ASSUME graph.there
        PROVE  /\ graph.entry \in DOMAIN graph.nodes /\ ToSet(graph.free) \subseteq DOMAIN graph.nodes
               /\ Len(graph.nodes) <= graph.capacity
               /\ \A n \in DOMAIN graph.nodes : \A l \in DOMAIN graph.links[n] :
                    /\ ToSet(graph.links[n][l]) \subseteq DOMAIN graph.nodes
                    /\ Len(graph.links[n][l]) <= MaxLinks(l - 1)
    <3>1. Shape(graph) /\ Holds(graph, entries, list)
      BY <2>2, <2>4, GraphThere
    <3>2. ToSet(graph.free) \subseteq DOMAIN graph.nodes
      BY <3>1 DEF Shape, FreeOk
    <3>3. ASSUME NEW n \in DOMAIN graph.nodes, NEW l \in DOMAIN graph.links[n]
          PROVE  /\ ToSet(graph.links[n][l]) \subseteq DOMAIN graph.nodes
                 /\ Len(graph.links[n][l]) <= MaxLinks(l - 1)
      <4>1. NodesOk(graph) /\ LinksOk(graph, graph.links)
        BY <3>1 DEF Shape
      <4>2. /\ graph.links[n][l] \in Seq(DOMAIN graph.nodes)
            /\ graph.nodes[n].room[l] \in Nat /\ Len(graph.links[n][l]) <= graph.nodes[n].room[l]
        BY <4>1, ListIs DEF NodesOk
      <4>3. l \in DOMAIN graph.nodes[n].room
        BY <4>1 DEF LinksOk
      <4>4. graph.nodes[n].room[l] <= MaxLinks(l - 1)
        BY <4>1, <4>3 DEF NodesOk
      <4>5. l - 1 \in Nat
        <5>0. graph.nodes[n] \in NodeRecords
          BY <4>1 DEF NodesOk
        <5>1. graph.nodes[n].room \in Seq(Nat)
          BY <5>0 DEF NodeRecords
        <5> QED
          BY <4>3, <5>1
      <4>6. MaxLinks(l - 1) \in Nat /\ Len(graph.links[n][l]) \in Nat
        <5>1. MaxLinks(l - 1) \in Nat
          BY <4>5, MaxLinksIs
        <5>2. Len(graph.links[n][l]) \in Nat
          BY <4>2
        <5> QED
          BY <5>1, <5>2
      <4>7. Len(graph.links[n][l]) <= MaxLinks(l - 1)
        BY <4>2, <4>4, <4>6
      <4>8. ToSet(graph.links[n][l]) \subseteq DOMAIN graph.nodes
        BY <4>2 DEF ToSet
      <4> QED
        BY <4>7, <4>8
    <3> QED
      BY <3>1, <3>2, <3>3 DEF Shape, Holds
  <2> QED
    BY <2>1, <2>3, <2>4 DEF TypeOK, Sound
<1> QED
  BY <1>1, SoundAlways, PTL

(* The free list has the removed nodes' slots, once each, so that no       *)
(* insertion overwrites a live node; see FreeSlotsUnused of VectorIndex.   *)
THEOREM FreeSlotsAlwaysUnused ==
  Spec => []FreeSlotsUnused
<1>1. Sound => FreeSlotsUnused
  BY GraphThere DEF Sound, InMemory, FreeSlotsUnused, Shape, FreeOk
<1> QED
  BY <1>1, SoundAlways, PTL

LEMMA ListLength ==
  ASSUME NEW S, NEW ls \in Seq(S), IsInjective(ls)
  PROVE  IsFiniteSet(ToSet(ls)) /\ Cardinality(ToSet(ls)) = Len(ls)
<1> DEFINE n == Len(ls)
           T == ToSet(ls)
<1>1. n \in Nat /\ DOMAIN ls = 1..n /\ ls = [i \in 1..n |-> ls[i]]
  OBVIOUS
<1> HIDE DEF n
<1>2. \A i \in 1..n : ls[i] \in T
  BY <1>1 DEF ToSet
<1>3. \A t \in T : \E i \in 1..n : ls[i] = t
  BY <1>1 DEF ToSet
<1> HIDE DEF T
<1>4. ls \in Bijection(1..n, T)
  BY <1>1, <1>2, <1>3 DEF Bijection, Injection, Surjection, IsInjective
<1>5. ExistsBijection(1..n, T)
  BY <1>4 DEF ExistsBijection
<1>6. IsFiniteSet(1..n) /\ Cardinality(1..n) = n
  <2>1. 1 \in Int /\ n \in Int
    BY <1>1
  <2>2. IsFiniteSet(1..n) /\ Cardinality(1..n) = IF 1 > n THEN 0 ELSE n - 1 + 1
    BY <2>1, FS_Interval
  <2> QED
    BY <1>1, <2>2
<1>7. IsFiniteSet(T) /\ Cardinality(T) = n
  BY <1>5, <1>6, FS_Bijection
<1> QED
  BY <1>7 DEF n, T

(* There are as many live nodes as members of the array.                   *)
LEMMA LiveNodes ==
  ASSUME NEW g, NodesOk(g), NEW es, NEW ls, ListOk(ls, es), Stands(g, es, ToSet(ls))
  PROVE  Cardinality(Valid(g)) = Len(ls)
<1> DEFINE V == Valid(g)
           T == ToSet(ls)
           f == [n \in V |-> g.nodes[n].id]
<1>1. IsFiniteSet(V)
  BY ValidFinite
<1>2. {g.nodes[n].id : n \in V} = T /\ \A n, m \in V : g.nodes[n].id = g.nodes[m].id => n = m
  BY DEF Stands
<1>3. Cardinality(T) = Len(ls)
  BY ListLength DEF ListOk
<1> HIDE DEF V, T
<1>4. f \in Bijection(V, T)
  BY <1>2 DEF Bijection, Injection, Surjection, IsInjective
<1>5. ExistsBijection(V, T)
  BY <1>4 DEF ExistsBijection
<1> QED
  BY <1>1, <1>3, <1>5, FS_Bijection DEF V

(* The live nodes are the members of the array, one each, whatever was     *)
(* removed, replaced or read back; see GraphHoldsList of VectorIndex.      *)
THEOREM GraphAlwaysHoldsList ==
  Spec => []GraphHoldsList
<1>1. Sound => GraphHoldsList
  <2> SUFFICES ASSUME Sound, graph.there
               PROVE  /\ {graph.nodes[n].id : n \in Valid(graph)} = ToSet(list)
                      /\ Cardinality(Valid(graph)) = Len(list) /\ IsInjective(list)
    BY DEF GraphHoldsList
  <2>1. Shape(graph) /\ Holds(graph, entries, list) /\ ListOk(list, entries)
    BY GraphThere DEF Sound, InMemory, BothOk
  <2>2. Cardinality(Valid(graph)) = Len(list)
    BY <2>1, LiveNodes DEF Shape, Holds
  <2> QED
    BY <2>1, <2>2 DEF Holds, Stands, ListOk
<1> QED
  BY <1>1, SoundAlways, PTL

(* valid_count is never too high, and exact in the first session, which    *)
(* read no graph; see CountNeverTooHigh of VectorIndex.                    *)
THEOREM CountIsNeverTooHigh ==
  Spec => []CountNeverTooHigh
<1>1. Sound => CountNeverTooHigh
  BY GraphThere DEF Sound, InMemory, CountNeverTooHigh, Counted
<1> QED
  BY <1>1, SoundAlways, PTL

(* Live nodes have their entries' vectors until a graph that was read back *)
(* grows; see VectorsAsStored of VectorIndex.                              *)
THEOREM VectorsAlwaysAsStored ==
  Spec => []VectorsAsStored
<1>1. Sound => VectorsAsStored
  BY DEF Sound, InMemory, VectorsAsStored, AsStored
<1> QED
  BY <1>1, SoundAlways, PTL

-----------------------------------------------------------------------------
(* Searching the vectors.                                                  *)

(* The ids of nodes that a search found: of members of the array, or of    *)
(* deleted entries; what is not deleted is there once.                     *)
IsFound(ids, es, S) ==
  /\ ids \in Seq(DOMAIN es)
  /\ \A i, j \in DOMAIN ids : (ids[i] = ids[j] /\ ~es[ids[i]].deleted) => i = j
  /\ \A i \in DOMAIN ids : ids[i] \in S \/ es[ids[i]].deleted

LEMMA IdsAre ==
  ASSUME NEW g, NEW es, NEW S, Stands(g, es, S), NEW nodes \in Seq(DOMAIN g.nodes), IsInjective(nodes)
  PROVE  LET ids == [i \in DOMAIN nodes |-> g.nodes[nodes[i]].id]
         IN  /\ IsFound(ids, es, S) /\ Len(ids) = Len(nodes)
             /\ nodes \in Seq(Valid(g)) => ToSet(ids) \subseteq S
<1> DEFINE n == Len(nodes)
           ids == [i \in DOMAIN nodes |-> g.nodes[nodes[i]].id]
           A == DOMAIN es
<1>1. n \in Nat /\ DOMAIN nodes = 1..n /\ \A i \in 1..n : nodes[i] \in DOMAIN g.nodes
  OBVIOUS
<1>2. \A m \in DOMAIN g.nodes : g.nodes[m].id \in A
  BY DEF Stands
<1>3. \A m \in Valid(g) : g.nodes[m].id \in S
  BY DEF Stands
<1>4. ASSUME nodes \in Seq(Valid(g))
      PROVE  \A i \in 1..n : nodes[i] \in Valid(g)
  BY <1>1, <1>4
<1> HIDE DEF n, A
<1>5. ids = [i \in 1..n |-> g.nodes[nodes[i]].id]
  BY <1>1
<1> HIDE DEF ids
<1>6. ids \in [1..n -> A]
  BY <1>1, <1>2, <1>5
<1>7. ids \in Seq(A) /\ Len(ids) = n /\ DOMAIN ids = 1..n
  BY <1>1, <1>6
<1>8. \A i \in 1..n : ids[i] = g.nodes[nodes[i]].id
  BY <1>5
<1>9. ASSUME NEW i \in 1..n
      PROVE  (nodes[i] \in Valid(g) /\ ids[i] \in S) \/ es[ids[i]].deleted
  BY <1>1, <1>3, <1>8 DEF Stands
<1>10. ASSUME NEW i \in 1..n, NEW j \in 1..n, ids[i] = ids[j], ~es[ids[i]].deleted
       PROVE  i = j
  <2>1. nodes[i] \in Valid(g) /\ nodes[j] \in Valid(g)
    BY <1>9, <1>10
  <2>2. nodes[i] = nodes[j]
    BY <1>8, <1>10, <2>1 DEF Stands
  <2> QED
    BY <1>1, <2>2 DEF IsInjective
<1>11. IsFound(ids, es, S)
  BY <1>7, <1>9, <1>10 DEF IsFound, A
<1>12. nodes \in Seq(Valid(g)) => ToSet(ids) \subseteq S
  BY <1>3, <1>4, <1>7, <1>8 DEF ToSet
<1> QED
  BY <1>7, <1>11, <1>12 DEF ids, n

LEMMA ListedIs ==
  ASSUME NEW S, IsFiniteSet(S)
  PROVE  SetToSeq(S) \in Seq(S) /\ Len(SetToSeq(S)) = Cardinality(S) /\ IsInjective(SetToSeq(S))
<1> DEFINE n == Cardinality(S)
<1>1. n \in Nat /\ ExistsBijection(1..n, S)
  BY FS_CardinalityType
<1>2. SetToSeq(S) = CHOOSE f \in [1..n -> S] : IsInjective(f)
  BY DEF SetToSeq
<1> HIDE DEF n
<1>3. \E f \in [1..n -> S] : IsInjective(f)
  BY <1>1 DEF ExistsBijection, Bijection, Injection
<1> DEFINE f == CHOOSE f \in [1..n -> S] : IsInjective(f)
<1>4. f \in [1..n -> S] /\ IsInjective(f)
  BY <1>3
<1> HIDE DEF f
<1>5. f \in Seq(S) /\ Len(f) = n
  BY <1>1, <1>4
<1> QED
  BY <1>2, <1>4, <1>5 DEF f, n

(* The first of a list.                                                    *)
LEMMA FirstAre ==
  ASSUME NEW S, NEW s \in Seq(S), IsInjective(s), NEW k \in Nat, k <= Len(s)
  PROVE  SubSeq(s, 1, k) \in Seq(S) /\ IsInjective(SubSeq(s, 1, k))
<1> DEFINE t == SubSeq(s, 1, k)
<1>1. t \in Seq(S) /\ DOMAIN t = 1..k /\ \A i \in 1..k : t[i] = s[i] /\ i \in DOMAIN s
  OBVIOUS
<1> HIDE DEF t
<1>2. IsInjective(t)
  BY <1>1 DEF IsInjective
<1> QED
  BY <1>1, <1>2 DEF t

(* Of fewer vectors than the threshold k are found, or all.                *)
IsEnough(ids, ls, k) ==
  Len(ls) < HnswThreshold => ToSet(ids) \subseteq ToSet(ls) /\ Len(ids) = Min({k, Len(ls)})

(* hnsw_search, with the entry point removed or not; exact as long as      *)
(* there are fewer vectors than the threshold.                             *)
LEMMA HnswSearchIs ==
  ASSUME NEW g, Shape(g), Counted(g), NEW es, NEW ls, ListOk(ls, es), Holds(g, es, ls),
         NEW p \in Points, NEW k \in Nat, NEW ids \in HnswSearch(g, p, k)
  PROVE  IsFound(ids, es, ToSet(ls)) /\ IsEnough(ids, ls, k)
<1>1. NodesOk(g) /\ Stands(g, es, ToSet(ls)) /\ g.entry \in DOMAIN g.nodes /\ g.count \in Nat
  BY DEF Shape, Holds
<1>2. Cardinality(Valid(g)) = Len(ls) /\ IsFiniteSet(Valid(g)) /\ Len(ls) \in Nat
  BY <1>1, LiveNodes, ValidFinite DEF ListOk
<1>3. CASE g.count < HnswThreshold
  <2> DEFINE V == Valid(g)
             size == Min({k, Cardinality(V)})
  <2>1. PICK S \in SearchExact(g, p, k) : ids = [i \in DOMAIN SetToSeq(S) |-> g.nodes[SetToSeq(S)[i]].id]
    BY <1>3 DEF HnswSearch
  <2>2. S \in SUBSET V /\ Cardinality(S) = size
    BY DEF SearchExact, kSubset, Valid
  <2>3. IsFiniteSet(S)
    BY <1>2, <2>2, FS_Subset
  <2> DEFINE nodes == SetToSeq(S)
  <2>4. nodes \in Seq(S) /\ Len(nodes) = size /\ IsInjective(nodes)
    BY <2>2, <2>3, ListedIs
  <2> HIDE DEF nodes, size
  <2>5. nodes \in Seq(V) /\ nodes \in Seq(DOMAIN g.nodes)
    <3>1. V \subseteq DOMAIN g.nodes
      BY DEF Valid
    <3>2. Seq(S) \subseteq Seq(V) /\ Seq(V) \subseteq Seq(DOMAIN g.nodes)
      BY <2>2, <3>1, SeqGrows
    <3> QED
      BY <2>4, <3>2
  <2>6. ids = [i \in DOMAIN nodes |-> g.nodes[nodes[i]].id]
    BY <2>1 DEF nodes
  <2>7. IsFound(ids, es, ToSet(ls)) /\ Len(ids) = Len(nodes) /\ ToSet(ids) \subseteq ToSet(ls)
    BY <1>1, <2>4, <2>5, <2>6, IdsAre, SMTT(30)
  <2>8. size = Min({k, Len(ls)})
    BY <1>2 DEF size
  <2> QED
    BY <2>4, <2>7, <2>8 DEF IsEnough
<1>4. CASE ~(g.count < HnswThreshold)
  <2>1. g.count > 0 /\ ~(Len(ls) < HnswThreshold)
    <3>1. g.count <= Len(ls)
      BY <1>2 DEF Counted
    <3> QED
      BY <1>1, <1>2, <1>4, <3>1, VectorAssumption
  <2>2. Searchable(g)
    BY <1>1, <2>1 DEF Counted, Shape, Searchable
  <2>3. PICK w \in Widths : LET nodes == SearchApprox(g, p, k, w)
                           IN  ids = [i \in DOMAIN nodes |-> g.nodes[nodes[i]].id]
    BY <1>4 DEF HnswSearch
  <2> DEFINE ef == Max({w, k})
             top == Descend(g, p, 0)
             found == SearchLayer(g, p, top, 0, ef)
             last == Min({k, Len(found)})
             nodes == SubSeq(found, 1, last)
  <2>10. ids = [i \in DOMAIN nodes |-> g.nodes[nodes[i]].id]
    BY <2>3 DEF SearchApprox
  <2>4. 0 \in Nat /\ top \in Reach(g)
    BY <2>2, DescendIs
  <2> HIDE DEF top, ef
  <2>5. found \in Seq(Reach(g)) /\ IsInjective(found)
    BY <2>2, <2>4, SearchLayerIs
  <2> HIDE DEF found
  <2>6. last \in Nat /\ last <= Len(found)
    <3>1. Len(found) \in Nat
      BY <2>5
    <3> QED
      BY <3>1, MinOfTwo
  <2>7. Seq(Reach(g)) \subseteq Seq(DOMAIN g.nodes)
    <3>1. Reach(g) \subseteq DOMAIN g.nodes
      BY <1>1 DEF Reach, Valid
    <3> QED
      BY <3>1, SeqGrows
  <2> HIDE DEF last
  <2>8. nodes \in Seq(Reach(g)) /\ IsInjective(nodes)
    BY <2>5, <2>6, FirstAre
  <2> HIDE DEF nodes
  <2>9. IsFound(ids, es, ToSet(ls))
    BY <1>1, <2>10, <2>7, <2>8, IdsAre
  <2> QED
    BY <2>1, <2>9 DEF IsEnough
<1> QED
  BY <1>3, <1>4

(* A search returns readable members of the array, none twice, and enough  *)
(* of a few; see SearchSound of VectorIndex.                               *)
THEOREM SearchAlwaysSound ==
  Spec => []SearchSound
<1>1. Sound => SearchSound
  <2> SUFFICES ASSUME Sound, open, NEW p \in Points, NEW k \in Asked, NEW found \in Candidates(p, k)
               PROVE  /\ IsInjective(found)
                      /\ \A o \in ToSet(found) : o \in ToSet(list) /\ Readable(o)
                      /\ (Len(list) < HnswThreshold /\ \A o \in ToSet(list) : Readable(o)) =>
                           Len(found) >= Min({k, Len(list)})
    BY DEF SearchSound
  <2>1. ListOk(list, entries) /\ BothOk(list, graph, entries)
    BY DEF Sound, InMemory, BothOk
  <2>2. Len(list) \in Nat /\ list \in Seq(DOMAIN entries) /\ IsInjective(list) /\ ToSet(list) \subseteq DOMAIN entries
    BY <2>1 DEF ListOk, ToSet
  <2>3. k \in Nat /\ 2 * k \in Nat /\ k <= 2 * k
    BY VectorAssumption
  <2>4. \A o \in Readables : Readable(o)
    BY DEF Readables
  <2>5. \A o \in Readables : ~entries[o].deleted
    BY DEF Readables, Readable
  <2>6. (\A o \in ToSet(list) : Readable(o)) => ToSet(list) \subseteq Readables
    BY <2>2 DEF Readables
  <2>7. CASE list = <<>>
    <3>1. found = <<>> /\ Len(list) = 0
      BY <2>7 DEF Candidates
    <3>2. Min({k, Len(list)}) = 0
      BY <2>3, <3>1, MinOfTwo
    <3> QED
      BY <3>1, <3>2 DEF IsInjective, ToSet
  <2>8. CASE list # <<>> /\ graph.there
    <3>1. PICK ids \in HnswSearch(graph, p, 2 * k) : found = Only(ids, Readables)
      BY <2>8 DEF Candidates
    <3>2. Shape(graph) /\ Counted(graph) /\ Holds(graph, entries, list)
      BY <2>1, <2>8, GraphThere
    <3> DEFINE K == 2 * k
    <3>3. K \in Nat /\ ids \in HnswSearch(graph, p, K)
      BY <2>3
    <3> HIDE DEF K
    <3>4. IsFound(ids, entries, ToSet(list)) /\ IsEnough(ids, list, K)
      BY <2>1, <3>2, <3>3, HnswSearchIs
    <3>5. ids \in Seq(DOMAIN entries) /\ \A i, j \in DOMAIN ids : ids[i] = ids[j] /\ ids[i] \in Readables => i = j
      BY <2>5, <3>4 DEF IsFound
    <3>6. IsOnly(found, DOMAIN entries, ids, Readables)
      BY <3>1, <3>5, OnlyIs
    <3>7. ASSUME NEW o \in ToSet(found)
          PROVE  o \in ToSet(list) /\ Readable(o)
      <4>1. o \in ToSet(ids) /\ o \in Readables
        BY <3>6 DEF IsOnly
      <4>2. o \in ToSet(list) \/ entries[o].deleted
        BY <3>4, <4>1 DEF IsFound, ToSet
      <4> QED
        BY <2>4, <2>5, <4>1, <4>2
    <3>8. ASSUME Len(list) < HnswThreshold, \A o \in ToSet(list) : Readable(o)
          PROVE  Len(found) >= Min({k, Len(list)})
      <4>1. ToSet(ids) \subseteq Readables /\ Len(ids) = Min({K, Len(list)})
        BY <2>6, <3>4, <3>8 DEF IsEnough
      <4>2. Len(found) = Min({K, Len(list)})
        BY <3>6, <4>1 DEF IsOnly
      <4>3. Min({K, Len(list)}) = IF K <= Len(list) THEN K ELSE Len(list)
        BY <2>2, <3>3, MinOfTwo
      <4>4. Min({k, Len(list)}) = IF k <= Len(list) THEN k ELSE Len(list)
        BY <2>2, <2>3, MinOfTwo
      <4> QED
        BY <2>2, <2>3, <3>3, <4>2, <4>3, <4>4 DEF K
    <3> QED
      BY <3>6, <3>7, <3>8 DEF IsOnly
  <2>9. CASE list # <<>> /\ ~graph.there
    <3>1. found = Only(list, Readables)
      BY <2>9 DEF Candidates
    <3>2. IsOnly(found, DOMAIN entries, list, Readables)
      BY <2>2, <3>1, OnlyIs DEF IsInjective
    <3>3. ASSUME \A o \in ToSet(list) : Readable(o)
          PROVE  Len(found) >= Min({k, Len(list)})
      <4>1. Len(found) = Len(list)
        BY <2>6, <3>2, <3>3 DEF IsOnly
      <4>2. Min({k, Len(list)}) = IF k <= Len(list) THEN k ELSE Len(list)
        BY <2>2, <2>3, MinOfTwo
      <4> QED
        BY <2>2, <2>3, <4>1, <4>2
    <3> QED
      BY <2>4, <3>2, <3>3 DEF IsOnly
  <2> QED
    BY <2>7, <2>8, <2>9
<1> QED
  BY <1>1, SoundAlways, PTL
=============================================================================
