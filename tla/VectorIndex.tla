----------------------------- MODULE VectorIndex -----------------------------
(***************************************************************************)
(* The vectors of a cache: the array of vector_index.c and, once it has    *)
(* HnswThreshold members, the HNSW graph of hnsw.c beside it, over several *)
(* sessions, with index.bin written on closing and read on opening.        *)
(*                                                                         *)
(* Entries are named by their places in the pool, which are the ids in the *)
(* graph; no place is used twice, so that hnsw_insert never meets an id it *)
(* has.  Nodes are named by their slots, from 1 on.  A vector is one of a  *)
(* few points; None is an address that nothing is mapped at.  The level of *)
(* a node is random.  hnsw_insert_parallel has no caller.                  *)
(***************************************************************************)
EXTENDS Integers, Sequences, FiniteSets, SequencesExt, FiniteSetsExt

CONSTANTS
  Points,           \* the vectors callers store and ask for, of one dimension
  Distance,         \* hnsw_distance
  None,
  HnswThreshold,    \* vectors from which the graph exists and is asked
  InitialCapacity,  \* nodes hnsw_create makes room for
  M,                \* neighbours on a level; twice as many on level 0
  EfConstruction,
  EfSearch,         \* HNSW_DEFAULT_EF_SEARCH
  Asked,            \* numbers of results that searches ask for
  MaxLevel,
  PoolMax,          \* bound on the entries ever written
  MaxExpired,       \* bound on the entries whose time runs out
  MaxSessions       \* bound on the calls of cache_open

ASSUME VectorAssumption ==
  /\ Distance \in [Points \X Points -> Nat]
  /\ None \notin Points
  /\ {MaxLevel, PoolMax, MaxExpired, MaxSessions} \subseteq Nat
  /\ {HnswThreshold, InitialCapacity, M, EfConstruction, EfSearch} \subseteq Nat \ {0}
  /\ Asked \subseteq Nat \ {0}

VARIABLES
  entries,   \* of cache.bin: point, expired, deleted
  list,      \* vector_index.entries, by entry
  graph,     \* the graph, or NoGraph
  image,     \* of both in index.bin
  open,      \* a session has the cache open
  sessions,  \* calls of cache_open so far
  refilled   \* history: the graph, once read from index.bin, has grown

vars == <<entries, list, graph, image, open, sessions, refilled>>

-----------------------------------------------------------------------------
(* The priority queue: an array with the nearest node first, as far as     *)
(* pq_push and pq_pop keep it that way.                                    *)

\* One turn of the loop of pq_push, with the item in the slot that it has risen to.
Rise(s, item) ==
  LET parent == s.at \div 2
  IN  IF parent = 0 \/ s.items[parent].dist <= item.dist THEN s
      ELSE [items |-> [s.items EXCEPT ![s.at] = s.items[parent], ![parent] = item], at |-> parent]

PqPush(pq, capacity, item) ==
  LET after[i \in 0..Len(pq)] ==
        IF i = 0 THEN [items |-> Append(pq, item), at |-> Len(pq) + 1] ELSE Rise(after[i - 1], item)
  IN  IF Len(pq) >= capacity THEN pq ELSE after[Len(pq)].items

\* The slot to move up into slot `at`: the children are compared with what the slot
\* holds, not with the item that is going down.
Smallest(items, at) ==
  LET left  == 2 * at
      right == left + 1
      first == IF left <= Len(items) /\ items[left].dist < items[at].dist THEN left ELSE at
  IN  IF right <= Len(items) /\ items[right].dist < items[first].dist THEN right ELSE first

\* One turn of the loop of pq_pop.
Sink(s) ==
  [items |-> [s.items EXCEPT ![s.at] = s.items[Smallest(s.items, s.at)]], at |-> Smallest(s.items, s.at)]

PqPop(pq) ==
  LET n == Len(pq) - 1
      after[i \in 0..n] == IF i = 0 THEN [items |-> SubSeq(pq, 1, n), at |-> 1] ELSE Sink(after[i - 1])
  IN  IF n = 0 THEN <<>> ELSE [after[n].items EXCEPT ![after[n].at] = Last(pq)]

-----------------------------------------------------------------------------
(* Searching the graph. *)

\* Whether the vector of the node is where its pointer points.
IsMapped(g, n) == g.nodes[n].vec # None

Near(g, p, n) == Distance[<<p, g.nodes[n].vec>>]

Links(g, n, level) == IF level > g.nodes[n].level THEN <<>> ELSE g.links[n][level + 1]

Nearer(g, p, n, m) == IF g.nodes[m].valid /\ Near(g, p, m) < Near(g, p, n) THEN m ELSE n

\* The first of the nearest among a node and its live neighbours.
Nearest(g, p, n, level) ==
  LET links == Links(g, n, level)
      after[i \in 0..Len(links)] == IF i = 0 THEN n ELSE Nearer(g, p, after[i - 1], links[i])
  IN  after[Len(links)]

\* hnsw_greedy_search_layer: to the nearest neighbour, until none is nearer.
GreedySearch(g, p, entry, level) ==
  LET at[i \in 0..Len(g.nodes)] == IF i = 0 THEN entry ELSE Nearest(g, p, at[i - 1], level)
  IN  at[Len(g.nodes)]

\* From the entry point down through the levels above `level`.
Descend(g, p, level) ==
  LET at[i \in 0..(g.top - level)] == IF i = 0 THEN g.entry ELSE GreedySearch(g, p, at[i - 1], g.top - i + 1)
  IN  IF level >= g.top THEN g.entry ELSE at[g.top - level]

\* Variant: nodes are not marked as visited.
VisitUnmarked(g, p, ef, s, n) ==
  IF n \in s.visited \/ ~g.nodes[n].valid THEN s
  ELSE [s EXCEPT !.pq = PqPush(@, 2 * ef + 1, [id |-> n, dist |-> Near(g, p, n)])]

\* A live neighbour is marked and queued once.
Visit(g, p, ef, s, n) ==
  IF n \in s.visited \/ ~g.nodes[n].valid THEN s
  ELSE [s EXCEPT !.visited = @ \union {n},
                 !.pq = PqPush(@, 2 * ef + 1, [id |-> n, dist |-> Near(g, p, n)])]

VisitAll(g, p, ef, s, links) ==
  LET after[i \in 0..Len(links)] == IF i = 0 THEN s ELSE Visit(g, p, ef, after[i - 1], links[i])
  IN  after[Len(links)]

\* One turn of the loop of hnsw_search_layer_nearest.
Expand(g, p, level, ef, s) ==
  LET top    == Head(s.pq).id
      popped == [s EXCEPT !.pq = PqPop(@)]
  IN  IF s.pq = <<>> \/ Len(s.out) >= ef THEN s
      ELSE IF level > g.nodes[top].level THEN popped
      ELSE VisitAll(g, p, ef, [popped EXCEPT !.out = Append(@, top)], Links(g, top, level))

\* hnsw_search_layer_nearest: at most ef nodes in the order in which they were popped.
SearchLayer(g, p, entry, level, ef) ==
  LET after[i \in 0..Len(g.nodes)] ==
        IF i = 0 THEN [pq |-> <<[id |-> entry, dist |-> Near(g, p, entry)]>>, visited |-> {entry}, out |-> <<>>]
        ELSE Expand(g, p, level, ef, after[i - 1])
  IN  after[Len(g.nodes)].out

-----------------------------------------------------------------------------
(* Changing the graph. *)

NoGraph == [there |-> FALSE]

HnswCreate == [there |-> TRUE, nodes |-> <<>>, links |-> <<>>, free |-> <<>>, count |-> 0, entry |-> 0,
               top |-> -1, capacity |-> InitialCapacity, pool |-> InitialCapacity]

MaxLinks(level) == IF level = 0 THEN 2 * M ELSE M

\* neighbor_list_add
Linked(g, links, n, level, m) ==
  IF Len(links[n][level + 1]) >= g.nodes[n].room[level + 1] THEN links
  ELSE [links EXCEPT ![n][level + 1] = Append(@, m)]

\* The place of the farthest member of a neighbour list of node n, the first one
\* among equals.
Farthest(g, n, l) ==
  LET d(i) == Near(g, g.nodes[n].vec, l[i])
      after[i \in 0..Len(l)] == IF i = 0 THEN 1 ELSE IF d(i) > d(after[i - 1]) THEN i ELSE after[i - 1]
  IN  after[Len(l)]

\* The list without its farthest member, whose place the last one takes.
WithoutFarthest(g, n, l) == Front([l EXCEPT ![Farthest(g, n, l)] = Last(l)])

\* n takes the new node `slot` for a neighbour: it has room, or drops the farthest.
LinkBack(g, links, n, slot, level) ==
  LET l == links[n][level + 1]
  IN  IF level > g.nodes[n].level THEN links
      ELSE IF Len(l) < MaxLinks(level) THEN Linked(g, links, n, level, slot)
      ELSE IF Near(g, g.nodes[n].vec, slot) < Near(g, g.nodes[n].vec, l[Farthest(g, n, l)])
      THEN Linked(g, [links EXCEPT ![n][level + 1] = WithoutFarthest(g, n, l)], n, level, slot)
      ELSE links

\* The distances to a full neighbour list's members are read, removed ones included.
ReadsUnmapped(g, links, n, level) ==
  /\ level <= g.nodes[n].level
  /\ Len(links[n][level + 1]) >= MaxLinks(level)
  /\ \E i \in DOMAIN links[n][level + 1] : ~IsMapped(g, links[n][level + 1][i])

\* The new node and the node n that was found take each other for neighbours.
Link(g, t, n, slot, level) ==
  LET links == Linked(g, t.links, slot, level, n)
  IN  IF t.dies \/ n = slot \/ t.selected >= MaxLinks(level) THEN t
      ELSE IF ReadsUnmapped(g, links, n, level) THEN [t EXCEPT !.dies = TRUE]
      ELSE [t EXCEPT !.links = LinkBack(g, links, n, slot, level), !.selected = @ + 1]

\* One level of hnsw_insert: the node is linked both ways to the first of those found.
LinkLevel(g, s, slot, level) ==
  LET found == SearchLayer([g EXCEPT !.links = s.links], g.nodes[slot].vec, s.at, level, EfConstruction)
      after[i \in 0..Len(found)] ==
        IF i = 0 THEN [links |-> s.links, dies |-> FALSE, selected |-> 0]
        ELSE Link(g, after[i - 1], found[i], slot, level)
  IN  IF s.dies THEN s
      ELSE [links |-> after[Len(found)].links, dies |-> after[Len(found)].dies,
            at |-> IF found = <<>> THEN s.at ELSE found[1]]

\* All levels that the new node and the graph share, from above.
LinkLevels(g, slot, at) ==
  LET low == Min({g.nodes[slot].level, g.top})
      after[i \in 0..(low + 1)] ==
        IF i = 0 THEN [links |-> g.links, dies |-> FALSE, at |-> at]
        ELSE LinkLevel(g, after[i - 1], slot, low - i + 1)
  IN  after[low + 1]

NewNode(id, p, level) ==
  [id |-> id, valid |-> TRUE, level |-> level, vec |-> p, room |-> [l \in 1..(level + 1) |-> MaxLinks(l - 1)]]

\* The number of vectors the pool holds after ensure_vector_pool_capacity(n).
EnsuredPool(g, n) == IF n <= g.pool THEN g.pool ELSE Max({2 * n, InitialCapacity})

\* Variant: the vectors are not found again where the larger pool lies.
FillsDangling(g) ==
  IF g.free # <<>> \/ Len(g.nodes) < g.capacity THEN {[n \in DOMAIN g.nodes |-> g.nodes[n].vec]}
  ELSE [DOMAIN g.nodes -> Points]

\* What the nodes' vectors may be after hnsw_insert has seen to its slot: the same,
\* unless the pool is allocated only now and the nodes, which are all valid, are
\* pointed into it.
Fills(g) ==
  IF g.pool > 0 \/ g.free # <<>> \/ Len(g.nodes) < g.capacity
    THEN {[n \in DOMAIN g.nodes |-> g.nodes[n].vec]}
    ELSE [DOMAIN g.nodes -> Points]

Refilled(g, f) == [g EXCEPT !.nodes = [n \in DOMAIN @ |-> [@[n] EXCEPT !.vec = f[n]]]]

\* Variant: the slot stays on the free list.
WithSlotKept(g) == g

\* Variant: no larger array.
WithSlotCramped(g) == IF g.free # <<>> THEN [g EXCEPT !.free = Front(@)] ELSE g

\* The free list without the slot that is used again, or a larger array if need be.
WithSlot(g) ==
  IF g.free # <<>> THEN [g EXCEPT !.free = Front(@)]
  ELSE IF Len(g.nodes) < g.capacity THEN g
  ELSE [g EXCEPT !.capacity = 2 * @, !.pool = EnsuredPool(g, 2 * g.capacity)]

\* The node goes where another one was removed, or behind the others.
WithNode(g, slot, node) ==
  LET links == [l \in 1..(node.level + 1) |-> <<>>]
  IN  IF slot <= Len(g.nodes)
        THEN [g EXCEPT !.nodes[slot] = node, !.links[slot] = links, !.count = @ + 1]
        ELSE [g EXCEPT !.nodes = Append(@, node), !.links = Append(@, links), !.count = @ + 1]

\* hnsw_insert with the random level and the fill f of a new pool; dies: it uses an
\* address at which there is nothing.
HnswInsert(g, id, p, level, f) ==
  LET slot == IF g.free # <<>> THEN Last(g.free) ELSE Len(g.nodes) + 1
      w    == WithSlot(Refilled(g, f))
      h    == WithNode(w, slot, NewNode(id, p, level))
      last == LinkLevels(h, slot, Descend(h, p, level))
  IN  IF w.pool = 0 THEN [g |-> g, dies |-> TRUE]
      ELSE IF h.entry = 0 THEN [g |-> [h EXCEPT !.entry = slot, !.top = level], dies |-> FALSE]
      ELSE IF ~IsMapped(h, h.entry) THEN [g |-> g, dies |-> TRUE]
      ELSE [g |-> [h EXCEPT !.links = last.links,
                            !.top = IF level > @ THEN level ELSE @,
                            !.entry = IF level > h.top THEN slot ELSE @],
            dies |-> last.dies]

Holders(g, id) == {n \in DOMAIN g.nodes : g.nodes[n].id = id /\ g.nodes[n].valid}

\* Variant: valid_count is not kept.
HnswRemoveUncounted(g, id) ==
  IF Holders(g, id) = {} THEN g
  ELSE LET n == Min(Holders(g, id))
       IN  [g EXCEPT !.nodes[n].valid = FALSE, !.free = Append(@, n)]

HnswRemove(g, id) ==
  IF Holders(g, id) = {} THEN g
  ELSE LET n == Min(Holders(g, id))
       IN  [g EXCEPT !.nodes[n].valid = FALSE, !.count = Max({@ - 1, 0}), !.free = Append(@, n)]

\* hnsw_serialize: of removed nodes only the fact and the links that others have to them.
Serialized(g) ==
  [g EXCEPT !.nodes = [n \in DOMAIN @ |-> IF @[n].valid THEN @[n] ELSE [@[n] EXCEPT !.vec = None]],
            !.links = [n \in DOMAIN @ |-> IF g.nodes[n].valid THEN @[n] ELSE <<>>]]

\* hnsw_deserialize: neighbour lists come back without room, the pool and valid_count
\* not at all.
Deserialized(g) ==
  [g EXCEPT !.nodes = [n \in DOMAIN @ |->
                         [@[n] EXCEPT !.room = [l \in DOMAIN g.links[n] |-> Len(g.links[n][l])]]],
            !.count = 0, !.capacity = Len(g.nodes), !.pool = 0]

-----------------------------------------------------------------------------
(* The array and the graph together; s holds both and whether the process  *)
(* has used an address at which there is nothing.                          *)

\* Variant: the first vector is taken for the one that gave the dimension.
BuiltButFirst(es, offsets, levels) ==
  LET after[i \in 0..Len(offsets)] ==
        IF i <= 1 THEN HnswCreate
        ELSE HnswInsert(after[i - 1], offsets[i], es[offsets[i]].point, levels[i],
                        [n \in DOMAIN after[i - 1].nodes |-> after[i - 1].nodes[n].vec]).g
  IN  after[Len(offsets)]

\* The graph of the entries es in `offsets`, inserted in that order with these levels.
Built(es, offsets, levels) ==
  LET after[i \in 0..Len(offsets)] ==
        IF i = 0 THEN HnswCreate
        ELSE HnswInsert(after[i - 1], offsets[i], es[offsets[i]].point, levels[i],
                        [n \in DOMAIN after[i - 1].nodes |-> after[i - 1].nodes[n].vec]).g
  IN  after[Len(offsets)]

\* maybe_enable_hnsw; what the graph may become.
MaybeEnabled(es, offsets, g) ==
  IF g.there \/ Len(offsets) < HnswThreshold THEN {g}
  ELSE {Built(es, offsets, levels) : levels \in [DOMAIN offsets -> 0..MaxLevel]}

\* cache_vector_index_add.
Added(es, s, o, p) ==
  IF s.graph.there
  THEN {[list |-> Append(s.list, o), graph |-> r.g, dies |-> r.dies] :
          r \in {HnswInsert(s.graph, o, p, level, f) : level \in 0..MaxLevel, f \in Fills(s.graph)}}
  ELSE {[list |-> Append(s.list, o), graph |-> g, dies |-> FALSE] : g \in MaybeEnabled(es, Append(s.list, o), s.graph)}

\* The members of a sequence that are in S, in their order.
Only(s, S) ==
  LET after[i \in 0..Len(s)] ==
        IF i = 0 THEN <<>> ELSE IF s[i] \in S THEN Append(after[i - 1], s[i]) ELSE after[i - 1]
  IN  after[Len(s)]

\* cache_vector_index_remove.
RemovedFrom(s, o) ==
  [list  |-> Only(s.list, ToSet(s.list) \ {o}),
   graph |-> IF s.graph.there THEN HnswRemove(s.graph, o) ELSE s.graph]

Both == [list |-> list, graph |-> graph]

NoImage == [there |-> FALSE]

\* The process is gone; the pool and index.bin stay.
Gone == open' = FALSE /\ list' = <<>> /\ graph' = NoGraph /\ refilled' = FALSE

Becomes(s) == list' = s.list /\ graph' = s.graph

-----------------------------------------------------------------------------
(* Searching the vectors. *)

Readable(o) == ~entries[o].deleted /\ ~entries[o].expired

Readables == {o \in DOMAIN entries : Readable(o)}

\* hnsw_search_exact: the nearest k of the valid nodes, ties in any order.
SearchExact(g, p, k) ==
  LET valid == {n \in DOMAIN g.nodes : g.nodes[n].valid}
      size  == Min({k, Cardinality(valid)})
  IN  {S \in kSubset(size, valid) : \A n \in S, m \in valid \ S : Near(g, p, n) <= Near(g, p, m)}

\* What ef_search may be: a search that asked for more left it that wide.
Widths == {EfSearch} \union {k \in Asked : k > EfSearch}

\* The approximate search of hnsw_search, from the entry point down.
SearchApprox(g, p, k, ef) ==
  LET found == SearchLayer(g, p, Descend(g, p, 0), 0, Max({ef, k}))
  IN  SubSeq(found, 1, Min({k, Len(found)}))

\* hnsw_search: the lists of ids it may return.
HnswSearch(g, p, k) ==
  LET ids(nodes) == [i \in DOMAIN nodes |-> g.nodes[nodes[i]].id]
  IN  IF g.count < HnswThreshold THEN {ids(SetToSeq(S)) : S \in SearchExact(g, p, k)}
      ELSE {ids(SearchApprox(g, p, k, ef)) : ef \in Widths}

\* cache_search_vector with the graph, up to the cut to k by the mixed score: what
\* is valid of the first 2 * k.
Candidates(p, k) ==
  IF list = <<>> THEN {<<>>}
  ELSE IF graph.there THEN {Only(ids, Readables) : ids \in HnswSearch(graph, p, 2 * k)}
  ELSE {Only(list, Readables)}

-----------------------------------------------------------------------------

Init ==
  /\ entries = <<>>
  /\ list = <<>>
  /\ graph = NoGraph
  /\ image = NoImage
  /\ open = FALSE
  /\ sessions = 0
  /\ refilled = FALSE

\* cache_open: what index.bin holds, or a new array of what is found in the pool.
Open ==
  /\ ~open
  /\ sessions < MaxSessions
  /\ open' = TRUE
  /\ sessions' = sessions + 1
  /\ IF image.there /\ image.list # <<>>
       THEN /\ list' = image.list
            /\ refilled' = image.refilled
            /\ graph' = IF image.graph.there THEN Deserialized(image.graph) ELSE NoGraph
       ELSE /\ list' = Only([o \in DOMAIN entries |-> o], Readables)
            /\ graph' \in MaybeEnabled(entries, list', NoGraph)
            /\ UNCHANGED refilled
  /\ UNCHANGED <<entries, image>>

\* cache_set_vector for a new key (old = 0) or over the entry `old`.
SetVector(old, p) ==
  /\ open
  /\ Len(entries) < PoolMax
  /\ LET o    == Len(entries) + 1
         kept == IF old = 0 THEN entries ELSE [entries EXCEPT ![old].deleted = TRUE]
     IN  /\ entries' = Append(kept, [point |-> p, expired |-> FALSE, deleted |-> FALSE])
         /\ \E s \in Added(entries', IF old = 0 THEN Both ELSE RemovedFrom(Both, old), o, p) :
              IF s.dies THEN Gone
              ELSE /\ Becomes(s)
                   /\ UNCHANGED open
                   /\ refilled' = (refilled \/ (graph.there /\ graph.pool = 0))
  /\ UNCHANGED <<image, sessions>>

\* cache_del, or an eviction.
Del(o) ==
  /\ open
  /\ Readable(o)
  /\ entries' = [entries EXCEPT ![o].deleted = TRUE]
  /\ Becomes(RemovedFrom(Both, o))
  /\ UNCHANGED <<image, open, sessions, refilled>>

\* The time of an entry runs out: it stays in the array and in the graph.
RunOut(o) ==
  /\ open
  /\ Readable(o)
  /\ Cardinality({e \in DOMAIN entries : entries[e].expired}) < MaxExpired
  /\ entries' = [entries EXCEPT ![o].expired = TRUE]
  /\ UNCHANGED <<list, graph, image, open, sessions, refilled>>

\* cache_close, which writes index.bin.
Close ==
  /\ open
  /\ image' = [there |-> TRUE, list |-> list, graph |-> IF graph.there THEN Serialized(graph) ELSE NoGraph,
               refilled |-> refilled]
  /\ Gone
  /\ UNCHANGED <<entries, sessions>>

\* The process dies, or cannot write index.bin when it closes the cache.
Kill ==
  /\ open
  /\ Gone
  /\ UNCHANGED <<entries, image, sessions>>

Next ==
  \/ Open \/ Close \/ Kill
  \/ \E p \in Points : \E old \in {0} \union ToSet(list) : SetVector(old, p)
  \/ \E o \in ToSet(list) : Del(o)
  \/ \E o \in DOMAIN entries : RunOut(o)

Spec == Init /\ [][Next]_vars

-----------------------------------------------------------------------------
(* Properties. *)

Valid(g) == {n \in DOMAIN g.nodes : g.nodes[n].valid}

\* The array holds entries that were written; the graph's links, free list and entry
\* point are slots of its nodes, and no list is longer than its level allows.
TypeOK ==
  /\ entries \in Seq([point : Points, expired : BOOLEAN, deleted : BOOLEAN])
  /\ ToSet(list) \subseteq DOMAIN entries
  /\ {open, refilled} \subseteq BOOLEAN /\ sessions \in 0..MaxSessions
  /\ graph.there =>
       /\ graph.entry \in DOMAIN graph.nodes /\ ToSet(graph.free) \subseteq DOMAIN graph.nodes
       /\ Len(graph.nodes) <= graph.capacity
       /\ \A n \in DOMAIN graph.nodes : \A l \in DOMAIN graph.links[n] :
            /\ ToSet(graph.links[n][l]) \subseteq DOMAIN graph.nodes
            /\ Len(graph.links[n][l]) <= MaxLinks(l - 1)

\* A slot is on the free list exactly when its node is removed, and once, over any
\* order of removals, reuses and sessions: no insertion overwrites a live node.
FreeSlotsUnused ==
  graph.there => /\ IsInjective(graph.free)
                 /\ ToSet(graph.free) = DOMAIN graph.nodes \ Valid(graph)

\* The graph holds the members of the array, each in one node.
GraphHoldsList ==
  graph.there =>
    /\ {graph.nodes[n].id : n \in Valid(graph)} = ToSet(list)
    /\ Cardinality(Valid(graph)) = Len(list) /\ IsInjective(list)

\* valid_count never exceeds the live nodes, so that few vectors are always searched
\* exactly; it is exact in a session that built its graph itself.
CountNeverTooHigh ==
  graph.there => /\ graph.count <= Cardinality(Valid(graph))
                 /\ sessions = 1 => graph.count = Cardinality(Valid(graph))

\* A search returns readable entries of the array only, none twice, from the graph or
\* without it, although the graph's entry point may be a removed node; with fewer
\* vectors than the threshold and none expired, it returns as many as there are and
\* are asked for.
SearchSound ==
  open =>
    \A p \in Points, k \in Asked : \A found \in Candidates(p, k) :
      /\ IsInjective(found)
      /\ \A o \in ToSet(found) : o \in ToSet(list) /\ Readable(o)
      /\ (Len(list) < HnswThreshold /\ \A o \in ToSet(list) : Readable(o)) =>
           Len(found) >= Min({k, Len(list)})

\* A live node's vector is the one its entry was stored with, over reuse of slots,
\* growth of the pool and reopening, until a graph that was read from index.bin grows.
VectorsAsStored ==
  (graph.there /\ ~refilled) =>
    \A n \in Valid(graph) : graph.nodes[n].vec = entries[graph.nodes[n].id].point

\* "Return the k results most similar" (cache_hnsw.h): asked for as many as there
\* are, hnsw_search returns every vector.
AllWithinReach ==
  (open /\ graph.there /\ sessions = 1) =>
    \A p \in Points : \A ids \in HnswSearch(graph, p, Len(graph.nodes)) :
      {graph.nodes[n].id : n \in Valid(graph)} \subseteq ToSet(ids)
=============================================================================
