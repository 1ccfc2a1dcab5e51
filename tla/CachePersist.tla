---------------------------- MODULE CachePersist ----------------------------
(***************************************************************************)
(* The cache directory over many sessions: cache.bin, which is mapped      *)
(* shared and so survives a killed process as it stands, index.bin, which  *)
(* is written by cache_sync and cache_close and believed by cache_open,    *)
(* and the hash index between them: its nodes lie in cache.bin, the array  *)
(* of its buckets is copied to index.bin.                                  *)
(*                                                                         *)
(* Entries and nodes are named by their place in the pool, 0 standing for  *)
(* "no offset"; every entry has the size one, none is permanent and none   *)
(* runs out of time (CacheStore has these), and no key has a namespace, so  *)
(* that the root holds every offset.  The hot cache is empty after          *)
(* cache_open and the tag index is not read here.                          *)
(***************************************************************************)
EXTENDS Integers, Sequences, FiniteSets, FiniteSetsExt

CONSTANTS
  Keys,            \* the keys an entry may have
  Nameless,        \* one no caller has: the bytes of a key that was not written to its end
  HashOf,          \* hash_fnv1a of each
  InitialBuckets,  \* bucket_count after cache_hash_init
  MaxBuckets,      \* buckets beyond which hash_resize finds no room
  MaxMemory,       \* memory_max
  Word,            \* 2 to the width of size_t
  PoolMax,         \* bound on the entries ever written
  MaxSessions      \* bound on the calls of cache_open

ASSUME PersistAssumption ==
  /\ HashOf \in [Keys -> Nat] /\ Nameless \in Keys
  /\ {InitialBuckets, MaxBuckets, MaxMemory, PoolMax, MaxSessions} \subseteq Nat
  /\ 0 < InitialBuckets /\ InitialBuckets <= MaxBuckets
  /\ Word \in Nat /\ Word > MaxMemory + PoolMax

VARIABLES
  cache,     \* what is mapped or in memory
  open,      \* a session has the directory open
  header,    \* entry_count in the header of cache.bin
  index,     \* index.bin
  sessions,  \* calls of cache_open so far; 0: there is no directory yet
  latest,    \* history: the entry of the last store of each key that took effect
  dirty,     \* history: keys whose entries changed since index.bin was last written
  grown,     \* history: the bucket array was doubled since then
  lost,      \* history: keys at risk since a session ended without writing index.bin
  torn,      \* history: keys whose entry a kill left half written
  uncounted  \* history: a kill left another entry_count in the header than there are entries

vars == <<cache, open, header, index, sessions, latest, dirty, grown, lost, torn, uncounted>>

-----------------------------------------------------------------------------
(* The hash index. *)

Wrap(n) == (n + Word) % Word

Buckets(heads) == Cardinality(DOMAIN heads)

BucketOf(k, heads) == HashOf[k] % Buckets(heads)

NoHeads(n) == [b \in 0..(n - 1) |-> 0]

HashInit == NoHeads(InitialBuckets)

KeyAt(c, n) == c.pool[c.nodes[n].entry].key

\* The nodes met from `first` on; one more than there are when the chain has a loop.
Chain(nodes, first) ==
  LET at[i \in 0..Len(nodes)] ==
        IF i = 0 THEN first
        ELSE IF at[i - 1] = 0 THEN 0 ELSE nodes[at[i - 1]].next
      length == Min({i \in 0..Len(nodes) : at[i] = 0} \union {Len(nodes) + 1})
  IN  [i \in 1..length |-> at[i - 1]]

ChainOf(c, k) ==
  IF Buckets(c.heads) = 0 THEN <<>> ELSE Chain(c.nodes, c.heads[BucketOf(k, c.heads)])

\* The first place in the chain whose node has the key; 0 when there is none.
PlaceOf(c, k) ==
  LET ch    == ChainOf(c, k)
      there == {i \in DOMAIN ch : KeyAt(c, ch[i]) = k}
  IN  IF there = {} THEN 0 ELSE Min(there)

HashLookup(c, k) ==
  IF PlaceOf(c, k) = 0 THEN 0 ELSE c.nodes[ChainOf(c, k)[PlaceOf(c, k)]].entry

\* Make `node` follow the i-th node of the chain of k, or head it when i = 0.
LinkAfter(c, k, i, node) ==
  IF i = 0 THEN [c EXCEPT !.heads[BucketOf(k, c.heads)] = node]
           ELSE [c EXCEPT !.nodes[ChainOf(c, k)[i]].next = node]

\* Variant: the rest of the chain goes with the node.
HashRemoveTail(c, k) ==
  LET i == PlaceOf(c, k)
  IN  IF i = 0 THEN c ELSE [LinkAfter(c, k, i - 1, 0) EXCEPT !.size = Wrap(@ - 1)]

HashRemove(c, k) ==
  LET i == PlaceOf(c, k)
  IN  IF i = 0 THEN c
      ELSE [LinkAfter(c, k, i - 1, c.nodes[ChainOf(c, k)[i]].next) EXCEPT !.size = Wrap(@ - 1)]

NewBucket(c, n) == HashOf[KeyAt(c, n)] % (2 * Buckets(c.heads))

\* What follows the place i of an old chain among the nodes that go to the bucket b of
\* an array of twice the size: the first of them when i = 0, and 0 when there is none.
NextDealt(c, b, i) ==
  LET ch    == Chain(c.nodes, c.heads[b % Buckets(c.heads)])
      later == {j \in DOMAIN ch : j > i /\ NewBucket(c, ch[j]) = b}
  IN  IF later = {} THEN 0 ELSE ch[Min(later)]

\* The places of the node n in the chain of its bucket: none when no bucket leads to it.
PlacesOf(c, n) ==
  LET ch == Chain(c.nodes, c.heads[NewBucket(c, n) % Buckets(c.heads)])
  IN  {i \in DOMAIN ch : ch[i] = n}

\* Variant: the last node of a new chain keeps its old successor.
RelinkedUncut(c, n) ==
  LET next == IF PlacesOf(c, n) = {} THEN 0 ELSE NextDealt(c, NewBucket(c, n), Min(PlacesOf(c, n)))
  IN  IF next = 0 THEN c.nodes[n].next ELSE next

\* The successor of the node n in the new array.
Relinked(c, n) ==
  IF PlacesOf(c, n) = {} THEN c.nodes[n].next ELSE NextDealt(c, NewBucket(c, n), Min(PlacesOf(c, n)))

\* hash_resize: a bucket's nodes, in their order, are dealt out to the two buckets
\* of the new array that come from it.
Resized(c) ==
  [c EXCEPT !.heads = [b \in 0..(2 * Buckets(c.heads) - 1) |-> NextDealt(c, b, 0)],
            !.nodes = [n \in DOMAIN c.nodes |-> [c.nodes[n] EXCEPT !.next = Relinked(c, n)]]]

\* What cache.bin holds when hash_resize has come to the place j of the bucket b, whose
\* node is in its new chain already; cut: its old successor has been taken from it.
HalfRelinked(c, n, b, j, cut) ==
  LET first == NewBucket(c, n) % Buckets(c.heads)
      place == Min(PlacesOf(c, n))
      next  == Relinked(c, n)
      ahead == first = b /\ next # 0 /\ Min(PlacesOf(c, next)) > j
  IN  IF PlacesOf(c, n) = {} \/ first > b \/ (first = b /\ (place > j \/ (place = j /\ ~cut)))
      THEN c.nodes[n].next
      ELSE IF ahead THEN 0 ELSE next

HalfResized(c) ==
  {[c EXCEPT !.nodes = [n \in DOMAIN c.nodes |-> [c.nodes[n] EXCEPT !.next = HalfRelinked(c, n, b, j, cut)]]] :
     b \in DOMAIN c.heads, j \in 0..Len(c.nodes), cut \in BOOLEAN}

IsLoaded(c) == c.size > 0 /\ c.size >= (Buckets(c.heads) * 3) \div 4

Resizes(c) == IsLoaded(c) /\ 2 * Buckets(c.heads) <= MaxBuckets

HashInsert(c, k, o) ==
  LET h == IF Buckets(c.heads) = 0 THEN [c EXCEPT !.heads = HashInit] ELSE c
      r == IF Resizes(h) THEN Resized(h) ELSE h
      i == PlaceOf(r, k)
      a == [r EXCEPT !.nodes = Append(@, [entry |-> o, next |-> 0]), !.size = Wrap(@ + 1)]
  IN  IF i # 0 THEN [r EXCEPT !.nodes[ChainOf(r, k)[i]].entry = o]
               ELSE LinkAfter(a, k, Len(ChainOf(r, k)), Len(a.nodes))

-----------------------------------------------------------------------------
(* Storing and deleting. *)

Undeleted(c) == {o \in DOMAIN c.pool : ~c.pool[o].deleted}

Find(c, k) ==
  LET o == HashLookup(c, k) IN IF o # 0 /\ o \in Undeleted(c) THEN o ELSE 0

\* A list that is searched by key loses one of its offsets with that key.
ByKeyWithout(c, list, k) ==
  LET there == {o \in list : c.pool[o].key = k}
  IN  IF there = {} THEN {list} ELSE {list \ {o} : o \in there}

Fits(c) == (c.mem + 1) % Word <= MaxMemory

\* The entry o has its flag, and is still in the index.
Flagged(c, o) == [c EXCEPT !.pool[o].deleted = TRUE, !.count = Wrap(@ - 1), !.mem = Wrap(@ - 1)]

\* The entry o goes: flag, counters, hash and namespace by key.
Dropped(c, o) ==
  LET k == c.pool[o].key
      d == HashRemove(Flagged(c, o), k)
  IN  {[d EXCEPT !.names = N] : N \in ByKeyWithout(c, c.names, k)}

\* ... and the sorted array, outside eviction.
Removed(c, o) ==
  UNION {{[d EXCEPT !.sorted = L] : L \in ByKeyWithout(c, c.sorted, c.pool[o].key)} : d \in Dropped(c, o)}

\* Eviction collects at most entry_count candidates and takes them, whatever their
\* access times, one by one until the new entry fits: where it may be after n of them.
EvictedSoFar(c) ==
  LET room  == Min({c.count, Cardinality(Undeleted(c))})
      after[n \in 0..Len(c.pool)] ==
        IF n = 0 THEN {[c |-> c, left |-> C] : C \in {C \in SUBSET Undeleted(c) : Cardinality(C) = room}}
        ELSE UNION {IF Fits(r.c) \/ r.left = {} THEN {r}
                    ELSE {[c |-> d[2], left |-> r.left \ {d[1]}] :
                            d \in UNION {{o} \X Dropped(r.c, o) : o \in r.left}}
                    : r \in after[n - 1]}
  IN  after

Evicted(c) ==
  IF Fits(c) THEN {c}
  ELSE {[r.c EXCEPT !.sorted = IF r.c = c THEN @ ELSE @ \intersect Undeleted(r.c)] :
          r \in EvictedSoFar(c)[Len(c.pool)]}

\* The entry the store replaces goes first.
Replaced(c, k) ==
  LET o == HashLookup(c, k) IN IF o # 0 /\ o \in Undeleted(c) THEN Removed(c, o) ELSE {c}

Appended(c, k) == [c EXCEPT !.pool = Append(@, [key |-> k, deleted |-> FALSE])]

Stored(c, k) ==
  LET o == Len(c.pool) + 1
      a == [Appended(c, k) EXCEPT !.count = Wrap(@ + 1), !.mem = Wrap(@ + 1)]
  IN  [HashInsert(a, k, o) EXCEPT !.sorted = @ \union {o},
                                  !.names  = IF c.tree THEN @ \union {o} ELSE @]

\* Between two evictions, or inside one.
InEviction(c) ==
  IF Fits(c) THEN {}
  ELSE UNION {{r.c} \union (IF Fits(r.c) THEN {} ELSE {Flagged(r.c, o) : o \in r.left}) :
                r \in UNION {EvictedSoFar(c)[n] : n \in 0..Len(c.pool)}}

\* cache_set before the first byte of the new entry is written.
InSet(c, k) ==
  InEviction(c) \union
  UNION {Replaced(e, k) \union (IF Find(e, k) = 0 THEN {} ELSE {Flagged(e, Find(e, k))}) :
           e \in {e \in Evicted(c) : Fits(e)}}

-----------------------------------------------------------------------------
(* Files. *)

NoIndex == [saved |-> FALSE]

WriteHashIndex(c) == [heads |-> c.heads, size |-> c.size]

WriteNsIndex(c) == [tree |-> c.tree, names |-> c.names]

Image(c) == [saved |-> TRUE, hash |-> WriteHashIndex(c), sorted |-> c.sorted, ns |-> WriteNsIndex(c)]

\* calculate_index_size finds nothing: a rebuild that met no entry, and no store since.
NothingToSave(c) == Buckets(c.heads) = 0 /\ c.sorted = {} /\ ~c.tree

\* cache_index_save in the state c: index.bin is replaced by one whole new file, or not.
SaveIndex(c) ==
  IF NothingToSave(c) THEN UNCHANGED <<index, dirty, grown>>
  ELSE index' = Image(c) /\ dirty' = {} /\ grown' = FALSE

\* What is left of the mapped and allocated state when no process has it.
Off(c) == [c EXCEPT !.heads = NoHeads(0), !.size = 0, !.sorted = {}, !.tree = FALSE,
                    !.names = {}, !.count = 0, !.mem = 0]

Empty == [pool |-> <<>>, nodes |-> <<>>, heads |-> HashInit, size |-> 0,
          sorted |-> {}, tree |-> TRUE, names |-> {}, count |-> 0, mem |-> 0]

\* cache_open with an index.bin: memory_used stays as calloc left it.
Loaded(c) == [c EXCEPT !.heads = index.hash.heads, !.size = index.hash.size, !.sorted = index.sorted,
                       !.tree = index.ns.tree, !.names = index.ns.names, !.count = header, !.mem = 0]

\* Variant: the rebuild forgets the sorted array.
RebuiltUnsorted(c) ==
  LET after[j \in 0..Len(c.pool)] ==
        IF j = 0 THEN c
        ELSE IF j \in Undeleted(c) THEN HashInsert(after[j - 1], c.pool[j].key, j) ELSE after[j - 1]
  IN  [after[Len(c.pool)] EXCEPT !.count = Cardinality(Undeleted(c)), !.mem = Cardinality(Undeleted(c))]

\* cache_open without one: cache_index_load has freed the namespace tree already.
Rebuilt(c) ==
  LET after[j \in 0..Len(c.pool)] ==
        IF j = 0 THEN c
        ELSE IF j \in Undeleted(c) THEN HashInsert(after[j - 1], c.pool[j].key, j) ELSE after[j - 1]
  IN  [after[Len(c.pool)] EXCEPT !.sorted = Undeleted(c), !.tree = FALSE, !.names = {},
                                 !.count = Cardinality(Undeleted(c)), !.mem = Cardinality(Undeleted(c))]

-----------------------------------------------------------------------------
(* The histories. *)

\* The keys with an entry that came or went in a step from c to d.
Changed(c, d) ==
  {d.pool[o].key : o \in (Undeleted(c) \ Undeleted(d)) \union (Undeleted(d) \ Undeleted(c))}

\* Keys the array of buckets in index.bin does not lead to any more: the changed ones,
\* and any other, changed or not, once hash_resize has relinked the nodes.
AtRisk == IF grown THEN Keys ELSE dirty

LostWith(keys) == IF index.saved THEN lost \union keys ELSE lost

\* A call that left the session open.
Noted ==
  /\ dirty' = dirty \union Changed(cache, cache')
  /\ grown' = (grown \/ Buckets(cache'.heads) # Buckets(cache.heads))
  /\ torn' = torn \ Changed(cache, cache')
  /\ UNCHANGED <<lost, uncounted>>

\* The process dies in the state c; half: the key of an entry that is half written.
Dies(c, half, resizing) ==
  /\ open' = FALSE
  /\ cache' = Off(c)
  /\ dirty' = dirty \union Changed(cache, c)
  /\ grown' = (grown \/ resizing)
  /\ lost' = LostWith(AtRisk') \union (half \intersect {Nameless})
  /\ torn' = (torn \ Changed(cache, c)) \union half
  /\ uncounted' = (header # Cardinality(Undeleted(c)))
  /\ UNCHANGED <<header, index, sessions>>

Init ==
  /\ cache = Off(Empty)
  /\ open = FALSE
  /\ header = 0
  /\ index = NoIndex
  /\ sessions = 0
  /\ latest = [k \in Keys |-> 0]
  /\ dirty = {}
  /\ grown = FALSE
  /\ lost = {}
  /\ torn = {}
  /\ uncounted = FALSE

Open ==
  /\ ~open
  /\ sessions < MaxSessions
  /\ sessions' = sessions + 1
  /\ open' = TRUE
  /\ cache' = IF sessions = 0 THEN Empty ELSE IF index.saved THEN Loaded(cache) ELSE Rebuilt(cache)
  /\ uncounted' = (index.saved /\ uncounted)
  /\ UNCHANGED <<header, index, latest, dirty, grown, lost, torn>>

Set(k) ==
  /\ open
  /\ Len(cache.pool) < PoolMax
  /\ \E e \in Evicted(cache) :
       IF ~Fits(e) THEN cache' = e /\ UNCHANGED latest
       ELSE \E r \in Replaced(e, k) : /\ cache' = Stored(r, k)
                                      /\ latest' = [latest EXCEPT ![k] = Len(r.pool) + 1]
  /\ Noted
  /\ UNCHANGED <<open, header, index, sessions>>

Del(k) ==
  /\ open
  /\ Find(cache, k) # 0
  /\ cache' \in Removed(cache, Find(cache, k))
  /\ latest' = [latest EXCEPT ![k] = 0]
  /\ Noted
  /\ UNCHANGED <<open, header, index, sessions>>

\* cache_sync; cache_index_save may fail, and nobody is told.
Sync ==
  /\ open
  /\ header' = cache.count
  /\ SaveIndex(cache) \/ UNCHANGED <<index, dirty, grown>>
  /\ UNCHANGED <<cache, open, sessions, latest, lost, torn, uncounted>>

\* Variant: the header is left as the last cache_sync wrote it.
CloseHeaderless ==
  /\ open
  /\ open' = FALSE
  /\ UNCHANGED header
  /\ cache' = Off(cache)
  /\ \/ SaveIndex(cache) /\ UNCHANGED lost
     \/ lost' = LostWith(AtRisk) /\ UNCHANGED <<index, dirty, grown>>
  /\ UNCHANGED <<sessions, latest, torn, uncounted>>

\* cache_close: index.bin, which may fail, then the header.
Close ==
  /\ open
  /\ open' = FALSE
  /\ header' = cache.count
  /\ cache' = Off(cache)
  /\ \/ SaveIndex(cache) /\ UNCHANGED lost
     \/ lost' = LostWith(AtRisk) /\ UNCHANGED <<index, dirty, grown>>
  /\ UNCHANGED <<sessions, latest, torn, uncounted>>

\* The process dies between the two ...
KillInClose ==
  /\ open
  /\ ~NothingToSave(cache)
  /\ open' = FALSE
  /\ cache' = Off(cache)
  /\ SaveIndex(cache)
  /\ uncounted' = (header # Cardinality(Undeleted(cache)))
  /\ UNCHANGED <<header, sessions, latest, lost, torn>>

\* ... or between two calls; between the header and index.bin of cache_sync it dies
\* like a session whose cache_sync could not write index.bin.
Kill ==
  /\ open
  /\ Dies(cache, {}, FALSE)
  /\ UNCHANGED latest

\* cache_set makes room, takes the old entry out and allocates the new one ...
KillInSet(k) ==
  /\ open
  /\ Len(cache.pool) < PoolMax
  /\ \E c \in InSet(cache, k) : Dies(c, {}, FALSE)
  /\ UNCHANGED latest

\* ... writes the lengths and then the key, the bytes in between being zero ...
KillInHeader(k) ==
  /\ open
  /\ Len(cache.pool) < PoolMax
  /\ \E e \in {e \in Evicted(cache) : Fits(e)} :
       \E r \in Replaced(e, k) : Dies(Appended(r, Nameless), {Nameless}, FALSE)
  /\ UNCHANGED latest

\* ... writes the value, and relinks the nodes when the new entry needs a larger array.
KillInValue(k) ==
  /\ open
  /\ Len(cache.pool) < PoolMax
  /\ \E e \in {e \in Evicted(cache) : Fits(e)} :
       \E r \in Replaced(e, k) :
         /\ latest' = [latest EXCEPT ![k] = Len(r.pool) + 1]
         /\ \/ \E half \in SUBSET {k} : Dies(Appended(r, k), half, FALSE)
            \/ /\ Resizes(Appended(r, k))
               /\ \E c \in HalfResized(Appended(r, k)) : Dies(c, {}, TRUE)

\* cache_del has set the flag.
KillInDel(k) ==
  /\ open
  /\ Find(cache, k) # 0
  /\ Dies(Flagged(cache, Find(cache, k)), {}, FALSE)
  /\ UNCHANGED latest

Next ==
  \/ Open \/ Sync \/ Close \/ Kill \/ KillInClose
  \/ \E k \in Keys \ {Nameless} :
       \/ Set(k) \/ Del(k)
       \/ KillInSet(k) \/ KillInHeader(k) \/ KillInValue(k) \/ KillInDel(k)

Spec == Init /\ [][Next]_vars

-----------------------------------------------------------------------------
(* Properties. *)

Expected(k) == IF latest[k] # 0 /\ latest[k] \in Undeleted(cache) THEN latest[k] ELSE 0

\* A key is read back as it was last stored, in this session and in later ones, over
\* any number of kills, wherever they fall, and of failed saves.  At risk are only the
\* keys changed after the last save of index.bin, unless the array of buckets was doubled
\* after it (then all are, those that were saved and never changed included), and the key
\* whose value was being written.  While there is no index.bin, only that one is.
ReadsKept == open => \A k \in Keys \ (lost \union torn) : Find(cache, k) = Expected(k)

\* What can be read by its key is also in the sorted array, and in the namespace tree
\* unless a rebuild has left the cache without one.
ListedKept ==
  open => \A k \in Keys \ lost :
            LET o == Find(cache, k)
            IN  o # 0 => o \in cache.sorted /\ (cache.tree => o \in cache.names)

\* The nodes the buckets lead to.
Linked(c) ==
  {n \in DOMAIN c.nodes : \E b \in DOMAIN c.heads :
     LET ch == Chain(c.nodes, c.heads[b]) IN \E i \in DOMAIN ch : ch[i] = n}

\* hash.size is the number of nodes the buckets lead to as long as no key is at risk,
\* and entry_count the number of entries, unless a kill left another number in the header
\* and cache_open took it from there.
CountersKept ==
  open => /\ lost = {} => cache.size = Cardinality(Linked(cache))
          /\ ~uncounted => cache.count = Cardinality(Undeleted(cache))

\* Every chain ends and holds only keys of its bucket, whatever mixture of an old
\* bucket array and newer nodes a session starts from: a lookup always returns.
ChainsSound ==
  \A b \in DOMAIN cache.heads :
    LET ch == Chain(cache.nodes, cache.heads[b])
    IN  /\ Len(ch) <= Len(cache.nodes)
        /\ \A i \in DOMAIN ch : HashOf[KeyAt(cache, ch[i])] % Buckets(cache.heads) = b
=============================================================================
