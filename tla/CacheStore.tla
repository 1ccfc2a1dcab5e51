----------------------------- MODULE CacheStore -----------------------------
(***************************************************************************)
(* The key/value store of src/src/cache/cache.c during one session: the    *)
(* append-only pool of entries, the hash index, the sorted array, the      *)
(* namespace and tag lists, the hot cache, the counters, and every call    *)
(* that changes them.  `cache` is the C struct cache_t.                    *)
(*                                                                         *)
(* An entry is named by its place in the pool, 0 standing for "no offset". *)
(* What a value says never matters here, so an entry keeps only its size.  *)
(* The permanent flag is expire_at = 0: cache_set writes both together.    *)
(* Keys sit at most one namespace deep, every value carries a tag, the 64- *)
(* bit hashes do not collide, and no entry has a vector.  The order inside *)
(* the lists belongs to sorted_array.c; here each is the set it holds.     *)
(***************************************************************************)
EXTENDS Naturals, Sequences, FiniteSets, FiniteSetsExt

CONSTANTS
  Keys,          \* the keys the callers use
  Group,         \* the keys of the one namespace cache_del_namespace is called for
  Sizes,         \* the sizes an entry can have (aligned_size)
  TTLs,          \* the ttl_ms the callers pass; 0 is "permanent"
  MaxMemory,     \* memory_max
  HotSize,       \* CACHE_HOT_SIZE
  PoolMax,       \* entries that fit in the file before the disk is full
  MaxNow,        \* bound on the millisecond clock
  CallsPerMs,    \* calls that look a key up within one millisecond
  MaxCandidates, \* MAX_EVICT_CANDIDATES
  Careful        \* TRUE: a batch has only new, distinct keys, and room on disk

ASSUME CacheAssumption ==
  /\ Group \subseteq Keys
  /\ Sizes \subseteq Nat \ {0}
  /\ TTLs \subseteq Nat
  /\ {MaxMemory, HotSize, PoolMax, MaxNow, CallsPerMs} \subseteq Nat
  /\ HotSize > 0 /\ MaxNow > 0 /\ MaxCandidates \in Nat \ {0}
  /\ Careful \in BOOLEAN

VARIABLES
  cache,    \* the struct
  now,      \* cache_now_ms
  calls,    \* look-ups since the clock last moved
  hung,     \* a call has not returned and never will
  latest    \* history: the entry of the last store of a key that was reported a success

vars == <<cache, now, calls, hung, latest>>

-----------------------------------------------------------------------------
(* Entries and what can be read of them. *)

Offsets == 0..PoolMax

Undeleted(c) == {o \in DOMAIN c.pool : ~c.pool[o].deleted}

Expired(e, t) == e.expire > 0 /\ e.expire < t

Readable(c, o, t) == ~c.pool[o].deleted /\ ~Expired(c.pool[o], t)

Bytes(c, S) == MapThenSumSet(LAMBDA o : c.pool[o].size, S)

OfKey(c, S, k) == {o \in S : c.pool[o].key = k}

\* What the hot cache answers for a key; it skips what is deleted or expired.
HotHits(c, k, t) ==
  {h \in c.hot : h.key = k /\ Readable(c, h.at, t)}

\* The entry cache_get and cache_find_entry come to: hot cache, then hash index.
Find(c, k, t) ==
  LET o == IF HotHits(c, k, t) # {}
             THEN (CHOOSE h \in HotHits(c, k, t) : TRUE).at
             ELSE c.hash[k]
  IN  IF o # 0 /\ Readable(c, o, t) THEN o ELSE 0

-----------------------------------------------------------------------------
(* The hot cache. *)

\* hot_cache_invalidate of some keys.
Cooled(c, K) ==
  LET kept == {h \in c.hot : h.key \notin K}
  IN  [c EXCEPT !.hot = kept, !.hotCount = Cardinality(kept)]

\* hot_cache_update.  A full table gives up its oldest slot; when every slot was
\* used in this very millisecond no slot is older than `now`, the index stays one
\* past the array, and the three words written there are hot_count, entry_count
\* and deleted_count: a hash (some number above HotSize), an offset, a time.
OffsetOf(o) == 1000 + o

Heated(c, k, o, t) ==
  LET slot  == [key |-> k, at |-> o, used |-> t]
      mine  == {h \in c.hot : h.key = k}
      older == {h \in c.hot : h.used < t}
      oldest == {h \in older : \A g \in older : h.used <= g.used}
  IN  IF mine # {}
        THEN {[c EXCEPT !.hot = (@ \ mine) \union {slot}]}
      ELSE IF c.hotCount < HotSize
        THEN {[c EXCEPT !.hot = @ \union {slot}, !.hotCount = @ + 1]}
      ELSE IF older # {}
        THEN {[c EXCEPT !.hot = (@ \ {h}) \union {slot}] : h \in oldest}
      ELSE {[c EXCEPT !.hotCount = HotSize + 1, !.count = OffsetOf(o)]}

\* hot_cache_lookup marks the slot it answers from as just used.
Warmed(c, k, t) ==
  [c EXCEPT !.hot = {IF h \in HotHits(c, k, t) THEN [h EXCEPT !.used = t] ELSE h : h \in c.hot}]

-----------------------------------------------------------------------------
(* Deleting, evicting and storing, as functions of the struct. *)

\* Variant: the flag without entry_count--.
MarkedUncounted(c, D) ==
  [c EXCEPT !.pool = [o \in DOMAIN @ |-> IF o \in D THEN [@[o] EXCEPT !.deleted = TRUE] ELSE @[o]]]

Marked(c, D) ==
  [c EXCEPT !.pool = [o \in DOMAIN @ |-> IF o \in D THEN [@[o] EXCEPT !.deleted = TRUE] ELSE @[o]],
            !.count = @ - Cardinality(D)]

\* The lists that are searched by key lose one offset with that key for each
\* entry of D: not always the offset of the entry itself.
ByKeyWithout(c, list, D) ==
  {L \in SUBSET list :
     \A k \in Keys : LET there == Cardinality(OfKey(c, list, k))
                         asked == Cardinality(OfKey(c, D, k))
                     IN  Cardinality(OfKey(c, L, k)) = IF asked > there THEN 0 ELSE there - asked}

KeysOf(c, D) == {c.pool[o].key : o \in D}

\* What eviction, an update and cache_del share: flag, counters, hash by key,
\* namespace by key, tags by offset, hot cache by key.
Unindexed(c, D) ==
  LET K == KeysOf(c, D)
      m == Cooled([Marked(c, D) EXCEPT !.mem  = @ - Bytes(c, D),
                                       !.hash = [k \in Keys |-> IF k \in K THEN 0 ELSE @[k]],
                                       !.tags = @ \ D], K)
  IN  {[m EXCEPT !.names = N] : N \in ByKeyWithout(c, c.names, D)}

\* ... followed, outside eviction, by cache_sorted_remove.
Removed(c, D) ==
  UNION {{[u EXCEPT !.sorted = L] : L \in ByKeyWithout(c, c.sorted, D)} : u \in Unindexed(c, D)}

\* Variant: the limit compared before the new entry is added.
FitsAlready(c, need) == c.mem <= MaxMemory

Fits(c, need) == c.mem + need <= MaxMemory

\* Variant: without the test of CACHE_ENTRY_PERMANENT.
EvictableAny(c) == Undeleted(c)

Evictable(c) == {o \in Undeleted(c) : c.pool[o].expire # 0}

\* The candidates cache_set has room for: the first ones of the pool, and in the last
\* place the oldest of all others, the first of them when several are as old.
Candidates(c) ==
  LET all      == Evictable(c)
      ahead(o) == Cardinality({p \in all : p < o})
      rest     == {o \in all : ahead(o) >= MaxCandidates - 1}
      older(o, p) == \/ c.pool[o].access < c.pool[p].access
                     \/ c.pool[o].access = c.pool[p].access /\ o <= p
  IN  {o \in all : o \in rest => \A p \in rest : older(o, p)}

\* The sets an eviction loop can take of its candidates: oldest first, and no further
\* than needed.
Victims(c, need, candidates) ==
  LET enough(E) == c.mem - Bytes(c, E) + need <= MaxMemory
  IN  IF Fits(c, need) THEN {{}}
      ELSE {E \in SUBSET candidates :
              /\ \A o \in E, p \in candidates \ E : c.pool[o].access <= c.pool[p].access
              /\ enough(E) \/ E = candidates
              /\ E # {} => \E last \in E : /\ ~enough(E \ {last})
                                           /\ \A o \in E : c.pool[o].access <= c.pool[last].access}

Appended(c, k, size, ttl, t) ==
  [c EXCEPT !.pool  = Append(@, [key |-> k, size |-> size, access |-> t, deleted |-> FALSE,
                                 expire |-> IF ttl > 0 THEN t + ttl ELSE 0]),
            !.count = @ + 1,
            !.mem   = @ + size]

\* Variants: a key that is already there keeps its old offset; the offset after the entry.
HashInsertKeeping(hash, k, o) == IF hash[k] # 0 THEN hash ELSE [hash EXCEPT ![k] = o]
HashInsertPast(hash, k, o) == [hash EXCEPT ![k] = o + 1]

HashInsert(hash, k, o) == [hash EXCEPT ![k] = o]

\* Variant: without cache_tag_index_add.
IndexedUntagged(c, k, o) ==
  [c EXCEPT !.hash = HashInsert(@, k, o), !.names = @ \union {o}]

Indexed(c, k, o) ==
  [c EXCEPT !.hash = HashInsert(@, k, o), !.names = @ \union {o}, !.tags = @ \union {o}]

\* cache_set: [c |-> the struct afterwards, ok |-> it returned CACHE_OK].
SetResults(c, k, size, ttl, t) ==
  LET swept(d) == IF d = c THEN d
                  ELSE [d EXCEPT !.sorted = @ \intersect Undeleted(d)]
      evicted  == {swept(d) : d \in UNION {Unindexed(c, E) : E \in Victims(c, size, Candidates(c))}}
      old(d)   == IF d.hash[k] # 0 /\ d.hash[k] \in Undeleted(d) THEN {d.hash[k]} ELSE {}
      stored(d) == LET o == Len(d.pool) + 1
                   IN  [Indexed(Appended(d, k, size, ttl, t), k, o) EXCEPT !.sorted = @ \union {o}]
  IN  {[c |-> d, ok |-> FALSE] : d \in {d \in evicted : ~Fits(d, size)}}
      \union
      UNION {{IF Len(r.pool) = PoolMax THEN [c |-> r, ok |-> FALSE] ELSE [c |-> stored(r), ok |-> TRUE]
                : r \in Removed(d, old(d))}
             : d \in {d \in evicted : Fits(d, size)}}

-----------------------------------------------------------------------------
(* cache_batch_set of a sequence of items [key, size, ttl].                 *)

Items == [key : Keys, size : Sizes, ttl : TTLs]
Batches == UNION {[1..n -> Items] : n \in 1..2}

BatchBytes(items) == MapThenSumSet(LAMBDA i : items[i].size, DOMAIN items)

\* The fallback: cache_set item by item, up to the first that fails.
OneByOne(c, items, t) ==
  LET after[i \in 0..Len(items)] ==
        IF i = 0 THEN {[c |-> c, ok |-> TRUE, stored |-> 0]}
        ELSE UNION {IF ~r.ok THEN {r}
                    ELSE {[c |-> s.c, ok |-> s.ok, stored |-> r.stored + (IF s.ok THEN 1 ELSE 0)]
                            : s \in SetResults(r.c, items[i].key, items[i].size, items[i].ttl, t)}
                    : r \in after[i - 1]}
  IN  after[Len(items)]

\* The main path: every entry is written, then every index is brought up to date;
\* nothing is done about the entries the keys already had.  When the disk is full
\* the entries written so far stay, in no index.
Together(c, items, t) ==
  LET base    == Len(c.pool)
      fitting == {i \in DOMAIN items : base + i <= PoolMax}
      entry(i) == [key |-> items[i].key, size |-> items[i].size, access |-> t, deleted |-> FALSE,
                   expire |-> IF items[i].ttl > 0 THEN t + items[i].ttl ELSE 0]
      new     == {base + i : i \in fitting}
      written == [c EXCEPT !.pool  = @ \o [i \in fitting |-> entry(i)],
                           !.count = @ + Cardinality(fitting),
                           !.mem   = @ + MapThenSumSet(LAMBDA i : items[i].size, fitting)]
      lastOf(k) == {i \in DOMAIN items : /\ items[i].key = k
                                         /\ \A j \in DOMAIN items : j > i => items[j].key # k}
  IN  IF fitting # DOMAIN items
        THEN [c |-> written, ok |-> FALSE, stored |-> 0]
        ELSE [c |-> [written EXCEPT
                       !.hash   = [k \in Keys |-> IF lastOf(k) = {} THEN @[k]
                                                  ELSE base + (CHOOSE i \in lastOf(k) : TRUE)],
                       !.names  = @ \union new,
                       !.tags   = @ \union new,
                       !.sorted = @ \union new],
              ok |-> TRUE, stored |-> Len(items)]

BatchResults(c, items, t) ==
  LET need    == BatchBytes(items)
      evicted == UNION {Unindexed(c, E) : E \in Victims(c, need, Evictable(c))}
  IN  UNION {IF Fits(d, need) THEN {Together(d, items, t)} ELSE OneByOne(d, items, t) : d \in evicted}

\* The selection sort runs to candidate_count - 1, an unsigned number: with nothing
\* to evict it counts to 2^64 and the call does not come back.
BatchHangs(c, items) == ~Fits(c, BatchBytes(items)) /\ Evictable(c) = {}

\* What a careful caller batches.
IsCareful(c, items) ==
  /\ \A i \in DOMAIN items : OfKey(c, Undeleted(c), items[i].key) = {}
  /\ \A i, j \in DOMAIN items : items[i].key = items[j].key => i = j
  /\ Len(c.pool) + Len(items) <= PoolMax

-----------------------------------------------------------------------------
Empty ==
  [pool |-> <<>>, hash |-> [k \in Keys |-> 0], sorted |-> {}, names |-> {}, tags |-> {},
   hot |-> {}, hotCount |-> 0, count |-> 0, mem |-> 0]

\* cache_open of a new directory.
Init ==
  /\ cache = Empty
  /\ now = 1
  /\ calls = 0
  /\ hung = FALSE
  /\ latest = [k \in Keys |-> 0]

\* What follows the stray write of Heated is not modelled: the counters it left are
\* the last state.
Alive == ~hung /\ cache.hotCount <= HotSize

LooksUp == Alive /\ calls < CallsPerMs /\ calls' = calls + 1 /\ UNCHANGED <<now, hung>>

Set(k, size, ttl) ==
  /\ Alive
  /\ \E r \in SetResults(cache, k, size, ttl, now) :
       /\ cache' = r.c
       /\ latest' = IF r.ok THEN [latest EXCEPT ![k] = Len(r.c.pool)] ELSE latest
  /\ UNCHANGED <<now, calls, hung>>

BatchSet(items) ==
  /\ Alive
  /\ Careful => IsCareful(cache, items)
  /\ IF BatchHangs(cache, items)
       THEN hung' = TRUE /\ UNCHANGED <<cache, latest>>
       ELSE \E r \in BatchResults(cache, items, now) :
              LET first == Len(r.c.pool) - r.stored
              IN  /\ cache' = r.c
                  /\ hung' = FALSE
                  /\ latest' = [k \in Keys |->
                       LET mine == {i \in 1..r.stored : items[i].key = k}
                       IN  IF mine = {} THEN latest[k] ELSE first + Max(mine)]
  /\ UNCHANGED <<now, calls>>

\* cache_get, and cache_exists that calls it.  A miss changes nothing.
Get(k) ==
  /\ LooksUp
  /\ LET o == Find(cache, k, now)
     IN  /\ o # 0
         /\ cache' \in Heated([cache EXCEPT !.pool[o].access = now], k, o, now)
  /\ UNCHANGED latest

\* cache_del: the entry is the one the look-up comes to, the indexes go by key.
Del(k) ==
  /\ LooksUp
  /\ LET o == Find(cache, k, now)
     IN  o # 0 /\ cache' \in Removed(cache, {o})
  /\ latest' = [latest EXCEPT ![k] = 0]

\* cache_expire: flag and counter only; memory_used and the indexes keep the entry.
Expire(k) ==
  /\ LooksUp
  /\ LET o == Find(cache, k, now)
     IN  /\ o # 0
         /\ cache' = [Marked(Warmed(cache, k, now), {o}) EXCEPT !.pool[o].expire = 1]
  /\ latest' = [latest EXCEPT ![k] = 0]

Touch(k) ==
  /\ LooksUp
  /\ LET o == Find(cache, k, now)
     IN  o # 0 /\ cache' = [Warmed(cache, k, now) EXCEPT !.pool[o].access = now]
  /\ UNCHANGED latest

\* cache_purge_expired: flags and counters, no index.
PurgeExpired ==
  /\ Alive
  /\ LET D == {o \in Undeleted(cache) : Expired(cache.pool[o], now)}
     IN  cache' = [Marked(cache, D) EXCEPT !.mem = @ - Bytes(cache, D)]
  /\ UNCHANGED <<now, calls, hung, latest>>

\* cache_compact: the sorted array and the hot cache.
Compact ==
  /\ Alive
  /\ cache' = [cache EXCEPT !.sorted = {o \in @ : Readable(cache, o, now)},
                            !.hot = {}, !.hotCount = 0]
  /\ UNCHANGED <<now, calls, hung, latest>>

\* cache_del_namespace: what the sorted array holds of the namespace; the hot cache
\* is left alone.
DelNamespace ==
  LET listed == {o \in cache.sorted : cache.pool[o].key \in Group}
      D      == {o \in listed : ~cache.pool[o].deleted}
      K      == KeysOf(cache, listed)
      m      == Marked(cache, D)
  IN  /\ Alive
      /\ D # {}
      /\ \E N \in ByKeyWithout(cache, cache.names, listed) :
           cache' = [m EXCEPT !.pool   = [o \in DOMAIN @ |-> IF o \in D THEN [@[o] EXCEPT !.expire = 1]
                                                             ELSE @[o]],
                              !.mem    = @ - Bytes(cache, D),
                              !.tags   = @ \ D,
                              !.hash   = [k \in Keys |-> IF k \in K THEN 0 ELSE @[k]],
                              !.names  = N,
                              !.sorted = @ \ listed]
      /\ latest' = [k \in Keys |-> IF k \in Group THEN 0 ELSE latest[k]]
      /\ UNCHANGED <<now, calls, hung>>

Tick ==
  /\ Alive
  /\ now < MaxNow
  /\ now' = now + 1
  /\ calls' = 0
  /\ UNCHANGED <<cache, hung, latest>>

Next ==
  \/ \E k \in Keys, size \in Sizes, ttl \in TTLs : Set(k, size, ttl)
  \/ \E items \in Batches : BatchSet(items)
  \/ \E k \in Keys : Get(k) \/ Del(k) \/ Expire(k) \/ Touch(k)
  \/ PurgeExpired
  \/ Compact
  \/ DelNamespace
  \/ Tick

Spec == Init /\ [][Next]_vars

-----------------------------------------------------------------------------
(* Properties. *)

Entry == [key : Keys, size : Sizes, access : 0..MaxNow, deleted : BOOLEAN, expire : Nat]

\* The fields of the struct hold what they may hold: every offset in an index is one
\* of a written entry.
TypeOK ==
  /\ cache.pool \in Seq(Entry) /\ Len(cache.pool) <= PoolMax
  /\ cache.hash \in [Keys -> {0} \union DOMAIN cache.pool]
  /\ cache.sorted \subseteq DOMAIN cache.pool
  /\ cache.names \subseteq DOMAIN cache.pool
  /\ cache.tags \subseteq DOMAIN cache.pool
  /\ cache.hot \subseteq [key : Keys, at : DOMAIN cache.pool, used : 0..MaxNow]
  /\ cache.hotCount \in Nat /\ cache.count \in Nat /\ cache.mem \in Nat
  /\ now \in 1..MaxNow /\ calls \in 0..CallsPerMs /\ hung \in BOOLEAN
  /\ latest \in [Keys -> {0} \union DOMAIN cache.pool]

\* A read gives the last value whose store was reported a success, unless that value
\* was deleted, evicted or has expired, and then it gives nothing: never an older
\* value through a stale hot slot, never a miss for a value that is still there
\* (cache_get against cache_set, cache_batch_set, cache_del, eviction, purge).
ReadsLatest ==
  Alive => \A k \in Keys :
             Find(cache, k, now) =
               (IF latest[k] # 0 /\ Readable(cache, latest[k], now) THEN latest[k] ELSE 0)

\* memory_used covers every entry that is not deleted and stays under memory_max:
\* no path returns the same bytes twice or stores past the limit.
NeverOverCommitted ==
  /\ Bytes(cache, Undeleted(cache)) <= cache.mem
  /\ cache.mem <= MaxMemory

\* cache_count is the number of entries not deleted, whatever way entries went, until
\* the write past the hot cache of hot_cache_update; and that takes more look-ups in
\* one millisecond than the hot cache has slots.
CountIsExact ==
  IF cache.hotCount <= HotSize
    THEN cache.count = Cardinality(Undeleted(cache))
    ELSE calls > HotSize

\* A value that can be read by its key can also be found by prefix, namespace and tag
\* (the sorted array, the namespace list and the tag list all hold it), although two of
\* the three are searched by key and may drop another entry with that key.
ReadableIsListed ==
  Alive => \A k \in Keys :
             LET o == Find(cache, k, now)
             IN  o # 0 => o \in cache.sorted \intersect cache.names \intersect cache.tags

\* A permanent value goes only by a call that names its key or its namespace: no
\* eviction for another key, no purge and no passage of time takes it.
PermanentStays ==
  [][\A k \in Keys :
       LET o == Find(cache, k, now)
       IN  (o # 0 /\ cache.pool[o].expire = 0) =>
             \/ Find(cache, k, now)' = o
             \/ \E size \in Sizes, ttl \in TTLs : Set(k, size, ttl)
             \/ Del(k) \/ Expire(k)
             \/ k \in Group /\ DelNamespace
             \/ ~Alive']_vars
=============================================================================
