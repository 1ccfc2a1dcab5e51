----------------------------- MODULE CacheLists -----------------------------
(***************************************************************************)
(* The lists a cache keeps beside its hash index, and what is read from    *)
(* them: the sorted array with its lazy sort and its swap-with-last        *)
(* removal (sorted_array.c), the namespace tree (namespace.c), the tag     *)
(* index (tag_index.c), the searches (search.c) and an iterator (iter.c).  *)
(* CacheStore has the counters, the hot cache and eviction.                *)
(*                                                                         *)
(* A key is its rank in byte order; the keys with a common prefix are then *)
(* neighbours, and a prefix is named by the set of them.  PathOf is what   *)
(* extract_namespace makes of a key.  A value is known by its tokens (what *)
(* extract_tags finds in it) and by its words (the tags that               *)
(* value_contains_tag finds); neither set contains the other.              *)
(* The skip list exists from a million entries on only and is left out.    *)
(***************************************************************************)
EXTENDS Integers, Sequences, FiniteSets, SequencesExt, FiniteSetsExt

CONSTANTS
  Keys,      \* ranks of the keys the callers use
  PathOf,    \* the namespace of each, a sequence of names
  Spaces,    \* the sets of keys that share the prefix of a namespace
  Values,
  Tags,      \* tags of two bytes and more
  Tokens,    \* extract_tags of each value
  Words,     \* the tags that value_contains_tag finds in it
  PoolMax    \* bound on the entries ever written

IsRun(S) == S # {} /\ S \subseteq Keys /\ Keys \intersect (Min(S)..Max(S)) = S

Names == UNION {ToSet(PathOf[k]) : k \in Keys}

ASSUME ListsAssumption ==
  /\ Keys \subseteq Nat /\ Keys # {} /\ IsFiniteSet(Keys)
  /\ PathOf \in [Keys -> Seq(Names)]
  /\ \A S \in Spaces : IsRun(S)
  /\ {Tokens, Words} \subseteq [Values -> SUBSET Tags]
  /\ PoolMax \in Nat

VARIABLES
  cache,  \* pool: the entries written, in order, named by their places; hash: the
          \* entry the index has for each key, 0 for none; sorted and dirty: the sorted
          \* array; nodes: the namespace tree, root first; tags: the offsets of each tag
  iter,   \* the iterator's index
  calm,   \* history: since its reset the array has only grown at the end
  seen,   \* history: what it has returned since then
  due     \* history: what was readable all the time since then and asked for

vars == <<cache, iter, calm, seen, due>>

-----------------------------------------------------------------------------
(* Entries. *)

Valid(c, o) == ~c.pool[o].deleted /\ ~c.pool[o].expired

Readable(c) == {o \in DOMAIN c.pool : Valid(c, o)}

KeyOf(c, o) == c.pool[o].key

\* The members of a sequence that are in S, in their order.
Only(s, S) ==
  LET after[i \in 0..Len(s)] ==
        IF i = 0 THEN <<>> ELSE IF s[i] \in S THEN Append(after[i - 1], s[i]) ELSE after[i - 1]
  IN  after[Len(s)]

Find(c, k) == IF c.hash[k] # 0 /\ Valid(c, c.hash[k]) THEN c.hash[k] ELSE 0

-----------------------------------------------------------------------------
(* The sorted array. *)

Ascending(c, s) == \A i \in 1..(Len(s) - 1) : KeyOf(c, s[i]) <= KeyOf(c, s[i + 1])

\* cache_sorted_ensure_sorted; qsort leaves entries with one key in any order.
EnsureSorted(c) ==
  IF ~c.dirty THEN {c}
  ELSE {[c EXCEPT !.sorted = s, !.dirty = FALSE] :
          s \in {s \in SetToSeqs(ToSet(c.sorted)) : Ascending(c, s)}}

\* One turn of the binary search of the bounds.
Halved(c, k, s) ==
  LET mid == (s.l + s.r) \div 2
  IN  IF s.l >= s.r THEN s
      ELSE IF k <= KeyOf(c, c.sorted[mid]) THEN [s EXCEPT !.r = mid] ELSE [s EXCEPT !.l = mid + 1]

\* The first place of a sorted array whose key is not below k.
LowerBound(c, k) ==
  LET after[i \in 0..Len(c.sorted)] ==
        IF i = 0 THEN [l |-> 1, r |-> Len(c.sorted) + 1] ELSE Halved(c, k, after[i - 1])
  IN  after[Len(c.sorted)].l

\* One turn of the binary search of a removal, which ends where it meets k.
Narrowed(c, k, s) ==
  LET mid == (s.l + s.r) \div 2
      key == KeyOf(c, c.sorted[mid])
  IN  IF s.at # 0 \/ s.l >= s.r THEN s
      ELSE IF k = key THEN [s EXCEPT !.at = mid]
      ELSE IF k < key THEN [s EXCEPT !.r = mid] ELSE [s EXCEPT !.l = mid + 1]

\* The place at which it meets k; 0 when it does not.
PlaceOf(c, k) ==
  LET after[i \in 0..Len(c.sorted)] ==
        IF i = 0 THEN [l |-> 1, r |-> Len(c.sorted) + 1, at |-> 0] ELSE Narrowed(c, k, after[i - 1])
  IN  after[Len(c.sorted)].at

SwapWithLast(s, i) == Front([s EXCEPT ![i] = Last(s)])

\* Variant: the array counts as sorted after the swap.
SortedRemoveClean(c, k) ==
  {IF PlaceOf(e, k) = 0 THEN e ELSE [e EXCEPT !.sorted = SwapWithLast(@, PlaceOf(e, k))] :
     e \in EnsureSorted(c)}

SortedRemove(c, k) ==
  {IF PlaceOf(e, k) = 0 THEN e
   ELSE [e EXCEPT !.sorted = SwapWithLast(@, PlaceOf(e, k)), !.dirty = TRUE] :
     e \in IF c.sorted = <<>> THEN {c} ELSE EnsureSorted(c)}

SortedInsert(c, o) == [c EXCEPT !.sorted = Append(@, o), !.dirty = TRUE]

-----------------------------------------------------------------------------
(* The namespace tree. *)

Children(t, at) == {n \in DOMAIN t : n # 1 /\ t[n].up = at}

\* 0 when there is none.
Oldest(nodes) == IF nodes = {} THEN 0 ELSE Min(nodes)

\* The whole path of a child is compared with the short name.
FindOrCreateChild(t, at, name) ==
  LET child == Oldest({n \in Children(t, at) : t[n].path = <<name>>})
  IN  IF child # 0 THEN [tree |-> t, at |-> child]
      ELSE [tree |-> Append(t, [up |-> at, path |-> Append(t[at].path, name), offsets |-> <<>>]),
            at |-> Len(t) + 1]

GetOrCreateNsNode(t, path) ==
  LET after[i \in 0..Len(path)] ==
        IF i = 0 THEN [tree |-> t, at |-> 1]
        ELSE FindOrCreateChild(after[i - 1].tree, after[i - 1].at, path[i])
  IN  after[Len(path)]

\* Short names are compared here; 0 when a name is missing.
FindNsNode(t, path) ==
  LET after[i \in 0..Len(path)] ==
        IF i = 0 THEN 1
        ELSE IF after[i - 1] = 0 THEN 0
        ELSE Oldest({n \in Children(t, after[i - 1]) : Last(t[n].path) = path[i]})
  IN  after[Len(path)]

NsAdd(c, k, o) ==
  LET found == GetOrCreateNsNode(c.nodes, PathOf[k])
  IN  [c EXCEPT !.nodes = [found.tree EXCEPT ![found.at].offsets = Append(@, o)]]

\* Variant: the count goes down without the last offset moving up.
NsRemoveLast(c, k) ==
  LET n     == FindNsNode(c.nodes, PathOf[k])
      there == IF n = 0 THEN {}
               ELSE {i \in DOMAIN c.nodes[n].offsets : KeyOf(c, c.nodes[n].offsets[i]) = k}
  IN  IF there = {} THEN c ELSE [c EXCEPT !.nodes[n].offsets = Front(@)]

NsRemove(c, k) ==
  LET n     == FindNsNode(c.nodes, PathOf[k])
      there == IF n = 0 THEN {}
               ELSE {i \in DOMAIN c.nodes[n].offsets : KeyOf(c, c.nodes[n].offsets[i]) = k}
  IN  IF there = {} THEN c ELSE [c EXCEPT !.nodes[n].offsets = SwapWithLast(@, Min(there))]

-----------------------------------------------------------------------------
(* The tag index. *)

TokensOf(c, o) == Tokens[c.pool[o].value]

TagAdd(c, o) ==
  [c EXCEPT !.tags = [t \in Tags |-> IF t \in TokensOf(c, o) /\ ~Contains(@[t], o)
                                       THEN Append(@[t], o) ELSE @[t]]]

\* Variant: compacting drops the offset and the ones behind it.
TagRemoveRest(c, D) ==
  [c EXCEPT !.tags = [t \in Tags |-> Only(@[t], {x \in ToSet(@[t]) : \A o \in D : t \in TokensOf(c, o) => x < o})]]

\* cache_tag_index_remove for each entry in D.
TagRemove(c, D) ==
  [c EXCEPT !.tags = [t \in Tags |-> Only(@[t], ToSet(@[t]) \ {o \in D : t \in TokensOf(c, o)})]]

-----------------------------------------------------------------------------
(* The searches, without a limit and a namespace filter. *)

\* cache_search_prefix, from the lower bound to the first key without the prefix.
SearchPrefix(c, keys) ==
  LET start == LowerBound(c, Min(keys))
      ends  == {i \in start..Len(c.sorted) : KeyOf(c, c.sorted[i]) \notin keys} \union {Len(c.sorted) + 1}
  IN  Only(SubSeq(c.sorted, start, Min(ends) - 1), Readable(c))

\* cache_search_range, from one key up to the next, exclusive.
SearchRange(c, first, next) ==
  Only(SubSeq(c.sorted, LowerBound(c, first), LowerBound(c, next) - 1), Readable(c))

\* cache_search_tag asks the index, and reads the values when that lists nothing.
SearchTag(c, t) ==
  IF c.tags[t] # <<>> THEN Only(c.tags[t], Readable(c))
  ELSE Only(c.sorted, {o \in Readable(c) : t \in Words[c.pool[o].value]})

-----------------------------------------------------------------------------
(* Storing and deleting. *)

Flagged(c, D) ==
  [c EXCEPT !.pool = [o \in DOMAIN @ |-> IF o \in D THEN [@[o] EXCEPT !.deleted = TRUE] ELSE @[o]]]

\* The entry o, which is not deleted yet, leaves every index.
Removed(c, o) ==
  LET k == KeyOf(c, o)
      h == [Flagged(TagRemove(c, {o}), {o}) EXCEPT !.hash[k] = 0]
  IN  {NsRemove(s, k) : s \in SortedRemove(h, k)}

Replaced(c, k) ==
  IF c.hash[k] # 0 /\ ~c.pool[c.hash[k]].deleted THEN Removed(c, c.hash[k]) ELSE {c}

Stored(c, k, v) ==
  LET o == Len(c.pool) + 1
      a == [c EXCEPT !.pool = Append(@, [key |-> k, value |-> v, deleted |-> FALSE, expired |-> FALSE]),
                     !.hash[k] = o]
  IN  TagAdd(NsAdd(SortedInsert(a, o), k, o), o)

\* Neither the index nor the tree finds the key of o any more.
Forgotten(c, o) == NsRemove([c EXCEPT !.hash[KeyOf(c, o)] = 0], KeyOf(c, o))

\* cache_del_namespace: the slice of the array that lies in the namespace, with what
\* was flagged in it before.
WithoutSpace(c, keys) ==
  LET slice == SubSeq(c.sorted, LowerBound(c, Min(keys)), LowerBound(c, Max(keys) + 1) - 1)
      D     == {o \in ToSet(slice) : ~c.pool[o].deleted}
      f     == Flagged(TagRemove(c, D), D)
      gone  == Only(slice, {o \in ToSet(slice) : f.pool[o].deleted})
      after[i \in 0..Len(gone)] == IF i = 0 THEN f ELSE Forgotten(after[i - 1], gone[i])
  IN  IF D = {} THEN c
      ELSE [after[Len(gone)] EXCEPT !.sorted = Only(@, ToSet(@) \ ToSet(gone)), !.dirty = TRUE]

-----------------------------------------------------------------------------
(* The history of an iteration over a step that leads to the cache c. *)

History(c) ==
  /\ calm' = (calm /\ IsPrefix(cache.sorted, c.sorted))
  /\ IF calm' THEN due' = due \intersect Readable(c) /\ UNCHANGED seen ELSE due' = {} /\ seen' = <<>>
  /\ UNCHANGED iter

Becomes(c) == cache' = c /\ History(c)

Init ==
  /\ cache = [pool |-> <<>>, hash |-> [k \in Keys |-> 0], sorted |-> <<>>, dirty |-> FALSE,
              nodes |-> <<[up |-> 0, path |-> <<>>, offsets |-> <<>>]>>,
              tags |-> [t \in Tags |-> <<>>]]
  /\ iter = 0
  /\ calm = TRUE
  /\ seen = <<>>
  /\ due = {}

Set(k, v) ==
  /\ Len(cache.pool) < PoolMax
  /\ \E r \in Replaced(cache, k) : Becomes(Stored(r, k, v))

Del(k) ==
  /\ Find(cache, k) # 0
  /\ \E r \in Removed(cache, Find(cache, k)) : Becomes(r)

\* cache_expire flags the entry and leaves it in every index.
Expire(k) ==
  /\ Find(cache, k) # 0
  /\ Becomes([Flagged(cache, {Find(cache, k)}) EXCEPT !.pool[Find(cache, k)].expired = TRUE])

\* The time of an entry runs out.
RunOut(o) ==
  /\ ~cache.pool[o].expired
  /\ Becomes([cache EXCEPT !.pool[o].expired = TRUE])

PurgeExpired ==
  Becomes(Flagged(cache, {o \in DOMAIN cache.pool : cache.pool[o].expired}))

Compact ==
  LET kept == Only(cache.sorted, Readable(cache))
  IN  Becomes(IF kept = cache.sorted THEN cache ELSE [cache EXCEPT !.sorted = kept, !.dirty = TRUE])

DelNamespace(keys) ==
  \E c \in EnsureSorted(cache) : Becomes(WithoutSpace(c, keys))

\* A prefix or range search, or cache_index_save: all they change is the order.
Search ==
  /\ cache.sorted # <<>>
  /\ \E c \in EnsureSorted(cache) : Becomes(c)

IterReset ==
  /\ iter' = 0
  /\ calm' = TRUE
  /\ seen' = <<>>
  /\ due' = Readable(cache)
  /\ UNCHANGED cache

\* Variant: the index goes up once when an entry is looked at and once more when it is
\* returned.
IterNextTwice(keys) ==
  LET asked == {i \in (iter + 1)..Len(cache.sorted) :
                  Valid(cache, cache.sorted[i]) /\ KeyOf(cache, cache.sorted[i]) \in keys}
      stop  == IF asked = {} THEN Max({iter, Len(cache.sorted)}) ELSE Min(asked)
  IN  /\ iter' = IF asked = {} THEN stop ELSE stop + 1
      /\ seen' = IF asked = {} \/ ~calm THEN seen ELSE Append(seen, cache.sorted[stop])
      /\ due' = {o \in due : KeyOf(cache, o) \in keys \/ o \notin ToSet(SubSeq(cache.sorted, iter + 1, stop))}
      /\ UNCHANGED <<cache, calm>>

\* cache_iter_next (all keys) and cache_iter_ns_next.
IterNext(keys) ==
  LET asked == {i \in (iter + 1)..Len(cache.sorted) :
                  Valid(cache, cache.sorted[i]) /\ KeyOf(cache, cache.sorted[i]) \in keys}
      stop  == IF asked = {} THEN Max({iter, Len(cache.sorted)}) ELSE Min(asked)
  IN  /\ iter' = stop
      /\ seen' = IF asked = {} \/ ~calm THEN seen ELSE Append(seen, cache.sorted[stop])
      /\ due' = {o \in due : KeyOf(cache, o) \in keys \/ o \notin ToSet(SubSeq(cache.sorted, iter + 1, stop))}
      /\ UNCHANGED <<cache, calm>>

Next ==
  \/ PurgeExpired \/ Compact \/ Search \/ IterReset
  \/ \E k \in Keys : Del(k) \/ Expire(k) \/ (\E v \in Values : Set(k, v))
  \/ \E o \in DOMAIN cache.pool : RunOut(o)
  \/ \E keys \in Spaces : DelNamespace(keys)
  \/ \E keys \in {Keys} \union Spaces : IterNext(keys)

Spec == Init /\ [][Next]_vars

-----------------------------------------------------------------------------
(* Properties. *)

Held(keys) == {o \in Readable(cache) : KeyOf(cache, o) \in keys}

\* After any history of stores, swap-with-last removals, expiries and compactions a
\* prefix search returns each readable entry with the prefix once, in key order, and
\* a range search over the same keys returns the same.
PrefixSearchExact ==
  \A keys \in Spaces \union {Keys} : \A c \in EnsureSorted(cache) :
    LET found == SearchPrefix(c, keys)
    IN  /\ ToSet(found) = Held(keys) /\ Len(found) = Cardinality(Held(keys))
        /\ Ascending(c, found)
        /\ found = SearchRange(c, Min(keys), Max(keys) + 1)

\* A tag search returns readable entries with the tag only, none twice, and all those
\* that have it as a token.
TagSearchSound ==
  \A t \in Tags :
    LET found == SearchTag(cache, t)
    IN  /\ IsInjective(found)
        /\ {o \in Readable(cache) : t \in TokensOf(cache, o)} \subseteq ToSet(found)
        /\ \A o \in ToSet(found) : /\ o \in Readable(cache)
                                   /\ t \in TokensOf(cache, o) \union Words[cache.pool[o].value]

\* Every readable entry is in the namespace tree exactly once, in a node with the path
\* of its key, although a second level gets a new node with every store and removal
\* looks only into the oldest.
ReadableInNamespace ==
  \A o \in Readable(cache) :
    LET there == {n \in DOMAIN cache.nodes : Contains(cache.nodes[n].offsets, o)}
    IN  /\ Cardinality(there) = 1
        /\ \A n \in there : /\ cache.nodes[n].path = PathOf[KeyOf(cache, o)]
                            /\ Cardinality({i \in DOMAIN cache.nodes[n].offsets : cache.nodes[n].offsets[i] = o}) = 1

\* While the array only grows at its end, an iteration returns nothing twice, and when
\* it has come to the end it has returned all that was readable the whole time.
IterationComplete ==
  calm => /\ IsInjective(seen)
          /\ iter >= Len(cache.sorted) => due \subseteq ToSet(seen)
=============================================================================
