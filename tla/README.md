# WordCard: a verification development in TLA+

WordCard is a vocabulary trainer: a C engine that schedules reviews with SM-2
(`src/src/wordcard.c`, `modes.c`), Python clients around it (`cli.py`, `api.py`,
`importer.py` through `engine.py`), a key/value cache with search indexes
(`src/src/cache/`), and rendering, speech and GUI parts.  The modules here
model the parts that keep state, TLC checks them on small instances, and TLAPS
proves what holds for every size.

- [1 Inventory](#1-inventory)
- [2 Modules](#2-modules) and how they correspond to the code
- [3 Runs](#3-runs): what is checked, with which bounds
- [4 Proofs](#4-proofs)
- [5 Fairness](#5-fairness)
- [6 Where code and documents disagree](#6-where-code-and-documents-disagree)
- [7 What is not modelled](#7-what-is-not-modelled)
- [8 Limits and what would come next](#8-limits-and-what-would-come-next)

Every run is `tlc -config <cfg> <module>`; every proof module is `tlapm <module>`.
`PROJECT.json` lists the runs, the theorems, the source lines behind every
definition, and for every property a mutated definition that breaks it.

## 1 Inventory

| Component | State | Operations | Talks to |
|---|---|---|---|
| SM-2 scheduling (`wordcard.c` 937-1030, `modes.c`) | one mastery record: interval, repetitions, ease factor, next review, counters, six skills | `wc_sm2_update`, `wc_update_mastery_dimension`, `wc_recommend_mode` | called on a pointer into the mastery table |
| In-memory database (`wordcard.c`) | tables of items, users, mastery, sources, chapters, statistics; a hash per table; `mastery_due_sorted` with its dirty flag | add, create, find, due, new, daily queue | one `wordcard_db_t` per process, `g_db_mutex` around each call |
| Database file (`wc_load_db`, `wc_save_db`) | `wordcard.db`, `wordcard.db.tmp` | whole-file load; write, close, rename | every command and every HTTP request loads and saves its own copy |
| Review session (`cli.py cmd_review`) | the queue, the position, the handle | next card, answer, skip, quit | database, file |
| REST interface (`api.py`) | none between requests | user, item, import, queue, review | database, file; threads of one server |
| KV cache core (`cache.c`, `hash_index.c`, `mmap.c`) | an append-only memory-mapped pool, hash index, hot cache of 64 slots, counters, memory limit | set, batch set, get, del, expire, touch, purge, compact, delete namespace, open, sync, close | the lists below, on every change |
| Sorted array, skip list, iterators | offsets in key order, sorted lazily | insert, remove, bounds, iterate | cache core, search |
| Namespace tree; tag index | tree of paths; table of tags, each with offsets | add, remove, find | cache core, search |
| Index file (`index_persistence.c`) | `index.bin` | save on sync and close, load on open | cache core, HNSW |
| Vector index, HNSW | vectors, graph nodes with free list | insert, remove, search, serialise | cache core |
| Cache servers (TCP, HTTP) | one connection's buffer | parse, execute, answer | cache core |
| GUI (Lua, C bridge, gpui) | the session and one pending action | flip, answer, next, 60 Hz tick | callbacks from Rust into Lua |
| Text rendering, source analyzer, metrics, speech, importers, card pictures | none that lasts | conversions | external libraries |

What is hard, and what should be true:

- **SM-2** mixes 8- and 16-bit counters with single-precision products that are
  truncated.  Success must never shorten an interval; a card that is no longer
  failed must be mastered in the end; three failures must show the flashcard.
- **The database** keeps every key twice (table and hash) and a sorted index that
  only some callers invalidate.  The indexes must agree with the tables; the due
  list must hold exactly the due records; the queue must be free of duplicates
  and start with the most overdue.
- **The file** is rewritten by processes that may fail or be killed anywhere and
  may overlap.  It must always be one complete table, and what was reported saved
  must stay.
- **The review** must lose at most the answer in hand and those whose save failed,
  leave no overdue item out, and bring a diligent learner to the end.
- **The cache** has three places that know where a key is (hash, hot cache, pool)
  and five ways for an entry to go.  A read must give the last stored value or
  nothing; counters must match; permanent values must not be evicted.
- **The index file** is older than the entries after a kill, and its buckets lead
  into nodes written since; a kill may leave half an entry or half a doubled array.
  What index.bin is still right about must be read as stored, and no chain may turn
  into a loop.
- **The lists beside the hash** (sorted array, namespace tree, tags) are changed by
  key here and by offset there, sorted late and filled by swapping.  A search must
  find what a read finds, once, and nothing else.
- **The vector graph** reuses the slots of removed nodes, moves its vectors when it
  grows and forgets its counters when it is read back.  A search must return members
  only; no live node may be overwritten.
- **The servers** cut a stream of bytes into commands.  A command must be done once,
  in order, and its caller told what was done; a stop must end the thread.
- **The GUI** has one slot for the pending action: a click overwrites another.

`PROJECT.json` lists these as hazards, each at its line.

## 2 Modules

Time is in days in the study modules (all intervals of the code are whole days;
the learner reviews at the same hour) and in milliseconds in `CacheStore`.  Tables
are sequences and a row is named by its position, counted from 1 where the code
counts from 0; 0 is "not there".

| Module | Extends or uses | Models | Run |
|---|---|---|---|
| `Mastery` | | the arithmetic of one review and the choice of a mode | (`card`, `study`, `review`) |
| `MasteryCard` | `Mastery` | one record over any history | `card` |
| `StudyEngine` | `Mastery` | the database in memory | `study` |
| `CliReview` | `StudyEngine` | `cmd_review` over that database and its file | `review`, `review_lost` |
| `AtomicDbFile` | | what `wc_save_db` promises | (abstract) |
| `DbFile` | `AtomicDbFile` | load and save, cell by cell | `file_alone`, `file_shared` |
| `CacheStore` | | one session of `cache_t` | `cache` |
| `CachePersist` | | sessions, kills, `cache.bin` and `index.bin` | `persist` |
| `CacheLists` | | sorted array, namespaces, tags, searches, iterators | `lists` |
| `VectorIndex` | | the array of vectors and the HNSW graph | `vectors`, `vectors_reach` |
| `CacheServer` | | both servers, their clients, the streams between | `server` |
| `MCDbFile`, `MCCache`, `MCPersist`, `MCLists`, `MCVectors`, `MCServer` | the above | constants, symmetry and views for TLC | |
| `MasteryCard_proofs`, `Study_proofs`, `DbFile_proofs`, `CacheStore_proofs`, `CachePersist_proofs`, `CacheLists_proofs`, `VectorIndex_proofs`, `CacheServer_proofs` | the above | theorems (section 4); `Study_proofs` is about `StudyEngine` and `CliReview` | |

**`Mastery`** - `wc_sm2_update`, `wc_update_mastery_dimension`, `wc_recalc_overall`,
`wc_recommend_mode` as operators.  Integer fields keep their width (`U8`, `U16`).
The ease factor is in hundredths; where the code truncates a single-precision
product, the operator is the set of results the rounding can give (`Grown`,
`Overalls`).

**`MasteryCard`** - one record under any order of reviews, practice and days.
`total` only distinguishes zero from more.

**`StudyEngine`** - the database behind one handle: `items`, `users`, `mastery`
and their hashes, `due_sorted`, `due_dirty`.  One action per call: `AddItem`,
`CreateUser`, the creation of a mastery record, an answer, the rebuild of the due
index that a query performs, a load of the file, midnight.  `Notifies` says which
clients there are: those that call `wc_notify_mastery_changed` after `wc_sm2_update`,
as `test_sm2.c` does, those that do not, as `engine.py`, which does not bind it, or
both, so that each answer is reported or not.  `stale` is history: an answer has gone
unreported since the due index was sorted.  `Long` are names the fixed-size fields cut.

**`CliReview`** - `cmd_review`: load, take the queue, show, answer or skip, save
after every answer, leave, several times a day and over many days, with the process
cut short anywhere.  A save is one step here, which replaces the file (`Save`) or
fails and leaves it as it was (`SaveFails`), whereupon the review goes on with the
next item, as `cli.py:50` does not look at the result; `DbFile` opens the step up.
`done`, `diligent`, `opened`, `failures` and `missed` (the answers of each item whose
save failed, with no later save of the process getting through) are history.

**`DbFile`** - the file.  Two names point to inodes, an inode is a sequence of
cells (header with row count, then rows), `fopen(..., "wb")` truncates the inode
the name has, `rename` moves the name.  Writes fail, processes die at every step.
`Alone` says that clients take turns.  One table stands for the seven that are
written one after another.

**`AtomicDbFile`** - the promise of `wc_save_db`: load a copy, change it, replace
the file in one step.  `DbFile` implements it when `Alone` (property
`SaveIsAtomic`: `file` is what the target inode reads back as, `view` the client's
copy).

**`CacheStore`** - `cache_t` in one session as the record `cache`.  The pool is a
sequence of entries [key, size, access, expire, deleted]; `hash` maps a key to its
entry; `sorted`, `names` and `tags` are the sets of offsets the three lists hold;
`hot` the slots of the hot cache.  What the C code does in sequence (evict, remove
the old entry, allocate, index) is composed from operators on the record, so every
call is one action with all it changes.  `names` and `sorted` are searched by key in
the code and may drop *another* entry with that key: `ByKeyWithout` allows every
choice.  `cache_set` evicts among `Candidates`: everything evictable, and of more than
`MaxCandidates` the first ones, with the last place of the buffer going to the oldest
of all others; `cache_batch_set` has no such limit.  `PoolMax` is a full disk.  `latest`
is history: the entry of the last store that reported success.  The write one past a
full hot cache is modelled by what lies behind the array in the struct, and the model
stops there.  `hung` is the batch call that never comes back.

**`CachePersist`** - the directory over sessions.  The hash index is modelled node
by node: `heads` are the buckets in memory, `nodes` the chain links in `cache.bin`,
which survive a kill while `heads` go back to what `index` holds.  `hash_resize`
relinks the same nodes into a new array.  `Open` loads `index.bin` or rebuilds;
`Close` and `Sync` write it or fail to.  `Kill` ends the process between two calls;
`KillInSet` while `cache_set` evicts and flags the old entry; `KillInHeader` when the
new entry is allocated but its key is not there yet (`Nameless` is the key such an
entry has in the file); `KillInValue` from the key on: with half a value, with the
entry not indexed, and at any node of `hash_resize` (`HalfResized`); `KillInDel`
behind the flag; `KillInClose` between `index.bin` and the header of `cache_close`.
`dirty`, `grown`, `lost`, `torn` and `uncounted` are history: the keys whose entries
changed since `index.bin` was written, whether the bucket array was doubled since,
the keys at risk because a session ended without writing it, those with half a value,
and whether the header has another count than there are entries.

**`CacheLists`** - what `CacheStore` keeps as sets: the sorted array as a sequence
with its dirty flag, `qsort` as any ascending order, removal by swapping with the
last; the namespace tree as nodes with parent and path, with the lookup that compares
a whole path with a short name; the tag index; prefix, range and tag searches; an
iterator.  A key is its rank; a value is known by the tokens the index extracts and
the words a search finds in it, which differ.  Every loop of the code (the bisections,
the walks down the tree, compacting a list, the second pass of
`cache_del_namespace`) is a recursive function over its turns, `Halved`, `Narrowed`
or `Forgotten` being one of them.  `calm`, `seen` and `due` are the history of the
iteration.

**`VectorIndex`** - the array of vectors and the graph: slots with a free list, levels
and neighbour lists, the vector pool whose growth moves every vector, the priority queue
as an array with `pq_pop` as written, greedy and layered search, linking with
replacement of the farthest, and what `index.bin` keeps of all this. The neighbour lists
stand beside the nodes, in `links`.  A vector is a point, a level is a free choice.
`Widths` are the values `ef_search` can have: a search that asks for more results than
it widens it, for itself and for all later searches.  `None` is an address at which
nothing is mapped; memory that was never written holds any point.  `refilled` is
history, and goes into `index.bin` with the graph: a graph that was read from it has
grown.

**`CacheServer`** - `server.c` with its client library, and `http_server.c` with a
client that waits for each answer.  A connection is two streams; a command line is
two pieces of text, a carriage return and a line feed, and a `recv` returns any
beginning of what has arrived.  Values are told apart by what they do to the
protocol: a line break, a length beyond the buffers, the words "Connection: close".
What a `recv` leaves of a line that it cut is dropped with the buffer or comes alone
with the next one, and then its first word decides: `RestsOf` says which commands the
rest of a call can be (a value with a SET in it), and `ExecuteRest` executes such a
rest, and answers it.  `Stop` comes at any moment.  `executed`, `lost` and `astray` are
history; `astray` has the clients on whose connection a line break or a rest may have
been taken for a command.

## 3 Runs

| Run | Question | Bounds, and why they are enough |
|---|---|---|
| `card` | Intervals never shrink on success, the mode fits history and dimensions, mastery comes in the end | Qualities 1 and 4 reach both branches and both directions of the ease factor; 10 successes carry the interval to its cap of 3650; two dimensions suffice for "weakest" |
| `study` | Hashes and tables agree; until an answer goes unreported after the index was sorted, the due index is exact and the queue is well formed | Two items, one user, five days, three reviews per record: two records can be created, swap order and fall due; every answer is reported or not, and the file may be loaded again at any time |
| `review` | Only the answer in hand and those whose saves failed are at risk, no overdue item left out although nobody notifies, diligent learners finish | 62 days let an item reach mastery; lazy behaviour up to day 5, one cut-off and two failing saves (so that two answers are unsaved together, and one is saved late) before the learner settles; queue limited to one new item per review |
| `file_alone` | The file is always complete, stored rows stay, a save is atomic | Three questions, failing writes, two kills, two inodes (the most two names can hold when one client runs) |
| `file_shared` | A file nobody can read is never overwritten | Two overlapping clients, failing writes, one kill, four inodes (two names, two open files) |
| `cache` | Reads give the latest value, bytes and entries are accounted for, what can be read can be found, permanent values stay | Two keys, four stores, memory for two small entries or one large, a hot cache of one slot (so replacement happens) and two look-ups per millisecond (so the overrun happens), one candidate for the eviction in `cache_set` (so the cap decides), three milliseconds (so a ttl of one runs out) |
| `persist` | What `index.bin` is still right about is read and listed as stored, counters match, chains end, wherever a kill falls | Three keys that start in one bucket, two of them for ever and the third until the array doubles, and the key of a half-written entry; three entries, so an old and a new node share a chain; three sessions, so an index goes stale and is then loaded |
| `lists` | Searches find exactly what can be read, every readable entry is in one namespace node, iterations are complete | Keys `a/a`, `a/b/k`, `a/c`: two levels of namespaces, one inside the other in key order; three entries, so a swap moves one over another and a sort has something to do |
| `vectors` | The graph holds the array's members with the vectors they were stored with, reuses only free slots, counts no more than there are, searches return members only | Four vectors at two points, a graph from three on, one neighbour per level (so lists overflow), two levels, two sessions (so a graph is read back and grows), one expiry |
| `server` | A call returns what was done, once and in order; every call returns; a stop is heeded | Two clients, so one waits to be accepted; two calls on one, so a late reply can meet the next call; a value of every kind the code treats differently, a plain one whose rest is a SET and one with a QUIT behind a line break among them; one client stores and reads, the other deletes |
| `review_lost`, `vectors_reach` | end in a counterexample on purpose (section 6) | |

Bounds on counters (`MaxTotal`, `MaxReps`, `MaxFails`, `MaxDay`, `MaxKills`,
`MaxCrashes`, `MaxFailures`, `PoolMax`, `MaxNow`, `CallsPerMs`, `MaxSessions`,
`MaxExpired`, `MaxCalls`) are guards that disable the action at the limit, so no run
sees a wrapped or invented value.  `HotSize`, `MaxCandidates`, `MaxBuckets`, `M`,
`EfSearch` and the like are no bounds but constants of the code, smaller here.  `cache`
makes one assumption about callers: `Careful = TRUE` has them batch new keys only
(section 6 says what happens to the others).  Deadlock is not checked where the bounds
stop the system (a learner at the last day, a full pool, clients that have called all
they call).

`MasteryCard`, `CliReview`, `CachePersist`, `CacheLists` and `CacheServer` check no
type invariant in their runs: the first has it as a theorem, `CachePersist`,
`CacheLists` and `CacheServer` as part of the invariant that is proved, and in
`CliReview` the properties themselves cannot be evaluated where a type is wrong.

## 4 Proofs

All proofs are checked by TLAPS to the last leaf, for any sets of questions, users,
clients, inodes, keys, values, tags, vectors and sizes, and any number of rows, reviews,
days, failures, entries and calls.

| Theorem | States | Run |
|---|---|---|
| `MasteryCard_proofs!CardTypes` | a card keeps its types and widths | |
| `MasteryCard_proofs!ModeAlwaysFits` | three to 255 failures in a row lead to flashcards; a due card is drilled on a weakest dimension | `card` |
| `MasteryCard_proofs!SuccessAlwaysGrows` | no success shortens an interval while the ease factor is at most 17.95 | `card` |
| `Study_proofs!TypeCorrect` | the tables and indexes keep their types; a schedule stays a schedule, in its widths | `study` |
| `Study_proofs!RecordsAgree` | items and users are found exactly where they are | `study` |
| `Study_proofs!IndexesAgree` | so are mastery records, one per pair | `study` |
| `Study_proofs!DueItemsExact` | a query lists exactly the due records, until the first answer that is not reported after the index was sorted | `study` |
| `Study_proofs!QueueAlwaysWellFormed` | until then the daily queue holds no item twice, and the most overdue when not all fit | `study` |
| `Study_proofs!OnlyTheUnsavedAtRisk` | a review that ends anywhere costs the answer in hand and those whose save failed, with no later save getting through, and no other | `review` |
| `Study_proofs!NoOverdueItemLeftOut` | a review leaves out no overdue item, although nobody notifies | `review` |
| `DbFile_proofs!FileTypes` | handles, offsets and cells keep their types | `file_alone` |
| `DbFile_proofs!BrokenForGood` | a file that cannot be read is kept, however many clients overlap | `file_shared` |
| `DbFile_proofs!FileComplete` | if `Alone`, the target is a complete table at every moment | `file_alone` |
| `DbFile_proofs!StoredForGood` | if `Alone`, rows reported saved are in the file from then on | `file_alone` |
| `DbFile_proofs!SaveImplementsAtomic` | if `Alone`, `DbFile` implements `AtomicDbFile` | `file_alone` |
| `CacheStore_proofs!InvariantHolds` | pool, hash, hot cache, lists and counters agree after every call | |
| `CacheStore_proofs!TypeCorrect` | they keep their types | `cache` |
| `CacheStore_proofs!NeverOver` | undeleted entries never take more than `memory_used`, nor that more than the limit | `cache` |
| `CacheStore_proofs!CountExact` | the entry counter is the number of undeleted entries until a look-up writes past the hot cache, and that one is at least the `HotSize + 1`st of its millisecond | `cache` |
| `CacheStore_proofs!ReadsTheLatest` | if `Careful`, a read gives the last successful store or nothing | `cache` |
| `CacheStore_proofs!ReadableListed` | if `Careful`, what can be read is in all three lists | `cache` |
| `CacheStore_proofs!PermanentValueStays` | if `Careful`, a value without expiry stays until a call names its key or namespace | `cache` |
| `CachePersist_proofs!DirectoryConsistent` | memory, `cache.bin` and `index.bin` fit together in every state | |
| `CachePersist_proofs!ChainsAlwaysSound` | every bucket chain ends and holds only keys of its bucket | `persist` |
| `CachePersist_proofs!ReadsAlwaysKept` | a key is read as last stored over sessions and kills, unless its entries changed or the bucket array was doubled after the `index.bin` a later session began with, or a kill cut its value | `persist` |
| `CachePersist_proofs!ListedAlwaysKept` | what it reads is in the sorted array and in the tree | `persist` |
| `CachePersist_proofs!CountersAlwaysKept` | while no key is at risk `hash.size` counts; `entry_count` does unless a kill left another number in the header | `persist` |
| `CacheLists_proofs!SoundAlways` | index, array, tree, tags and iterator fit together in every state | |
| `CacheLists_proofs!PrefixSearchAlwaysExact` | prefix and range searches return exactly what can be read, in key order | `lists` |
| `CacheLists_proofs!TagSearchAlwaysSound` | a tag search returns all that have the tag as a token, and nothing without it | `lists` |
| `CacheLists_proofs!ReadableAlwaysInNamespace` | what can be read is in one node of the tree, once, under its own path | `lists` |
| `CacheLists_proofs!IterationAlwaysComplete` | while the array only grows, an iteration is complete and repeats nothing | `lists` |
| `VectorIndex_proofs!SoundAlways` | array, graph and `index.bin` fit together over sessions and kills | |
| `VectorIndex_proofs!TypeOKAlways` | links, free slots and entry point are slots of nodes, no list is too long | `vectors` |
| `VectorIndex_proofs!FreeSlotsAlwaysUnused` | the free list is the slots of removed nodes, once each | `vectors` |
| `VectorIndex_proofs!GraphAlwaysHoldsList` | live nodes and members of the array are the same, one to one | `vectors` |
| `VectorIndex_proofs!CountIsNeverTooHigh` | `valid_count` is at most the live nodes, in the first session exactly | `vectors` |
| `VectorIndex_proofs!VectorsAlwaysAsStored` | live nodes have the vectors of their entries until a graph that was read back grows | `vectors` |
| `VectorIndex_proofs!SearchAlwaysSound` | a search returns readable members, none twice, and few vectors are searched exactly | `vectors` |
| `CacheServer_proofs!InvariantHolds` | thread, queue, streams, history and clients agree in every state | |
| `CacheServer_proofs!CommandsInOrder` | commands run at most once, in the order of the calls, connection after connection | `server` |
| `CacheServer_proofs!ClientsKnow` | a set returns success exactly if it was executed, on a connection on which neither a line break nor the rest of a cut call was taken for a command | `server` |

*One review and one card.*  `MasteryCard_proofs` first has what holds of a single step:
`Sm2Type` (a schedule stays one), `SuccessGrows` (of the product, its rounding, the
16-bit conversion and the cap) and `WeakestIsMinimal`.  `CardFits` is what makes them
apply: the ease factor stays between its minimum and the bound, a card with a success
behind it has an interval of a day at least, after the first exactly one day, and
`forget_count` is the failures in a row modulo 256.  Without the second a success
could shorten an interval of 7 to the 6 days of the second repetition.
`EaseStaysLow` (`MaxEF <= 1795`) is an assumption on the learner: 155 answers of
quality 5 in a row, of intervals up to ten years, would be needed to break it, and
then 65536 wraps.

*Study engine.*  `TypeOK` is not inductive: a hash may point past its table and the
next row would then be filed wrongly.  `Tables` adds that ids are the positions,
that hash and table name each other's rows, and that no key occurs twice; one lemma
per action shows that it is kept (`AddItemTables`, `CreateUserTables`,
`CreateTables`, `AnswerTables`, `RebuiltType`).  `DueItemsExact` needs a second
invariant: the index is marked dirty, or stale, or it is a sorted permutation of the
records (`IndexSorted`); a sorted order lets the scan stop at the first record in
the future (`OrderFindsDue`).  The queue is one scan of that order in two passes;
what `SelectSeq` and its bounded prefix keep is described by positions (`Nth`,
`Collected`), and `OrderMakesQueue` holds for every length of the buffer, which in
the code is `max`.

*Review.*  That only the unsaved answers are at risk does not follow from itself: an
answer could go nowhere if the hash pointed past the table, one whose save failed could
be of an item without a record, and a save could bring in less than was missed if an
item had two records in the file.  `AnswersSaved` excludes all three (`Hashed`,
`HasRecord`, `OneEach`).  `TotalFits` assumes fewer than 65536
reviews of one record.  That no overdue item is left out rests on `OverdueCovered`:
every process rebuilds the index from the file it loads before anything is answered,
the records in memory are those of the file with later reviews, and an item leaves
the queue only by being answered or skipped.

*File.*  `Handles` (only a client with a table is ever in the middle of a save)
gives the types and `BrokenForGood`.  For clients that take turns, the invariant says
of the client in each phase what the temporary inode holds: a prefix of the image of
its table as long as what it has written, all of it once closed, and that the target
is another inode which holds the image of some table that contains everything stored.
`WriteExtends` and `PrefixWhole` carry the prefix from cell to cell, `ReadBack` says
that a load returns what was written.  The refinement maps `rename` to `Replace` and
every other step to `Load`, `StartNew`, `AddRow`, `Leave` or a stutter.

*Cache.*  Every call is a composition of operators on the struct, and each operator
has its lemma: what it does to `hash`, the pool, the lists and the counters.  The
invariant comes in layers, because they need different assumptions.  `Sound`: offsets
point into the pool at entries with the right key, the bytes of the undeleted entries
are within `mem`, and that within the limit.  `Exact`, as long as nothing was written
past the hot cache: the counters count.  `Cool`: either the slots used in this
millisecond were used by its look-ups, so that up to the `HotSize`th of them a
replacement finds an older slot, or the array was overrun and there were more look-ups
than slots.  `Listing`, for callers who batch
new keys only: the hash holds the one undeleted entry of each key and `latest` has it
too unless it has expired; only a compaction drops an expired entry from a list,
and then every other one with its key.  `Turn` says of a step that it keeps each
layer and moves permanent values of no key but its own; one lemma per action proves
it.  Bytes are sums over sets: the library's induction principles have operators
for parameters, so `SumUnique` and `SumExists` argue with a smallest counterexample,
which the well-foundedness theorems give, and so do eviction and the items of a
batch.

*Sessions.*  A session may start from an `index.bin` whose bucket array is older than
the nodes in `cache.bin`: since it was written nodes were added, unlinked and, when the
array doubled, relinked.  As long as it was not doubled the old array is right about the
keys nobody changed; once it was, about none (`AtRisk`), changed or not.  Links only
ever point to later nodes (`NodesUp`), so a walk from any bucket, old or new, comes to
an end (`ChainIs`).  What it meets is said without sequences: for a bucket array and a
set of nodes, `Closed` (buckets and links stay in the set and in the bucket) and
`Unjumped` (no link of the set passes over the node) make a walk meet the node and
nothing foreign (`ChainClosed`, `ChainReaches`).  Both are kept for the present array
(`UnlinkOrdered`, `GrownOrdered`, `ResizedOrdered`) and for every older one whose size
divides it (`UnlinkOther`, `GrownOther`, `ResizedOther`): `Moves` collects this for a
step that changes the keys `K`, and composes (`MovesThen`), so that eviction,
replacement, store and rebuild are chains of small moves.  A doubling that is broken off
leaves links of both kinds; `HalfOther` shows that they still lead no older array out of
its buckets.  `Live` says of the keys outside `lost` that hash, tree and sorted array
have exactly their readable entries, and of those outside `AtRisk` and `lost` the same
of what a session would load; `Resting` is what is left of that between sessions,
`Booked` says that the histories cover what they should, and `Tallied` that
`entry_count` counts, in memory or in the header, unless it is `uncounted`.  `Persisted`
is their conjunction.  A kill inside a call is a chain of the moves that have happened
by then, and an entry that is half written is one of the key `Nameless`, or one of its
own key with a torn value.

*Lists.*  None of the four properties is inductive: a removal goes by key in the array
and in the tree, by offset in the tags, and a store adds a node that no removal will
look into.  `Sound` says of each list only what it owes the entries that can be read:
the index finds them, array and tags list them, exactly one node of the tree does
(`HashOk`, `SortedOk`, `Filed`, `TagsOk`); of an entry that cannot be read any more a
list that still has it has it once.  This is what makes removal by key right although it
takes whichever entry of the key it meets: by then none of them can be read (`Gone`), in
a store because the old entry was removed or flagged before, in `cache_del_namespace`
because its first pass flagged them all.  Flagging and expiry change the pool only, and
every list of a pool is one of the pool that has aged (`AgedCache`).  That a lower bound
is one needs the order and nothing else (`LowerBoundIs`: between `l` and `r` lies what
is looked for, and the distance halves); of a removal's search only that what it finds
has the key (`PlaceOfIs`), as an entry that it missed could not be read anyway.  The
keys of a namespace are then a slice (`SliceIs`), which is what a prefix search, a range
search and the deletion of a namespace read. `FindOrCreateChild` may only add nodes
(`IsGrown`), and the node at which a path ends has that path, so that a new node of the
same path takes nothing from an old one.  An iterator owes what is due and lies before
it (`Iterated`): a list that only grew has kept its places, a sort or a removal starts
the history again.

*Vectors.*  `Sound` has, for the graph in memory and for the one in `index.bin`,
`Shape` (fields, slots, links within their room, the free list), `Counted`, and
`Stands`: live nodes and members of the array are the same, and a removed node stands
for a deleted entry, which is why no insertion meets an id it has.  `AsStored` is kept
while the graph has not grown after it was read back.  Entries only ever get older
(`Later`), so an image stays right about them while later sessions go on.  A search
moves within `Reach`, the live nodes and the entry point, which may be removed and
whose pointer is then only followed if it is mapped.  The priority queue is no heap,
and nothing is claimed of its order: pushing and popping keep its items apart and
among the nodes seen (`PqPush`, `PqPop`), which is enough for a result to be sound.
Insertion is one loop over the levels and one over the neighbours found, each of which
keeps every list within its room (`LinkIs`, `LinkLevelIs`).  The proof of
`VectorsAsStored` failed at first where a graph that had grown after its reading was
saved and read again: the history has to be saved with the graph, and TLC's two
sessions had not shown it.

*Loops.*  The loops of both are recursive functions over their turns.
`LoopExists` gives such a function from the least-number principle (`LeastNumber`),
and `LoopStays` carries what every turn keeps to its end; every proof about a loop
applies the two.

*Servers.*  `ToldTheTruth` speaks of calls that have returned; to be kept it needs
what is known of the others: how many replies of which kind are on their way, that a
call without a reply was not executed, and that replies are lost by a close only
while unread data of the same call stands behind them.  The invariant has `Plumbing`
(who waits, who is served, where the thread is), `Served` (the history ends with the
client being served) and for each client a statement about its `View`, the state of
its side with its traffic, which is what the server has received and not consumed
followed by what has not arrived: `Counted` (numbers of calls), `Flowing` (while the
server reads from it, its texts come in the order of its calls, behind what has been
executed), `Told`, and `Matching` (a client that is not astray has one call on its way
at most, and over the line protocol its line feed is the last piece).  `recv`
moves pieces within the traffic, a dropped line end or the close of a connection
takes a beginning of it away, an execution takes the first command (`ConsumedGood`,
`RefusedGood`, `ExecutedGood`); steps about another client change nothing in the view
(`FrameGood`).  Where the rest of a cut call is executed, a reply goes out that belongs
to no call: the client is astray from then on, and of it only `Counted` and `Flowing`
are kept.

Assumptions: the named `ASSUME`s of the modules, and `Alone`, `Careful`,
`EaseStaysLow` or `TotalFits` where stated.  `CacheAssumption` has a hot cache and a
candidate buffer of at least one slot and a positive bound on the clock.  With `Alone`
or `Careful` FALSE the runs `file_alone` and `cache` end in counterexamples.  Who
meets them: `cli.py` used by one person takes turns, `api.py`, whose threads load and
save their own copies, does not; `server.c` has no batches and so is careful, and the
batch handler of `http_server.c` passes on the keys of the request as they are.

Five theorems are conditional on a history instead, because no assumption that a
client meets would do.  `DueItemsExact` and `QueueAlwaysWellFormed` hold until an
answer goes unreported: for `test_sm2.c`, which reports every one, always; for
`engine.py` and the Lua binding, which report none, in the first query of a process,
which is the only one `cli.py` makes (what that gives a review is
`NoOverdueItemLeftOut`).  `CountExact` holds until a look-up writes past the hot
cache, which nothing in the code prevents; after it nothing is modelled.
`CountersAlwaysKept` and `ClientsKnow` name the kills and the cuts they do not cover.

Every safety property that a passing run checks is a theorem.  Only model-checked is
all liveness (`MasteredInTheEnd`, `EverythingMastered`, `EveryCallReturns` and
`StopsInTheEnd`): TLAPS cannot treat fairness and ENABLED.

## 5 Fairness

`MasteryCard!FairSpec` assumes weak fairness of a successful review: the learner
does not stop studying.  `CliReview!ReviewSpec` assumes it of the step of a running
session and of midnight once the day is done: a process that waits for an answer
gets one, a learner who is done comes back the next day.  Both are assumptions about
people; the code contributes that every answer leads on.  `CacheServer!FairSpec`
assumes that the server's thread runs, that a blocked call returns what has arrived,
and that a client which has nothing more to ask leaves in the end; the servers have
no timeouts, so without the last a silent client keeps everybody waiting.  Nothing
fair is assumed of kills, failing writes, skips, wrong answers, calls or the stop of
a server.  The other modules have safety properties only: their steps happen when
callers make them.

## 6 Where code and documents disagree

Shown by a run:

1. `review_lost` - "SM-2 makes sure that due reviews happen"; an item failed at
   first sight, or skipped, is in neither the due nor the new list afterwards.
2. `vectors_reach` - "return the k most similar results"; when the entry point's
   node is removed, the next vector gets its slot with empty neighbour lists, the
   search for neighbours starts and ends at the new node itself, and every other node
   is out of reach of the approximate search.

Seen by giving a passing run another constant or property:

- `study` with `Notifies = {FALSE}` and `~stale` dropped from `DueIndexExact`: the due
  index is called sorted by next review, but a client that reviews through `engine.py`
  does not mark it dirty, and a second query of the process lists what is not due.
- `file_alone` with `Alone = FALSE`: all processes write one temporary name, so
  `TargetComplete` fails although wordcard.c:664 says "atomic replacement"; and ids
  come from private copies, so `StoredStays` fails and two rows get one "unique id".
- `cache` with the invariant `cache.hotCount <= HotSize`, as cache.c:156 says that
  hot_count "should never exceed CACHE_HOT_SIZE": reading one key more within a
  millisecond than the hot cache has slots finds no older slot and writes one past the
  array, over `hot_count`, `entry_count` and `deleted_count`.
- `server` with `stopped ~> pc = "off"`, where cache_server.h:32 has `cache_server_run`
  block "until cache_server_stop is called", "from a signal handler or another thread":
  called from another thread it does not wake the `accept`, and without one more client
  the server never returns.
- `cache` with `Careful = FALSE`: `cache_batch_set` over existing keys keeps the old
  entries and `ReadsLatest` fails in two steps (eviction of the old entry unmaps
  the new one; a hot slot still answers with the old one).

Seen while modelling, without a run of their own:

- README.md:184 defines mastered as repetitions >= 5 and interval >= 21 days; a
  mastered card that is forgotten stays mastered at one day.
- `cache_batch_set` that does not fit and finds nothing to evict loops 2^64 times
  (`candidate_count - 1` is unsigned); the comment at cache.c:603 promises a fallback.
- `cache_expire` does not return memory; design.md:229 says eviction goes down to
  80% of the limit (it stops at the first fit), design.md:230 that a read marks an
  expired entry as deleted (it does not).
- The eviction buffer of `cache_set` "replaces the newest, keeping the oldest"
  (cache.c:453): it compares with its last place only, so beyond 4096 candidates the
  oldest entries may be left out of it.
- `cache_set` marks an entry neither invalid before nor valid after it is written: a
  process killed in between leaves one with half a value, which a rebuild without
  `index.bin` serves.  `cache_close` writes `index.bin` before the header, and a kill
  between the two leaves an `entry_count` of another day.  After `hash_resize` and a
  kill the old bucket array of `index.bin` loses keys that were saved and never changed
  since.  No document claims more.
- `hash_insert` does not notice a full pool (hash_index.c:125: NULL minus the base is
  not 0) and writes to the null address.
- The branch "header corrupted, attempting recovery" of `cache_open` is dead:
  `pool_init_with_header` has already refused the file.
- After `index.bin` is loaded `memory_used` is 0 and wraps when an old entry is
  deleted; the tag index is not rebuilt, so a tag search misses what was stored in
  earlier sessions; after a rebuild there is no namespace tree.
- Below the first level every store makes another node for the same namespace.
- `extract_tags` loops for ever on a value that ends in the middle of a UTF-8
  character.
- From a million entries on, building the skip list and rebuilding the array would
  call each other.
- `pq_pop` compares children with what the slot held before, so the queue is no heap
  and a search can return a farther vector; expired entries use up the 2k places a
  search looks at; `hnsw_deserialize` restores neither the count of live nodes nor
  the vector pool, and the first growth afterwards points every vector into memory
  that was never written; `cache_vector_index_add` accepts another dimension; a search
  for many results leaves `ef_search` widened for all that follow; what `hnsw_insert`
  returns is ignored (vector_index.c:130).
- A command of which `recv` cut off the end is dropped and both sides wait, unless the
  rest is a command by its first word: then that is executed, and its "+OK" is taken
  for the reply to the call, which was not; a value with a line break is several
  commands and puts the replies out of step; a quote cuts a value;
  `cache_server_stop` before `g_server_running` is set is forgotten; pipelined HTTP
  requests are dropped; "Connection: close" in a body closes the connection.
- `forget_count` wraps after 255 failures; an interval wraps at 65536 before it is
  capped once the ease factor exceeds 17.95.
- `daily_new_limit` is per queue, not per day.
- Questions of 128 bytes and uids of 64 are cut when stored and never found again.
- `POST /api/v1/review` calls `find_mastery`, which `engine.py` does not define.
- `wc_load_db` grows the mastery array past 1024 records but not
  `mastery_due_sorted`.
- task.md:44 speaks of saving every 60 seconds; no code does.  `cli.py` ignores the
  result of `save`.  The data is never fsynced.

## 7 What is not modelled

- Rendering, speech, importers' parsers, source analyzer, metrics, card pictures:
  conversions and calls into external libraries, with no state that lasts.
- Threads inside one `wordcard_db_t`: no client of the repository shares a handle.
- Addresses: `realloc` of the tables and remapping of the pool move what callers
  still point to.  Listed as hazards.
- Memory that runs out: `malloc` and `realloc` failures anywhere, among them those of
  `hnsw_insert` (hnsw.c:464-483); of a full disk, the pool allocation of a hash node
  (hash_index.c:125), which ends the process.
- A kill inside the rebuild of `cache_open`, and what happens after a write past the
  hot cache.
- Power failure below the file system; reboots, which set the clock of the cache back;
  hash collisions of 64 bits; how good the results of HNSW are.
- Sources, chapters, progress and daily statistics of the database.
- Regular-expression, fuzzy and combined searches of the cache, and their pages; the
  skip list; the characters of keys, values and tags.
- Server commands that change nothing beside GET (PING, EXISTS, COUNT, SEARCH,
  STATS) and SYNC; HTTP batches, listings and statistics; HTTP clients that do not
  wait for an answer.
- `hnsw_insert_parallel`, which nothing calls, and the branch of `hnsw_insert` for an
  id that exists, which no caller reaches, as offsets are never used twice.
- The GUI: its callbacks come from a toolkit outside the repository, and the order in
  which it calls them is not to be had from the code.

## 8 Limits and what would come next

The cache modules share no variables: each takes the part of `cache_t` its
properties are about, and what it leaves to another is said in its header.  A
composition of `CacheStore` with the lists and the chains has too many states for TLC
at the sizes at which anything happens.

What the reader should not take the checks for:

- The properties of the due index and the queue speak of clients that report their
  answers, and of the first query of those that do not; only `test_sm2.c` reports.
- `TargetComplete`, `StoredStays` and `SaveIsAtomic` speak of clients that take turns;
  the threads of `api.py` do not, and `BrokenFileIsKept` is what is left for them.
- `ReadsLatest`, `ReadableIsListed` and `PermanentStays` speak of batches of new,
  distinct keys; the HTTP batch handler does not see to that.
- `CountIsExact` ends with the first write past the hot cache, and so does the model.
- `ToldTheTruth` says nothing of a connection on which the rest of a cut call was a
  command; that it can be one is left to `RestsOf`.

In order of importance, what could follow:

1. Reboots in `CachePersist`: entries whose times lie in the future.
2. Capacities and moved arrays of the database; daily statistics.
3. The skip list of the cache, with its threshold as a constant.
4. The GUI's pending action, given a statement of when the toolkit calls back.
