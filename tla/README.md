# A TLA+ model of database-internals

This directory specifies the storage engine of the repository, read with its
tests and the notes beside it: the code under `storage/`, `buffer/`, `logging/`,
`index/`, `type/` and `utils/`, `common/channel.h`, and the index-organized table
of `ch1/`. Each module models one class or one layer, TLC checks it on small
instances, and TLAPS proves for every instance the safety of the log manager, of
the disk manager, of the disk scheduler, of the ARC replacer, of the buffer
pool, of the slotted page and of the index-organized table, and that all of these
but the replacer and the table implement their abstract specifications. `PROJECT.json` maps each definition to the lines it
translates and lists the runs, the hazards and the theorems.

## 1. Inventory

| component | state it keeps | operations | how others reach it |
|---|---|---|---|
| `DiskManager` | the file, `global_metadata_` (freelist head, next page id) and its copy in page 0, the chain of freelist pages | constructor, destructor, `readPage`, `writePage`, `allocatePage`, `deallocatePage` | one thread: the scheduler's worker; `BPlusTree` calls it directly |
| `DiskScheduler`, `Channel` | a queue under a mutex and a condition variable, the worker thread, a promise per request | `Schedule`, `Schedule_Single`, `DeallocatePage`, the worker loop, the destructor | the pool and the guards put requests in and wait on futures |
| `ArcReplacer` | two resident and two ghost lists, two maps, the target and `curr_size_` | `RecordAccess`, `Evict`, `SetEvictable`, `Remove`, `Size` | called by the pool and the guards, partly without the pool's latch |
| `BufferPoolManager`, page guards | page table, free frames, frame headers (pin count, dirty flag, reader-writer lock, bytes) | `CheckedReadPage`, `CheckedWritePage`, `FlushPage`, `FlushAllPagesUnsafe`, `DeletePage`, `NewPage`; on guards `GetDataMut`, `Flush`, `Drop`, moves | any thread; shares `bpm_latch_`, the replacer and the scheduler with every guard |
| `LogManager` | append buffer, fill buffer, `currentLSN`, `flushedLSN`, `flushing_`, the log file | `append` and the functions that build records, `flush_to` | any thread; two mutexes and `flush_cv_` |
| `crc32c` | none | `extend`, `finalize`, `compute` | used by `append` for each record |
| `SlottedPage` | the header, slot array and record heap in one page | `insertRecord`, `insertRecordAt`, `deleteRecord`, `getRecord`, `updateRecord`, `compactify` | wrapped around a page by `BPlusTree`; no concurrency |
| `BPlusTree`, iterator | `root_page_id` and the pages of the tree | `insert`, `remove`, `get`, `scan`, the splits | single threaded today |
| `Value` and the types | a number or string with its type and width; who owns the string | constructors, arithmetic, comparison, serialisation | held by tuples |
| `Column`, `Schema`, `Tuple`, `Key` | columns with their offsets, the values of a row | serialisation of all of them, projection, `setField`, `extractKey` | the tree compares keys where they lie in a record |
| index-organized table | `rows`, `data`, `secondary_indexes` | `insert`, `remove`, `get`, `set`, `exists`, `scan`, `secondary_scan`, `build_secondary_index` | stand-alone program |

What makes each part hard, and what makes it correct:

* **DiskManager**: crashes between two writes, failing and partial writes, a
  freelist whose pages are themselves free pages, offsets that wrap. A page must
  never be both in use and free, and the file must open after any crash.
* **DiskScheduler**: threads, a condition variable, shutdown during calls. Each
  request is answered once, in an order all can agree on; nothing hangs.
* **ArcReplacer**: four lists and two maps kept in step by hand. They must
  agree, stay within the policy's limits, and give up the right victim.
* **BufferPool**: steps of one call that leave the latch, guards that outlive
  calls and are moved, write-backs, requests that fail. A page must read back
  what was written to it, a frame must belong to one page, and no call may be
  undefined.
* **LogManager**: group commit with a leader, failing system calls, crashes. No
  record is lost or reordered; what is reported durable is durable; a reader of
  the log gets back what was put in and takes no damaged record for a whole one.
* **SlottedPage**: moving records over each other, slot numbers that change. A
  page must behave as a list of records.
* **BPlusTree**: tombstones inside a binary search, splits that must leave the
  tree searchable, an iterator over a tree that changes.
* **Types and tuples**: widths and signs at the boundaries, offsets that two
  pieces of code compute each in its own way, strings with or without an owner.
  A row must read back as what it was, and the order of the bytes must be that
  of the values.
* **Index-organized table**: indexes derived from rows that change behind them.
  An index must agree with the rows it was built from.

## 2. Modules

| module | models | instance and abstract specification |
|---|---|---|
| `DiskManager` | `storage/disk_manager.*`, `storage/freelist_page.h` | implements `PageStore`; proofs in `DiskManagerProofs` |
| `DiskScheduler` | `storage/disk_scheduler.*`, `common/channel.h` | `MCDiskScheduler`; implements `AtomicDisk`; proofs in `DiskSchedulerProofs` |
| `ArcReplacer` | `buffer/arc_replacer.*` | `MCArcReplacer`; proofs in `ArcReplacerProofs` |
| `ListLemmas` | facts about lists, orders and recursions | used by all proofs but the log manager's |
| `BufferPool` | `buffer/buffer_pool_manager.*`, `storage/page_guard.*` over `ArcReplacer` | `MCBufferPool`; implements `PageCells`; proofs in `BufferPoolProofs` |
| `LogManager` | `logging/log_manager.*`: order, threads, durability | implements `DurableLog`; proofs in `LogManagerProofs` |
| `SlottedPage` | `storage/slotted_page.*` | `MCSlottedPage`; implements `RecordList`; proofs in `SlottedPageProofs` |
| `BPlusTree` | `index/b_plus_tree.*` | `MCBPlusTree`; implements `OrderedIndex` |
| `Bytes` | memory as sequences of bytes | used by the next five |
| `Types` | `type/value.h`, `type/*_type.*` | `MCRecords` |
| `Tuples` | `type/column.*`, `type/schema.*`, `type/tuple.*`, `index/key.h` | `MCRecords` |
| `LeafRecords` | a `Tuple` and the records of a leaf, from the caller's side | `MCRecords` |
| `Crc32c` | `utils/crc32c.h` | `MCRecords` |
| `LogRecord` | `logging/log_manager.*`: the bytes of records | `MCRecords` |
| `IndexOrganizedTable` | `ch1/index_organized_table.cpp` | `MCTable`; proofs in `TableProofs` |

How they meet: `BufferPool` contains `ArcReplacer` and stands on a disk that is a
function from pages to contents. `PageStore` and `AtomicDisk` are what
`DiskManager` and `DiskScheduler` are shown to be, and justify that disk for as long as
the manager's file has no damage (see below).
`BPlusTree` stands on pages that are lists of records, which is what
`SlottedPage` is shown to be. `MCRecords` composes `LeafRecords` with
`LogRecord`: the bytes of a record go into a leaf and into the log.

A definition whose comment begins with *Mutant* is a changed copy of the one
that follows it, with a bug that code could have. The module does not use it; it
is there so that each property can be seen to fail when the code is wrong.

### DiskManager

`meta` is `global_metadata_`, `cache` the file as `pread` sees it, `disk` the
file as of the last `fsync`. A call is one action that reads what the code reads
first and leaves in `todo` the writes still to be made; `Pwrite`, `Fsync`,
`PwriteMetadata` and `AssignHead` make them one at a time, in the order of the
code. Between any two of them a write may fail or be partial (`FailingWrite` is
the throw of `HandleWriteError`, `FailingWritePage` that of `writePage`), the
process may be killed (`Kill`: the page cache survives) or the machine may lose
power (`PowerCut`: of what was not synced, any part may be on disk).

A write that is cut short leaves the page old, new or in between, with a field of
four bytes as the grain. What in between means depends on the two contents: of
two metadata, the head of one with the next page id of the other; of two freelist
pages of a chain, which differ in the count and its last entry, the old or the new
list, or (`Cuts`) the longer count over whatever id stands behind the shorter; of
contents of two kinds, bytes of no kind (`Torn`). `Tears` and `Cuts` are used for
a failing write and for the parts a power cut leaves alike.

Two things go wrong in the code, and `damage` records them when they happen:
`"offset"`, a page whose 32-bit offset wraps is handed out (`Offset`; nothing limits
the ids), and `"list"`, a longer count was left over an entry that is not its own.
The properties speak of the states before the first damage; section 4 says what comes
after. A head page that holds anything but a freelist, which needs damage, ends the
model's calls.

Of the environment it is assumed that a field of four bytes is written whole, and
that `fsync` does not fail (the code ignores its result). The bytes of a freelist
page behind its count are not kept, as they may be any. In the constructor, the
failing write of a new file leaves no manager and perhaps a file that is refused.

### DiskScheduler

The queue holds requests with their client (`Tagged`); `Schedule` lets a client
put a batch, one `Put` and one `Notify` per request, as `Channel::Put` unlocks
between them. The worker `Get`s, sleeps, `Run`s the request on an abstract disk,
which may throw, and `Reply`s through the promise. That disk does what
`DiskManager` does and no more than it checks: a page may be deallocated while it is
in use, or twice (`freed` counts), the pages on the freelist are rewritten by the
allocator, and a request that throws may leave any bytes in the pages it writes. `Stop`, `StopNotify` and
`Join` are the destructor. `SpuriousWakeup` is the one the condition variable
allows.

### ArcReplacer

The lists are sequences whose index 1 is the front, the maps are functions.
`RecordAccess` is a disjunction of the code's branches: alive, on a ghost list,
forgotten (in the map and on no list) and a miss. A forgotten page ends in
`fatal`, where the code divides by zero or calls `LogFatal`. The
`LogFatal` of a miss, for lists that have grown beyond the limit, is what the
guard of `Miss` on their lengths excludes; that guard never fails, by `ArcLimits`,
which is proved.

### BufferPool

`pc[t]` and `job[t]` say where a thread is in its call. A step is a critical
section of `bpm_latch_`, an access to a frame, or a request to the disk and its
answer; the tests the code makes outside the latch are steps of their own, so
that what they found may no longer be true when it is used. The two `Checked`
functions differ only in the mode of the guard they return, and are one action
with that mode as its parameter. `CallsAreDefined` is violated when a call
dereferences `end()` or takes the front of an empty list. `Race` is the data race
of two unlatched calls of the replacer, and ends in an undefined state.

A request may fail wherever the code waits for one (`LoadFails`,
`EvictWriteFails`, `FlushWriteFails`, `DeletionFails`): the call throws, and what it
did to the frame before stays done. After a `DeletePage` that throws the frame is
free and the page still allocated; its users do not ask for it again. A guard has the variable it lives in; `MoveGuard` is the
move constructor and, onto a variable that holds a guard, the move assignment,
which drops that guard first (`Assign`).

### LogManager

A record is its number and its thread. `AppendRecord` is `append`; `FlushTo` is
`flush_to` up to `flush_mtx_`, and `Done`, `Lead` and `Wait` are the three ways
through its loop. The leader goes through `Copy`, `Open`, `Write` (one record
at a time), `Sync`, `SyncDir` and `Publish`; `Fail` is a system call that fails
at any of them, half a record written perhaps. `Crash` keeps of the file
what was synced and any part of the rest, and nothing when its directory entry
was never synced. `Init` allows both a log whose path is set and one whose path
is empty, as the constructor drops its argument.

### SlottedPage

`page` holds the slot array, `free_space_ptr` and the bytes of the heap. A byte
tells which record it belongs to and its place in it, so a record that is moved
wrongly, cut or overwritten shows. `Packed` is `compactify`: the records are
moved one at a time, each by a `memmove` on what the earlier ones left, and the
slots close up (`CloseUp`). `LiveInOrder` is the pass over the slots that skips the
tombstones; `HeapBytes` adds up the sizes of some of them, as the size of a set of
bytes. The slot array is kept apart from the bytes; `SpaceAccounted` says that it
never reaches the heap. The page's sibling pointers and its type are left to `BPlusTree`.

### BPlusTree

A page is the list of its slots, with tombstones; the tree is the pages in the
order they were allocated, and the root. `LeafSlot` and `SeekFirstAfter` are the
two binary searches over a leaf with tombstones, loop for loop; `SearchesCorrect`
compares them with what they search for on every leaf of up to six slots. The
routing keys of a page are in order, so `ChildFor` and `InsertPair` say what the
plain binary searches over them find. `SplitChild`, `SplitInternal`,
`InsertIntoParent` and `SplitRoot` take a tree and return one, and call each
other as the code does. A call is one action: the tree is single threaded. A scan
is not: `cursor` holds the iterator's copy of its leaf, and other calls come
between its steps. `Get` returns the set of answers the code may give, because it
compares the target with bytes behind an empty string literal when the search
ends at no live slot. `Kept` and `Moved` are the two halves of a leaf that is split.
`ImplementsOrderedIndex` ties each call to the index: what `get` finds afterwards is
what it found before, changed by the record or key of this very call (and by nothing,
when the insert has split a leaf). The key is taken to be the first column: with another,
`extractKey` reads the routing keys at the wrong offset.

### Types, tuples and the bytes of the log

`Bytes` is `memcpy`: `WritePod` cuts a number to its width, `ReadSigned` restores
the sign. `Types` is a `Value` with its type, its width, the number or string,
and in `mem` who owns the string; `CopyOfDead` is what a copy of an owner is once
the original has been destroyed. `Tuples` has the two halves of each
serialisation, each read from its own function, and `KeyOf` and `FindSlot`, which
compare bytes. `LeafRecords` has one action for each thing a caller does with a
tuple and a leaf: make one, change a field, insert it, overwrite a record of the same
size, load one back, serialise the schema and open it again. `TupleDeserialize` is the
code's reader with its temporaries, and gives freed strings for a schema with
`VARCHAR`: `RowsReadBack` is about the other schemas.

`LogRecord` lays out each kind of record as the `log_` functions and `append` do:
the header's fields with their widths, the before and after images,
the sum patched into the record it covers. The images of a checkpoint are what the
code writes, zero entries in front included. They are not in the documented format
(section 4), and `LogReadsBack` says nothing of them but that the next record is where
the size of this one says. `Crc32c` is
the bitwise form of the sum; `CheckValue` compares it on eight-bit bytes with the
published check value the header quotes.

### IndexOrganizedTable

One operator for each method, with the calls it makes inside: `insert` updates
the indexes, `get` and `set` create a missing row through the map's subscript.
`IndexOf` is the loop of `build_secondary_index`, one `PushBack` for each row in the
order of the keys.
`secondary_scan` returns the keys it would visit; `Throws` says that one of them
has no row, and `RunsPastEnd` that the loop would leave the index.

## 3. Runs

| run | checks | bounds |
|---|---|---|
| `disk_manager` | `TypeOK`, `NeverLiveAndFree`, `CrashSafe`, `LeakBoundedByCrashes`, `ImplementsPageStore` | 4 pages, the 4th at offset 0, 1 id per freelist page, 2 crashes, 1 failing or partial write, up to the first damage |
| `disk_scheduler` | `OneFuturePerRequest`, `NoLostWakeup`, `ImplementsAtomicDisk`, `CallsReturn` | 2 clients with one call each, batches of up to 2, 1 page, 2 contents |
| `arc_replacer` | `TypeOK`, `ListsMatchMaps`, `ArcLimits`, `SizeCountsVictims`, `LeastRecentlyUsedFirst` | 2 frames, 5 pages, target up to 3 |
| `buffer_pool` | `TypeOK`, `FramesAccounted`, `CallsAreDefined`, `CleanPagesSaved`, `ImplementsPageCells`, `CallsReturn` | 2 threads, 3 pages, 2 frames, 3 calls and 2 guards a thread, 1 failing request |
| `log_manager` | `TypeOK`, `OneLeader`, `NoLostWakeup`, `LogIsWhole`, `FlushedSurvives`, `ImplementsDurableLog`, `FlushReturns` | 3 threads, 3 records of size 1 or 2, a buffer of 2 |
| `slotted_page` | `SpaceAccounted`, `InsertsWhereAsked`, `ImplementsRecordList` | room for 3 records of size 1 or 2 with their slots |
| `b_plus_tree` | `LeavesChained`, `ImplementsOrderedIndex`, `ScanMissesNothing`, `SplitMakesRoom` | 5 keys, leaves of 2 or 3 records, internal pages of 2 pairs, one open scan and one change between its steps |
| `records` | `RowsReadBack`, `KeysInOrder`, `LogReadsBack`, `DamageDetected` | 3 rows of four schemas, bytes of 4 bits, a sum of 16 bits, an append buffer of 280 bytes, one transaction |
| `tables` | `IndexesAgree` | 2 keys, 2 fields of 2 values, 2 rows, 3 entries in an index |

Where `TypeOK` is not listed it is a conjunct of the run's first invariant.

Why the bounds are enough. With one id per freelist page and three pages before
the wrap, a freelist page fills up, a second one is chained in front of it, and both
run empty and are handed out; two crashes let the second hit what the first left,
or what a partial write did. The fourth page is the one whose offset wraps.
Two clients and a destructor are all the roles the scheduler has. Two frames and
five pages fill every list of the ARC policy and make every trim happen. In the
pool, three pages on two frames force evictions, and three calls are a load, the
eviction of its page and a reload; the run starts with an empty pool, with pages
that may be evicted, and with resident pages. Three threads are a leader, a
waiter and an appender; three records on a buffer of two are a second batch that
starts while the first is written. A page with room for three records can have a
tombstone before, between and behind live ones, and the records of size 2 overlap
their own old place when they are moved by one. Five keys make four leaves of two
records, whose last split goes through a full parent and a full root; leaves of
three keep two records together on the right of a split. An insertion, a removal
or a split between any two steps of a scan meets it on every leaf. In `records`, a
byte of four bits puts the sign and the overflow of one- and two-byte columns
within reach of small numbers; the schemas have every type, a `VARCHAR` between
and behind fixed columns, a projection whose columns are out of order, and every
key column the code supports; three rows make a binary search turn both ways. Its
buffer holds four records with their images, which is less than a transaction of
three rows writes, so that some are refused. A record is overwritten when the leaf
has two of its three rows, and before- and after-images are then both in the log.
In `tables`, two keys with equal and with different values are what an entry of an
index can get wrong.

Several runs have users that keep to what the code supports, because with
arbitrary users the properties do not hold; section 4 and the hazards say what
then happens.

* `MCBufferPool` has *serial* users, who make one call at a time, with requests
  that may fail, and never ask for a second page while they hold a guard, and
  *concurrent* users of pages that are resident, who take their guards in the
  order of the page ids. In both, a call of the replacer is atomic.
  `CleanPagesSaved` holds for the serial users only, and says so.
* `MCSlottedPage` has an *index* user, which is how `BPlusTree` uses a page, and a
  *heap* user, who reuses tombstones when that needs no compaction; both update
  live records only. The exact space accounting is stated for the index user. No
  record is so long that its length and `sizeof(Slot)` together wrap at 16 bits.
* `MCBPlusTree` has callers that insert a key only while it is absent, never one
  below the least routing key, and records of one width; `UniqueSpec` is without
  the second condition.
* `MCRecords` gives a value the width of its column and declares the key column at
  the offset where `Tuple::Serialize` puts it. A `VARCHAR` key is the only
  `VARCHAR` and the last column. A key fits its width and is no NaN. Strings are
  borrowed, and rows with strings are not loaded into a `Tuple`.
* `MCTable` may call anything; `stale` and `miscounted` record which calls the
  indexes were not told of, and `IndexesAgree` speaks of the others.

### Fairness

Weak fairness of the steps of a thread that has begun a call, of the scheduler's
worker and of its destructor: the operating system runs every runnable thread,
and a system call returns, with an error or without. No thread is obliged to
start a call. In `MCBufferPool` a thread out of a call drops its guards in the
end, as they are scoped objects. Mutexes need no strong fairness in these runs,
as no thread takes one for ever. `CallsReturn` of the scheduler includes its
destructor. `CallsReturn` of the pool excuses a process the replacer has ended,
and `FlushReturns` a leader that has thrown: it leaves `flushing_` set, and
everyone behind it waits for ever.

Deadlock is checked except in the runs of section 4. Where a system really stops
(a crash, an ended process, a bound reached) the module has a stuttering action
`Over` with that guard.

## 4. What the code does otherwise than it says

Three runs expect a violation; `PROJECT.json` quotes the sentence each
contradicts.

* `evictable_iff_unguarded`: a page that was just loaded is not pinned; its first
  `Drop` makes the count -1, and its frame is never evictable again, or is
  evictable under the guard of another thread.
* `requested_record_durable`: `flush_to(lsn)` with `lsn = flushedLSN` returns
  while that record is only in memory.
* `records_stay_findable`: keys inserted below the least routing key leave it too
  high; the split of the first leaf then sorts the new leaf in front of the old
  one, and `get` finds the records of neither.

Seen while modelling, without a run of its own:

* A page that a miss trims off a ghost list of the replacer stays in `ghost_map_`
  (`buffer/arc_replacer.cpp:212`); its next access divides by zero or ends the
  process. `fatal` is this outcome.
* `NewPage` reads its future twice, which throws; without the throw it would return
  `INVALID_PAGE_ID` and leak the page.
* A read that fails leaves the pool one frame short; when none is left, a call
  takes the front of an empty list. A write-back that fails leaves the page marked
  clean although its bytes were never saved. The run has one failure and two
  frames, and its properties say which frame and which page they excuse.
* `flush_to` of a number beyond `currentLSN` loops for ever
  (`logging/log_manager.cpp:191` only reports it).
* `insertRecord` into a tombstone chooses its slot before it compactifies
  (`storage/slotted_page.cpp:115`), and may overwrite a live record;
  `updateRecord` of a tombstone overwrites the page's header (line 250). Both
  insertions add `sizeof(Slot)` to the length in 16 bits (line 117), so that a
  length just below 2^16 would pass for a short one.
* `BPlusTree::insert` drops its record when it splits the leaf, and returns true.
  `SplitMakesRoom` says that a second try succeeds.
* With records of different sizes `splitChild` may find every live record behind
  the middle slot, as tombstones count for it: the left leaf is left empty under a
  separator equal to its own routing key, and the records become unfindable. A
  leaf of fixed-width records has no tombstones when it is full.
* A partial write of a freelist page in `deallocatePage` (`storage/disk_manager.cpp:229`)
  can leave the longer count, which stands in front of the entries, over an id that was
  listed there before. When that page has been handed out since, `allocatePage` returns a
  page that a caller holds. `HandleWriteError` names "the 'Torn Page' scenario" and only
  throws. A power cut during the same write can do the same. (`damage` is then `"list"`.)
* `page_id * PAGE_SIZE` wraps at 32 bits (`storage/disk_manager.cpp:111`): page 2^20 is
  handed out like any other and lies on page 0, whose metadata its first write
  replaces. (`damage` is then `"offset"`.)
* The payload of a checkpoint is not as its comment describes it
  (`logging/log_manager.cpp:108-147`): there are no counts, the images begin with
  a zero entry for each real one, and `before_len` and `after_len` are not 0. A reader
  that validates the documented size refuses every checkpoint.
* `Tuple::Deserialize` copies a `Value` that owns its string, and the original frees it
  (`type/tuple.cpp:78`; line 54 names this, and the test that expects the string back,
  `tests/type/tuple.cpp:117`, is commented out).
* A `DeletePage` whose request fails has already taken the page out of the pool, and
  leaves it allocated.
* In the index-organized table `remove`, `set`, `get` and an overwriting `insert`
  leave the indexes as they are, and `secondary_scan` then throws or visits the
  wrong rows; `insert` counts a row it overwrites.
* A page allocated at the end of the file cannot be read before it is written
  (`storage/disk_manager.cpp:148` says that it is extended).

## 5. Proofs

Eight modules hold proofs, one of them (`ListLemmas`) only what the others need: facts
about lists, an induction over positions (`Counting`), and what follows from it, that a
finite set can be put in order (`CanBeOrdered`) and that a recursion over positions has
a value (`Recursion`). Each theorem is about every value of the constants, under the
assumptions named in the module that declares them.

### LogManager (`LogManagerProofs`)

For every set of threads, record sizes, buffer size and bound on the numbers
(assuming `LogAssumption`: sizes are positive, the rest are naturals), `TypeOK`,
`OneLeader`, `NoLostWakeup`, `LogIsWhole` and `FlushedSurvives` hold in every
reachable state, and the specification implements `DurableLog`.

Neither of the last two invariants is inductive. `FlushedSurvives` needs to know
that a leader about to publish has `batch_end = synced` and a linked file; that
needs `batch_end = Len(file) + Len(fill_buffer)` while it writes, which needs that
nobody else writes (`OneLeader`) and that the file began where the numbers of the
batch begin. So the invariant `Inv` adds

* `Numbered`: where each record is, from the front of the file through the rest
  of the batch to the end of the append buffer;
* `Batch`: what the leader knows at each of its steps;
* `Settled`: between batches everything is synced and the file is linked;
* `SyncedInFile`, `TornIsLast`: what is on disk is in the file, and nobody writes
  behind a torn record.

The proof has one step per action and one below it per part of `Inv`. The
refinement uses the same invariant: file, batch and buffer in a row are the log
(`WholeType`), the leader's `Copy` and `Write` move records inside it and
leave it as it is (`SameLog`), and `StepRefines` shows for each action which step
of `DurableLog` it is, or that it is none (`Stutter`).

### DiskManager (`DiskManagerProofs`)

For every number of ids per freelist page, place of the wrap, bound on page ids,
crashes and failing writes and set of payloads (`DiskAssumption` only says that they
are numbers, the first three positive), `TypeOK`, `NeverLiveAndFree`, `CrashSafe` and
`LeakBoundedByCrashes` hold, and the specification implements `PageStore` up to the
step that does damage. All but `TypeOK` speak of the states without damage.

The invariant is `IInv == Typed /\ Scripted /\ Placed /\ (damage = {} => Inv)`.
`Placed` is that metadata stand in page 0 alone, so no freelist page is ever read
as a header. `Inv` is `Formatted /\ \E p, L : Accounted(p, L)`: there are a page `p`
in transit between the two lists (or none) and a set `L` of lost pages, so that the
free chain, `p`, `L` and the live pages are all the pages of the file, each once.

* `L` has at most as many pages as there were crashes, unless a write failed.
* `Stage` says for each point of a running call which writes it has still to make
  (`todo`) and how far the metadata are ahead of the freelist pages.
* A power cut keeps any part of what was not synced. The chain must therefore be
  right not only in `cache` and `disk` but in each page-by-page mix of the two, and
  it is the invariant that the chain is one and the same in all of them
  (`Mixes`, `SoundIn`). This is what the order of the code's writes and syncs buys,
  and what the invariants that the run checks do not say.
* A write of the metadata that is cut leaves the head of one with the next page id of
  another. So the freelist is sound for each head paired with each next page id that
  is in memory, in the cache or on disk (`Known`, `Throughout`): after a failed write these
  differ for as long as no other write of the metadata succeeds, and a crash may then
  pick any of them.
* No id in use has an offset that wraps (`Fits`): the invariant does not assume this of
  the constants, it derives it from the absence of damage, and with it that a page's
  bytes are its own (`OffsetIsPage`).

Torn data pages are no part of it: they are pages a caller holds, or lost ones
(`TornPages`, `PowerCutPages`). A head page that was cut while an id was taken or
listed is the old or the new list, each sound with the page in transit added to `L`
(`TakingWrites`, `ListingWrites`); the one other outcome is the damage.

The refinement uses the same invariant: the writes of a call leave the content of
the pages that are held as it is (`CallSpares`), failing ones too, and `StepRefines`
maps each action to its step of `PageStore` or to a stutter. TLC checked the invariant
on the run's bounds before it was proved.

### DiskScheduler (`DiskSchedulerProofs`)

For any clients, pages and workload (`SchedulerAssumption`,
`WorkloadAssumption`: a batch is a non-empty sequence of requests),
`NoLostWakeup` and `OneFuturePerRequest` hold. The latter says that the number of
a client's unanswered futures is the number of its requests in the queue and in
the worker's hand. `Inv` states that count as the cardinality of the places the
requests have in the queue (`Counted`), which an append extends by one and a
removal from the front shifts, and adds `EndsLast`: the end marker is put once,
behind every request, and the worker leaves with it.

Theorem `Implements`: the scheduler implements `AtomicDisk`, its fairness aside. The
mapping gives each client the request in the worker's hand and then its requests
in the queue, in order (`InQueue`, a function by recursion over the queue). That
this function exists, that a put at the end adds the last request of its client
and that a take at the front removes the first (`Collected`, `InQueueAppend`,
`InQueueTail`) is shown by induction over the positions. The library's induction
theorems take an operator, which the provers do not instantiate; `Counting` states
the same of a set, by way of the least number that is missing from it. `Schedule`
fills the caller's buffer in one step of the atomic disk only because a client out
of its calls has nothing pending (`Quiet`), which `Counted` turns into an empty
share of the queue.

### ArcReplacer (`ArcReplacerProofs`)

For any positive number of frames, any pages and any bound on the target
(`ArcAssumption`), `TypeOK`, `ListsMatchMaps`, `ArcLimits` and
`SizeCountsVictims` hold, and every eviction satisfies `LeastRecentlyUsedFirst`.
Four lemmas say what the lists' operations do to the set of elements and to its
injectivity (`Pushed` and `Popped` of `ListLemmas`, `Erased`, `Joined`), and
`GreatestExists` that a search over a list finds what it looks for. `Inv` has one
part for each thing the code keeps by hand: `Placed` (a resident frame is on the
list its status names), `Remembered` (a page on a ghost list is in `ghost_map_`,
which may hold more, section 4), `OnePlace` (no page twice), `Counted`
(`curr_size_`) and the limits. The limits need `FrameLeft`: a frame that enters
was on neither list, so the resident lists are shorter than the number of frames,
and the ghost list the code then trims is not empty.

The order of eviction is about `MCSpec`, which remembers in `used` when a frame was
last accessed. Its invariant is `InOrderOfUse`: what comes before what in `mru` and
`mfu` does so in `used` too. A push to the front and an erasure keep that
(`PrecedesPushed`, `PrecedesErased`), `VictimIsLast` says that a scan takes the
evictable frame nearest the back, and the two together give theorem
`EvictsLeastRecentlyUsed`. A frame also leaves by `Remove`; that this is no eviction
needs the last part of the invariant, that the page of a resident frame is not in
`ghost_map_`, forgotten pages included.

### BufferPool (`BufferPoolProofs`)

The theorems are about `MCSpec`, the pool under the users it supports (section 3):
with arbitrary users its properties do not hold. They are for any threads, pages,
contents, positive number of frames and number of failed requests
(`PoolAssumption`; `UserAssumption` only says that the pages of a warm pool and the
two contents on its disk exist): `TypeOK`, `FramesAccounted` and
`CleanPagesSaved` hold in every reachable state, and `MCSpec` implements
`PageCells`. The pool's calls of the replacer
are steps of `ArcReplacer` (`SameOperations`), so the replacer's own invariant is a
part of the pool's, and what a step of the replacer forgets or learns comes from
`ArcReplacerProofs` by name (`Sets`, `Accesses`, `Evicts`, `Removes`). The other
parts of `Inv` are

* `Users`: what the two kinds of users keep to, between the steps of their calls:
  only a serial user brings a page in, and then nothing is guarded;
* `Accounts`: each frame is free, lost, resident under one page, or in the hands of
  one call, whose victim is resident until `EvictErase`;
* `Tracked`: the replacer knows a resident page by its frame, or the call that is
  about to tell it so has the frame, or a write of the page has failed;
* `JobOk`: what a call has read and goes on to rely on without the latch: that its
  page is still resident, still absent, still in the frame it noted, still known to
  the replacer;
* `Saved`: a page that is marked clean and not saved is one that the running call
  is about to write.

No two of these are inductive without the third: that `Evict` takes a frame whose
page is in the table needs `Tracked`; that `Link` gives a page a frame of its own
needs `Accounts`; that the replacer is never told of a second page for a frame it
knows, which ends the process, needs `JobOk`. That a load finds a
frame rests on counting: when no frame is lost and the free list is empty, every frame
is resident, so the page table has `num_frames_` entries and the call evicts
(`PoolIsFull`). After the end of the process and after an undefined
step only `Typed`, the replacer's invariant, `Users` and `Accounts` are claimed.
The pin counts are no part of it: they are wrong (section 4), and nothing that
holds depends on them.

For the refinement, what a page of the cells holds is `Content`: the bytes in the
frame a guard on the page knows, or else in the frame the table has, or on disk.
With the invariant the first two are the same (`Seen`), so a step that moves no
bytes of a resident page is a stutter. `Load` writes to a frame no page has, and
`Link` shows bytes that the disk has, because `Saved` says so; `EvictErase` is a
stutter for a page that is saved and the cells' `Lose` for one whose last write
failed, and it needs that the victim is clean and that the only other reason for an
unsaved page, a write under way, is excluded. `DeletePage` is the cells' step even
when the replacer ends the process inside it. The steps on guards need one more
invariant, `Owners` (theorem `Ownership`): a call goes through a live guard of its
own thread, the guard an assignment moves survives the drop of the one in its
place, and no call is bringing in a page that has been deleted meanwhile.

### SlottedPage (`SlottedPageProofs`)

The theorems are about `MCSpec`, the page under its two users (section 3), for any
sizes of page, header and slot and any set of records (`PageAssumption`: the sizes
are positive, the header is smaller than the page and 16 bits hold an offset;
`LengthAssumption`: they also hold a record's length with its slot's):
`SpaceAccounted` holds in every reachable state, every step satisfies
`InsertsWhereAsked`, and `MCSpec` implements `RecordList`.

`SpaceAccounted` is not inductive: that a compaction leaves a page in order rests
on where the records lie. The invariant `IInv` is `WellFormed(page)`, every live
record lies in the heap, no two of them overlap, the slot array ends below the heap, and
`free_space_ptr` and the bytes of all slots, the tombstones' too, come to no more
than the page; and for the index user it is `Charged(page) = PageSize`, they come
to exactly the page. The heap user's reuse of a tombstone forgets the bytes of its
old record, which is why exactness is the index user's. TLC checked `IInv` on the
run's bounds before it was proved. The argument goes by

* *what compactify does*. The live slots can be put in descending order of
  their offsets (`CanBeOrdered`, from `Apart` and the sizes), so the `CHOOSE` of
  `Packed` has a value; that order reaches every live slot (`OrderIsOnto`). The
  packing is a recursive function; that it exists is `PackingExists`.
  Its loop invariant is `PartPacked`: the records moved so far lie against the end
  of the page, the others are where they were and whole. `PackOne` is one turn of the
  loop, where the descending order is what keeps the `memmove` off the records not
  yet moved; `PackAll` is the induction, `Closed` the closing up of the slots,
  `Compacted` the whole;
* *what the page promises*. `SpaceIs` says what `getTotalFreeSpace` returns, without
  the wrap of its 16 bits. `RoomMade` is that a record accepted on that promise has
  room after the compaction, whatever the page was before;
* *what a reader sees*. `LiveOrder` says that `LiveInOrder` numbers the live slots in
  their order. `ContentsGain`, `ContentsKept` and `ContentsChanged` say what the
  contents become when one slot is added, none changes, or one is rewritten, and
  each action is one of these (`Gained`, `Inserted`, `Reused`, `Deleted`,
  `Updated`). `InsertStep` gives `InsertsWhereAsked`: after a compaction the number
  of the slot is the number of live slots before it.

The inductions are over positions, with `Counting` of `ListLemmas`; the sums over
slots are the sizes of finite sets (`HeapBytesSplit`, `HeapBytesMoved`), for which
the library has the theorems.

### Index-organized table (`TableProofs`)

For every finite set of keys and any sets of fields and values (`TableAssumption`: they
are numbers), `IndexesAgree` holds after every sequence of calls. The property speaks
of what scans return; the invariant `IInv` speaks of what the indexes hold:
`Indexes(idx, table, n, keys)` says that an index has a list for each value that field
`n` has in the rows, and that the list has the keys of those rows, each once. A
`push_back` for a key the index does not have extends that to one row more (`Pushes`);
the overwriting insertion, whose key it may have, is among the calls that make an index
stale. So an insertion keeps it, and the loop of `build_secondary_index` establishes it
whatever the index was before (`IndexBuilt`). A secondary scan joins the lists of the
values in the range, in their order; `FindsMore` says what one list more adds to the
rows found, and `ScanFinds` that all of them are the rows of the range, ordered by the
field. The order of the keys inside one list is no part of the property, and
nothing that holds depends on it. TLC checked `IInv` on the run's bounds before it was
proved.

### What is only model-checked

Liveness under fairness, which the prover does not do. `CallsAreDefined`, which
for users who bring in pages one at a time says that the choice between a free frame
and an eviction is right, and nothing of threads that make it side by side (section 6). `BPlusTree`, which has
recursive operators, for which the prover loses its arithmetic, so
`OrderedIndex` and `LeavesChained` too. What the folds of `Types`, `Tuples`, `Crc32c`
and `LogRecord` compute on every input (`MCRecords`): induction over data.

## 6. Not modelled

* `NewPage` (section 4), `FlushAllPages` and `GetPinCount` (bodies not written),
  and the tests' helpers of the pool.
* Two calls of the replacer that race: the action `Race` is there, and the run
  leaves it out, as nothing holds behind undefined behaviour. Threads that bring
  pages in side by side: the module has their steps, and the run leaves them out for
  the same reason (a page gone between its test and the latch, the last free frame
  taken twice).
* What the disk manager's calls make of a freelist that is damaged, and of a disk whose
  `fsync` fails.
* A flush of all pages of which one fails: the pool waits for the other writes in
  the model, and in the code they may still be running when it throws.
* A restart of the log: the code has no recovery.
* `merge` and `redistribute` of the tree (bodies not written), and crashes between
  the writes of a split (the root is not persisted at all). The key of the
  tree's model is the first column; the offsets of others are in `MCRecords`.
* `Page`, which nothing in the library uses any more, and `PageDirectory`, which
  is only declared.
* `ToString` and the other formatting, and the `main` and the printing of the
  table.
* The other chapter exercises and the archives: examples of containers without
  state of their own, and code the build does not use.

## 7. Plan

1. `BPlusTree` with records of different sizes, and a repaired variant of the
   routing keys to show what the code lacks.
2. More than one failing request in the pool, with frames lost for good.
3. `BPlusTree` with its splits as recursive functions, so that `LeavesChained` and
   the refinement of `OrderedIndex` can be proved.
