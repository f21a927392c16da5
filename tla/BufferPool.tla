------------------------------ MODULE BufferPool ------------------------------
(***************************************************************************)
(* buffer/buffer_pool_manager.{h,cpp} and storage/page_guard.{h,cpp} over  *)
(* the ArcReplacer.  Every thread runs its calls step by step.  A step is  *)
(* a critical section of bpm_latch_ that does no input/output, an access   *)
(* the code makes without the latch, an atomic operation on a frame's pin  *)
(* count, the wait for a frame's rwlatch_, or one disk request with the    *)
(* wait for its future (the scheduler executes it once, in order), which   *)
(* throws when the request has failed.                                     *)
(* An eviction holds bpm_latch_ over the flush: "latch" says so.  Calls    *)
(* that race for the replacer or the page table are undefined: Race.       *)
(***************************************************************************)
EXTENDS Integers, Sequences, FiniteSets, Functions, SequencesExt

CONSTANTS
  Thread, Data, NoThread,
  Page,          \* page ids, numbers
  NumFrames,     \* num_frames_
  MaxTarget,     \* bound of ArcReplacer
  MaxCalls,      \* bound: calls per thread, drops of guards excepted
  MaxFailures,   \* bound: disk requests that fail
  MaxGuards      \* bound: live guards per thread

ASSUME PoolAssumption ==
  NumFrames \in Nat \ {0} /\ MaxTarget \in Nat /\ MaxFailures \in Nat /\ Data # {}

VARIABLES
  page_table,    \* page_table_: page -> frame
  free_frames,   \* free_frames_
  frame,         \* frame -> [pin, dirty, data]; pin is the size_t as a signed number
  guards,        \* live guards; a live guard holds its frame's rwlatch_
  latch,         \* the thread that holds bpm_latch_ between two steps, or NoThread
  disk,          \* page -> bytes on disk
  deleted,       \* pages DeletePage has taken out of the pool, whatever the disk answered
  pc, job,       \* pc[t], job[t]: the running call of t and its local variables
  calls,         \* calls[t]: calls t has made
  undefined,     \* the execution has left what C++ defines
  failures,      \* history: disk requests that have failed
  lost,          \* history: frames dropped by a call that threw
  unsaved,       \* history: pages marked clean whose write then failed
  mru, mfu, mru_ghost, mfu_ghost, alive, ghost, target, curr_size, fatal

Arc == INSTANCE ArcReplacer

faults == <<failures, lost, unsaved>>
pool == <<page_table, free_frames, frame, guards, latch, disk, deleted, calls, undefined, faults>>
replacer == <<mru, mfu, mru_ghost, mfu_ghost, alive, ghost, target, curr_size, fatal>>
vars == <<pool, pc, job, replacer>>

Frame == Arc!Frame

NoJob == [op |-> "none"]

(* Bytes of a new frame (FrameHeader::Reset). *)
Zero == CHOOSE d \in Data : TRUE

Reset == [pin |-> 0, dirty |-> FALSE, data |-> Zero]

Running == ~fatal /\ ~undefined
Unlatched == latch = NoThread

(* The variables a thread keeps guards in. *)
Variables == 1..(MaxGuards + 1)

OnFrame(f) == {g \in guards : g.frame = f}
Mine(t) == {g \in guards : g.thread = t}

(* The local variables of a call that has got a frame, or a victim's.      *)
WithFrame(j, f) == [op |-> j.op, page |-> j.page, mode |-> j.mode, frame |-> f]
WithVictim(j, f, p) == [op |-> j.op, page |-> j.page, mode |-> j.mode, frame |-> f, stale |-> p]

(* A frame about to be flushed by the pool. *)
CleanAndPinned(f) == [pin |-> frame[f].pin + 1, dirty |-> FALSE, data |-> frame[f].data]

(* The local variables of a batch of writes when w is done. *)
Left(j, w, threw) ==
  [op |-> "flush_all", threw |-> threw, pinned |-> j.pinned, writes |-> j.writes \ {w}]

(* Thread t goes on at label l with local variables j. *)
Goto(t, l, j) ==
  /\ pc' = [pc EXCEPT ![t] = l]
  /\ job' = [job EXCEPT ![t] = j]
Return(t) == Goto(t, "idle", NoJob)
At(t, l) == Running /\ pc[t] = l

(* The process ends: std::abort, std::terminate. *)
Abort ==
  /\ fatal' = TRUE
  /\ UNCHANGED <<mru, mfu, mru_ghost, mfu_ghost, alive, ghost, target, curr_size>>

(* p is written, or marked to be, or its bytes are gone. *)
Settle(p) == unsaved' = unsaved \ {p} /\ UNCHANGED <<failures, lost>>

(* A request fails; if it was the write of a page, that was marked clean. *)
RequestFails(pages) ==
  /\ failures < MaxFailures                                           \* bound
  /\ failures' = failures + 1
  /\ unsaved' = unsaved \cup pages

Cold ==
  /\ page_table = <<>>
  /\ free_frames = [i \in 1..NumFrames |-> i - 1]
  /\ frame = [f \in Frame |-> Reset]
  /\ Arc!Init

Quiet ==
  /\ guards = {} /\ latch = NoThread
  /\ pc = [t \in Thread |-> "idle"]
  /\ job = [t \in Thread |-> NoJob]
  /\ undefined = FALSE
  /\ failures = 0 /\ lost = {} /\ unsaved = {} /\ deleted = {}

Init ==
  /\ Cold /\ Quiet
  /\ disk \in [Page -> Data]
  /\ calls = [t \in Thread |-> 0]
-----------------------------------------------------------------------------
(* Mutant: the pool counts as full one page too late. *)
GetPageFullLate(t, op, p, mode) ==
  /\ At(t, "idle")
  /\ calls[t] < MaxCalls /\ Cardinality(Mine(t)) < MaxGuards
  /\ calls' = [calls EXCEPT ![t] = @ + 1]
  /\ LET l == IF p \in DOMAIN page_table THEN "hit"
              ELSE IF Cardinality(DOMAIN page_table) > NumFrames THEN "evict" ELSE "take"
     IN Goto(t, l, [op |-> op, page |-> p, mode |-> mode])
  /\ UNCHANGED <<page_table, free_frames, frame, guards, latch, deleted, disk, undefined, replacer, faults>>

(* The case is chosen by reading page_table_ without the latch. *)
GetPage(t, op, p, mode) ==
  /\ At(t, "idle")
  /\ calls[t] < MaxCalls /\ Cardinality(Mine(t)) < MaxGuards          \* bounds
  /\ calls' = [calls EXCEPT ![t] = @ + 1]
  /\ LET l == IF p \in DOMAIN page_table THEN "hit"
              ELSE IF Cardinality(DOMAIN page_table) = NumFrames THEN "evict" ELSE "take"
     IN Goto(t, l, [op |-> op, page |-> p, mode |-> mode])
  /\ UNCHANGED <<page_table, free_frames, frame, guards, latch, deleted, disk, undefined, replacer, faults>>

CheckedReadPage(t, p)  == GetPage(t, "get", p, "read")
CheckedWritePage(t, p) == GetPage(t, "get", p, "write")

(* Starts with a CheckedWritePage, flushes by its guard and drops it. *)
FlushPage(t, p) == GetPage(t, "flush", p, "write")

(* Case 1.  The page may be gone by now: the code dereferences end().      *)
Hit(t) ==
  LET p == job[t].page IN
  /\ At(t, "hit") /\ Unlatched
  /\ IF p \in DOMAIN page_table
     THEN /\ Goto(t, "record_hit", WithFrame(job[t], page_table[p]))
          /\ UNCHANGED undefined
     ELSE undefined' = TRUE /\ UNCHANGED <<pc, job>>
  /\ UNCHANGED <<page_table, free_frames, frame, guards, latch, deleted, disk, calls, replacer, faults>>

(* RecordAccess is called without the latch in all three cases. *)
RecordAccess(t) ==
  /\ Running /\ pc[t] \in {"record_hit", "record_miss"}
  /\ Arc!RecordAccess(job[t].frame, job[t].page)
  /\ Goto(t, IF pc[t] = "record_hit" THEN "pin" ELSE "unevict", job[t])
  /\ UNCHANGED pool

(* Case 1 only: pin_count_.fetch_add(1), and SetEvictable(false) when it   *)
(* was 0.                                                                  *)
Pin(t) ==
  LET f == job[t].frame IN
  /\ At(t, "pin")
  /\ frame' = [frame EXCEPT ![f].pin = @ + 1]
  /\ Goto(t, IF frame[f].pin = 0 THEN "unevict_latched" ELSE "rwlatch", job[t])
  /\ UNCHANGED <<page_table, free_frames, guards, latch, deleted, disk, calls, undefined, replacer, faults>>

(* Under the latch in case 1, without it in cases 2 and 3. *)
SetUnevictable(t) ==
  /\ \/ At(t, "unevict_latched") /\ Unlatched
     \/ At(t, "unevict")
  /\ Arc!SetEvictable(job[t].frame, FALSE)
  /\ Goto(t, "rwlatch", job[t])
  /\ UNCHANGED pool

(* The constructor of the guard waits for the frame's latch. *)
LockFrame(t) ==
  LET j == job[t]
      g == [thread |-> t, page |-> j.page, frame |-> j.frame, mode |-> j.mode,
            id |-> CHOOSE n \in Variables : \A h \in Mine(t) : h.id # n]
  IN
  /\ At(t, "rwlatch")
  /\ \A h \in OnFrame(j.frame) : j.mode = "read" /\ h.mode = "read"
  /\ guards' = guards \cup {g}
  /\ IF j.op = "flush" THEN Goto(t, "flush", [op |-> "flush", guard |-> g]) ELSE Return(t)
  /\ UNCHANGED <<page_table, free_frames, frame, latch, deleted, disk, calls, undefined, replacer, faults>>

(* Case 2: front() of an empty list is undefined. *)
TakeFree(t) ==
  /\ At(t, "take") /\ Unlatched
  /\ IF free_frames # <<>>
     THEN /\ free_frames' = Tail(free_frames)
          /\ Goto(t, "load", WithFrame(job[t], Head(free_frames)))
          /\ UNCHANGED undefined
     ELSE undefined' = TRUE /\ UNCHANGED <<free_frames, pc, job>>
  /\ UNCHANGED <<page_table, frame, guards, latch, deleted, disk, calls, replacer, faults>>

(* Case 3, under the latch to its end: no victim means std::nullopt, on    *)
(* which ReadPage and WritePage end the process.                           *)
NothingToEvict(t) ==
  /\ At(t, "evict") /\ Unlatched
  /\ Arc!Victim = Arc!NoFrame
  /\ \/ Return(t) /\ UNCHANGED replacer
     \/ job[t].op = "get" /\ Abort /\ UNCHANGED <<pc, job>>
  /\ UNCHANGED pool

(* Mutant: a dirty victim is not flushed. *)
EvictDiscards(t) ==
  /\ At(t, "evict") /\ Unlatched
  /\ Arc!Victim # Arc!NoFrame
  /\ Arc!Evict
  /\ latch' = t
  /\ Goto(t, "evict_erase", WithVictim(job[t], Arc!Victim, alive[Arc!Victim].page))
  /\ UNCHANGED <<page_table, free_frames, frame, guards, deleted, disk, calls, undefined, faults>>

Evict(t) ==
  LET f == Arc!Victim
      stale == alive[f].page
  IN
  /\ At(t, "evict") /\ Unlatched
  /\ f # Arc!NoFrame
  /\ Arc!Evict
  /\ latch' = t
  /\ Goto(t, IF frame[f].dirty THEN "evict_flush" ELSE "evict_erase",
          WithVictim(job[t], f, stale))
  /\ UNCHANGED <<page_table, free_frames, frame, guards, deleted, disk, calls, undefined, faults>>

(* FlushPageUnsafe of the victim: it looks the frame up by page, clears    *)
(* the dirty bit and pins before the write.                                *)
EvictFlush(t) ==
  LET f == page_table[job[t].stale] IN
  /\ At(t, "evict_flush")
  /\ job[t].stale \in DOMAIN page_table
  /\ frame' = [frame EXCEPT ![f] = CleanAndPinned(f)]
  /\ Arc!SetEvictable(f, FALSE)
  /\ Goto(t, "evict_write", job[t])
  /\ UNCHANGED <<page_table, free_frames, guards, latch, deleted, disk, calls, undefined, faults>>

EvictWrite(t) ==
  LET f == page_table[job[t].stale] IN
  /\ At(t, "evict_write")
  /\ disk' = [disk EXCEPT ![job[t].stale] = frame[f].data]
  /\ Goto(t, "evict_unpin", job[t])
  /\ Settle(job[t].stale)
  /\ UNCHANGED <<page_table, free_frames, frame, guards, latch, deleted, calls, undefined, replacer>>

(* future.get throws: the latch is released, the page stays linked to the  *)
(* frame, which is pinned, marked clean and gone from the replacer.        *)
EvictWriteFails(t) ==
  /\ At(t, "evict_write")
  /\ RequestFails({job[t].stale})
  /\ latch' = NoThread
  /\ Return(t)
  /\ UNCHANGED <<page_table, free_frames, frame, guards, deleted, disk, calls, undefined, lost, replacer>>

EvictUnpin(t) ==
  LET f == page_table[job[t].stale] IN
  /\ At(t, "evict_unpin")
  /\ frame' = [frame EXCEPT ![f].pin = @ - 1]
  /\ IF frame[f].pin = 1 THEN Arc!SetEvictable(f, TRUE) ELSE UNCHANGED replacer
  /\ Goto(t, "evict_erase", job[t])
  /\ UNCHANGED <<page_table, free_frames, guards, latch, deleted, disk, calls, undefined, faults>>

(* Mutant: the entry of the evicted page stays. *)
EvictEraseKeepsEntry(t) ==
  /\ At(t, "evict_erase")
  /\ latch' = NoThread
  /\ Goto(t, "load", job[t])
  /\ UNCHANGED <<page_table, free_frames, frame, guards, deleted, disk, calls, undefined, replacer, faults>>

EvictErase(t) ==
  /\ At(t, "evict_erase")
  /\ page_table' = Restrict(page_table, DOMAIN page_table \ {job[t].stale})
  /\ latch' = NoThread
  /\ Goto(t, "load", job[t])
  /\ Settle(job[t].stale)
  /\ UNCHANGED <<free_frames, frame, guards, deleted, disk, calls, undefined, replacer>>

(* Cases 2 and 3: read into the frame, link, record; no pin. *)
Load(t) ==
  /\ At(t, "load")
  /\ frame' = [frame EXCEPT ![job[t].frame].data = disk[job[t].page]]
  /\ Goto(t, "link", job[t])
  /\ UNCHANGED <<page_table, free_frames, guards, latch, deleted, disk, calls, undefined, replacer, faults>>

(* future.get throws: the frame is in nobody's hands any more. *)
LoadFails(t) ==
  /\ At(t, "load")
  /\ RequestFails({})
  /\ lost' = lost \cup {job[t].frame}
  /\ Return(t)
  /\ UNCHANGED <<page_table, free_frames, frame, guards, latch, deleted, disk, calls, undefined, replacer>>

(* Mutant: the entry is written the other way round. *)
LinkSwapped(t) ==
  /\ At(t, "link") /\ Unlatched
  /\ page_table' = Arc!Enter(page_table, job[t].frame, job[t].page)
  /\ Goto(t, "record_miss", job[t])
  /\ UNCHANGED <<free_frames, frame, guards, latch, deleted, disk, calls, undefined, replacer, faults>>

Link(t) ==
  /\ At(t, "link") /\ Unlatched
  /\ page_table' = Arc!Enter(page_table, job[t].page, job[t].frame)
  /\ Goto(t, "record_miss", job[t])
  /\ UNCHANGED <<free_frames, frame, guards, latch, deleted, disk, calls, undefined, replacer, faults>>
-----------------------------------------------------------------------------
(* Mutant: GetDataMut does not mark the frame. *)
GetDataMutStaysClean(t, g) ==
  /\ At(t, "idle") /\ g \in Mine(t) /\ g.mode = "write"
  /\ calls[t] < MaxCalls
  /\ calls' = [calls EXCEPT ![t] = @ + 1]
  /\ Goto(t, "store", [op |-> "store", guard |-> g])
  /\ UNCHANGED <<page_table, free_frames, frame, guards, latch, deleted, disk, undefined, replacer, faults>>

(* A thread with a write guard: GetDataMut sets the dirty bit, then the    *)
(* caller stores into the frame.                                           *)
GetDataMut(t, g) ==
  /\ At(t, "idle") /\ g \in Mine(t) /\ g.mode = "write"
  /\ calls[t] < MaxCalls                                              \* bound
  /\ calls' = [calls EXCEPT ![t] = @ + 1]
  /\ frame' = [frame EXCEPT ![g.frame].dirty = TRUE]
  /\ Goto(t, "store", [op |-> "store", guard |-> g])
  /\ Settle(g.page)
  /\ UNCHANGED <<page_table, free_frames, guards, latch, deleted, disk, undefined, replacer>>

Store(t) ==
  /\ At(t, "store")
  /\ \E d \in Data : frame' = [frame EXCEPT ![job[t].guard.frame].data = d]
  /\ Return(t)
  /\ UNCHANGED <<page_table, free_frames, guards, latch, deleted, disk, calls, undefined, replacer, faults>>

(* Flush of a guard, alone or in FlushPage: clear the dirty bit, write.    *)
CallFlush(t, g) ==
  /\ At(t, "idle") /\ g \in Mine(t)
  /\ calls[t] < MaxCalls                                              \* bound
  /\ calls' = [calls EXCEPT ![t] = @ + 1]
  /\ Goto(t, "flush", [op |-> "guard_flush", guard |-> g])
  /\ UNCHANGED <<page_table, free_frames, frame, guards, latch, deleted, disk, undefined, replacer, faults>>

Flush(t) ==
  /\ At(t, "flush")
  /\ frame' = [frame EXCEPT ![job[t].guard.frame].dirty = FALSE]
  /\ Goto(t, "flush_write", job[t])
  /\ UNCHANGED <<page_table, free_frames, guards, latch, deleted, disk, calls, undefined, replacer, faults>>

FlushWrite(t) ==
  LET g == job[t].guard IN
  /\ At(t, "flush_write")
  /\ disk' = [disk EXCEPT ![g.page] = frame[g.frame].data]
  /\ IF job[t].op = "flush" THEN Goto(t, "drop", job[t]) ELSE Return(t)
  /\ Settle(g.page)
  /\ UNCHANGED <<page_table, free_frames, frame, guards, latch, deleted, calls, undefined, replacer>>

(* The exception leaves Flush; in FlushPage it drops the guard.            *)
FlushWriteFails(t) ==
  /\ At(t, "flush_write")
  /\ RequestFails({job[t].guard.page})
  /\ IF job[t].op = "flush" THEN Goto(t, "drop", job[t]) ELSE Return(t)
  /\ UNCHANGED <<page_table, free_frames, frame, guards, latch, deleted, disk, calls, undefined, lost, replacer>>

(* Drop: fetch_sub, SetEvictable(true) under the latch when it was 1, then *)
(* the unlock -- inside that critical section for a read guard.            *)
CallDrop(t, g) ==
  /\ At(t, "idle") /\ g \in Mine(t)
  /\ Goto(t, "drop", [op |-> "drop", guard |-> g])
  /\ UNCHANGED <<pool, replacer>>

Dropped(t) == IF job[t].op = "assign" THEN Goto(t, "assign", job[t]) ELSE Return(t)

Unpin(t) ==
  LET f == job[t].guard.frame IN
  /\ At(t, "drop")
  /\ frame' = [frame EXCEPT ![f].pin = @ - 1]
  /\ Goto(t, IF frame[f].pin = 1 THEN "drop_evictable" ELSE "unlock", job[t])
  /\ UNCHANGED <<page_table, free_frames, guards, latch, deleted, disk, calls, undefined, replacer, faults>>

DropEvictable(t) ==
  LET g == job[t].guard IN
  /\ At(t, "drop_evictable") /\ Unlatched
  /\ Arc!SetEvictable(g.frame, TRUE)
  /\ IF g.mode = "read" THEN guards' = guards \ {g} /\ Dropped(t)
                        ELSE UNCHANGED guards /\ Goto(t, "unlock", job[t])
  /\ UNCHANGED <<page_table, free_frames, frame, latch, deleted, disk, calls, undefined, faults>>

Unlock(t) ==
  /\ At(t, "unlock")
  /\ guards' = guards \ {job[t].guard}
  /\ Dropped(t)
  /\ UNCHANGED <<page_table, free_frames, frame, latch, deleted, disk, calls, undefined, replacer, faults>>

(* A guard is moved into another variable of its type, and is invalid      *)
(* afterwards.  Assignment to a valid guard drops that one first.          *)
Moved(g, id) == (guards \ {g}) \cup {[g EXCEPT !.id = id]}

MoveGuard(t, g, id) ==
  LET held == {h \in Mine(t) : h.id = id} IN
  /\ At(t, "idle") /\ g \in Mine(t) /\ id # g.id
  /\ \/ held = {} /\ guards' = Moved(g, id) /\ UNCHANGED <<pc, job>>
     \/ \E h \in held :
          /\ h.mode = g.mode
          /\ Goto(t, "drop", [op |-> "assign", guard |-> h, from |-> g])
          /\ UNCHANGED guards
  /\ UNCHANGED <<page_table, free_frames, frame, latch, deleted, disk, calls, undefined, faults, replacer>>

Assign(t) ==
  /\ At(t, "assign")
  /\ guards' = Moved(job[t].from, job[t].guard.id)
  /\ Return(t)
  /\ UNCHANGED <<page_table, free_frames, frame, latch, deleted, disk, calls, undefined, faults, replacer>>

(* What a guard reads. *)
GetData(g) == frame[g.frame].data
IsDirty(g) == frame[g.frame].dirty

(* Any use of an invalid guard but Drop fails its ENSURE. *)
UseInvalid(t) ==
  /\ At(t, "idle")
  /\ \E id \in Variables : \A g \in Mine(t) : g.id # id
  /\ Abort
  /\ UNCHANGED <<pool, pc, job>>
-----------------------------------------------------------------------------
(* Mutant: the latch is held over the writes, and asked for again after. *)
FlushAllKeepsLatch(t) ==
  LET pages == {p \in DOMAIN page_table : frame[page_table[p]].dirty}
      frames == {page_table[p] : p \in pages}
  IN
  /\ At(t, "idle") /\ Unlatched
  /\ calls[t] < MaxCalls
  /\ calls' = [calls EXCEPT ![t] = @ + 1]
  /\ frame' = [f \in Frame |-> IF f \in frames
                 THEN CleanAndPinned(f) ELSE frame[f]]
  /\ Arc!SetEvictables(frames, FALSE)
  /\ Goto(t, "flush_all", [op |-> "flush_all", threw |-> FALSE, pinned |-> frames,
                           writes |-> {<<p, page_table[p]>> : p \in pages}])
  /\ latch' = t
  /\ UNCHANGED <<page_table, free_frames, guards, deleted, disk, undefined, faults>>

(* FlushAllPagesUnsafe: every dirty frame is marked clean and pinned in    *)
(* one critical section, written in a batch, unpinned in another.          *)
FlushAll(t) ==
  LET pages == {p \in DOMAIN page_table : frame[page_table[p]].dirty}
      frames == {page_table[p] : p \in pages}
  IN
  /\ At(t, "idle") /\ Unlatched
  /\ calls[t] < MaxCalls                                              \* bound
  /\ calls' = [calls EXCEPT ![t] = @ + 1]
  /\ frame' = [f \in Frame |-> IF f \in frames
                 THEN CleanAndPinned(f) ELSE frame[f]]
  /\ Arc!SetEvictables(frames, FALSE)
  /\ Goto(t, "flush_all", [op |-> "flush_all", threw |-> FALSE, pinned |-> frames,
                           writes |-> {<<p, page_table[p]>> : p \in pages}])
  /\ UNCHANGED <<page_table, free_frames, guards, latch, deleted, disk, undefined, faults>>

FlushAllWrite(t) ==
  /\ At(t, "flush_all")
  /\ \E w \in job[t].writes :
       /\ disk' = [disk EXCEPT ![w[1]] = frame[w[2]].data]
       /\ Settle(w[1])
       /\ Goto(t, "flush_all", Left(job[t], w, job[t].threw))
  /\ UNCHANGED <<page_table, free_frames, frame, guards, latch, deleted, calls, undefined, replacer>>

(* The other writes of the batch are taken to be done by the time the      *)
(* exception leaves the call, which unpins nothing then.                   *)
FlushAllWriteFails(t) ==
  /\ At(t, "flush_all")
  /\ \E w \in job[t].writes :
       /\ RequestFails({w[1]})
       /\ Goto(t, "flush_all", Left(job[t], w, TRUE))
  /\ UNCHANGED <<page_table, free_frames, frame, guards, latch, deleted, disk, calls, undefined, lost, replacer>>

FlushAllThrows(t) ==
  /\ At(t, "flush_all") /\ job[t].writes = {} /\ job[t].threw
  /\ Return(t)
  /\ UNCHANGED <<pool, replacer>>

FlushAllUnpin(t) ==
  LET frames == job[t].pinned IN
  /\ At(t, "flush_all") /\ job[t].writes = {} /\ ~job[t].threw /\ Unlatched
  /\ frame' = [f \in Frame |-> IF f \in frames
                 THEN [frame[f] EXCEPT !.pin = @ - 1] ELSE frame[f]]
  /\ Arc!SetEvictables({f \in frames : frame[f].pin = 1}, TRUE)
  /\ Return(t)
  /\ UNCHANGED <<page_table, free_frames, guards, latch, deleted, disk, calls, undefined, faults>>

(* The page stays allocated on disk. *)
DeletionFails(p) ==
  /\ failures < MaxFailures                                           \* bound
  /\ failures' = failures + 1
  /\ unsaved' = unsaved \ {p}
  /\ UNCHANGED lost

(* DeletePage of a page that is not resident returns true and does no more *)
(* (the page stays allocated on disk); of a frame whose pin count is not   *)
(* zero, false.  Otherwise the frame is reset and freed, and the page      *)
(* deallocated on disk, by a request that is waited for outside the latch: *)
(* when it fails the call throws, with the frame gone and the page not.    *)
DeletePage(t, p) ==
  LET f == page_table[p] IN
  /\ At(t, "idle") /\ Unlatched
  /\ calls[t] < MaxCalls                                              \* bound
  /\ calls' = [calls EXCEPT ![t] = @ + 1]
  /\ IF p \notin DOMAIN page_table \/ frame[f].pin # 0
     THEN UNCHANGED <<page_table, free_frames, frame, faults, deleted, replacer>>
     ELSE /\ page_table' = Restrict(page_table, DOMAIN page_table \ {p})
          /\ Arc!RemoveFrame(f)
          /\ frame' = [frame EXCEPT ![f] = Reset]
          /\ free_frames' = Append(free_frames, f)
          /\ deleted' = deleted \cup {p}
          /\ Settle(p) \/ DeletionFails(p)
  /\ UNCHANGED <<guards, latch, disk, undefined, pc, job>>
-----------------------------------------------------------------------------
(* Steps of a call that has been made. *)
Continue(t) ==
  \/ Hit(t) \/ RecordAccess(t) \/ Pin(t) \/ SetUnevictable(t) \/ LockFrame(t)
  \/ TakeFree(t) \/ NothingToEvict(t)
  \/ Evict(t) \/ EvictFlush(t) \/ EvictWrite(t) \/ EvictUnpin(t) \/ EvictErase(t)
  \/ Load(t) \/ Link(t)
  \/ Store(t) \/ Flush(t) \/ FlushWrite(t)
  \/ Unpin(t) \/ DropEvictable(t) \/ Unlock(t) \/ Assign(t)
  \/ FlushAllWrite(t) \/ FlushAllUnpin(t) \/ FlushAllThrows(t)

Fault(t) == LoadFails(t) \/ EvictWriteFails(t) \/ FlushWriteFails(t) \/ FlushAllWriteFails(t)

DropGuard(t) == \E g \in Mine(t) : CallDrop(t, g)

UseGuard(t) == \E g \in Mine(t) : GetDataMut(t, g) \/ CallFlush(t, g)

Move(t) == \E g \in Mine(t), id \in Variables : MoveGuard(t, g, id)

(* Unordered accesses of two threads: RecordAccess and the replacer of     *)
(* another call; the first look at page_table_ and a change of it.         *)
InReplacer(t) == pc[t] \in {"record_hit", "record_miss", "unevict"}
MayEnterReplacer(t) ==
  \/ InReplacer(t)
  \/ Unlatched /\ pc[t] \in {"unevict_latched", "evict", "drop_evictable"}
  \/ pc[t] \in {"evict_flush", "evict_unpin"}

Race ==
  /\ Running
  /\ \E t, u \in Thread :
       /\ t # u
       /\ \/ InReplacer(t) /\ MayEnterReplacer(u)
          \/ pc[t] = "idle" /\ (pc[u] = "evict_erase" \/ (Unlatched /\ pc[u] = "link"))
  /\ undefined' = TRUE
  /\ UNCHANGED <<page_table, free_frames, frame, guards, latch, deleted, disk, calls, pc, job, replacer, faults>>

(* The process is over, or every thread is done. *)
Over ==
  /\ \/ ~Running
     \/ \A t \in Thread : pc[t] = "idle" /\ Mine(t) = {}
  /\ UNCHANGED vars

(* Users who do whatever the interface allows. *)
Next ==
  \/ \E t \in Thread :
       \/ Continue(t) \/ Fault(t) \/ DropGuard(t) \/ UseGuard(t) \/ Move(t) \/ UseInvalid(t)
       \/ FlushAll(t)
       \/ \E p \in Page : CheckedReadPage(t, p) \/ CheckedWritePage(t, p) \/ FlushPage(t, p)
                          \/ DeletePage(t, p)
  \/ Race
  \/ Over

Spec == Init /\ [][Next]_vars
-----------------------------------------------------------------------------
Entries == {<<p, page_table[p]>> : p \in DOMAIN page_table}

(* The frame a call has taken and not linked to its page yet. *)
Held(t) ==
  IF pc[t] \in {"load", "link", "evict_erase", "evict_flush", "evict_write", "evict_unpin"}
  THEN {job[t].frame} ELSE {}
Evicting(t) == pc[t] \in {"evict_erase", "evict_flush", "evict_write", "evict_unpin"}

Resting == Running /\ \A t \in Thread : pc[t] = "idle"

(* Every variable keeps its type. *)
TypeOK ==
  /\ IsInjective(free_frames) /\ Range(free_frames) \subseteq Frame
  /\ DOMAIN page_table \subseteq Page /\ Range(page_table) \subseteq Frame
  /\ frame \in [Frame -> [pin : Int, dirty : BOOLEAN, data : Data]]
  /\ \A g \in guards : g.thread \in Thread /\ g.page \in Page /\ g.frame \in Frame
                       /\ g.mode \in {"read", "write"}
  /\ latch \in Thread \cup {NoThread}
  /\ disk \in [Page -> Data]
  /\ failures \in 0..MaxFailures /\ lost \subseteq Frame /\ unsaved \subseteq Page
  /\ deleted \subseteq Page

(* No frame is handed out twice, and none is lost but by a read that       *)
(* failed: each one is free, or in the page table under one page, or in    *)
(* the hands of the one call that took it.  Between calls the replacer     *)
(* knows exactly the resident pages, each by its frame (a frame it forgot  *)
(* is never evicted, and one it keeps after its page has gone is evicted   *)
(* under another page), but for one whose eviction could not write it.     *)
FramesAccounted ==
  /\ \A f \in Frame :
       LET entries == {e \in Entries : e[2] = f}
           holding == {t \in Thread : f \in Held(t)}
       IN IF \E t \in holding : Evicting(t)
          THEN Cardinality(entries) = 1 /\ Cardinality(holding) = 1 /\ f \notin Range(free_frames)
          ELSE Cardinality(entries) + Cardinality(holding)
                 + Cardinality({i \in DOMAIN free_frames : free_frames[i] = f})
                 = IF f \in lost THEN 0 ELSE 1
  /\ Resting =>
       LET known == {<<alive[f].page, f>> : f \in DOMAIN alive} IN
       /\ known \subseteq Entries
       /\ \A e \in Entries \ known : e[1] \in unsaved /\ ~frame[e[2]].dirty

(* No call leaves what C++ defines (end() dereferenced, or front() of an   *)
(* empty list) unless a read has failed before: the frames are then fewer  *)
(* than num_frames_, and the call that should evict takes a free one.      *)
CallsAreDefined == undefined => lost # {}

(* page_guard.h:70: a guard's frame is evictable again on its destruction; *)
(* buffer_pool_manager.h:65: while it lives the pin keeps it in memory.    *)
EvictableIffUnguarded ==
  Resting => \A f \in DOMAIN alive : alive[f].evictable <=> OnFrame(f) = {}
=============================================================================
