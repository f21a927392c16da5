----------------------------- MODULE DiskManager -----------------------------
(***************************************************************************)
(* storage/disk_manager.{h,cpp}, storage/freelist_page.h: one database     *)
(* file, page 0 holding GlobalMetadata, freed pages chained through        *)
(* Freelist_Pages.  Grain: one pwrite, one fsync, one assignment to        *)
(* global_metadata_.  A call is started by its own action, which reads     *)
(* what the code reads up front and leaves in "todo" the writes the call   *)
(* still has to do; the class has one caller at a time (the scheduler's    *)
(* worker), so nothing else runs while todo is not empty -- except a       *)
(* failing write, a kill or a power cut.                                   *)
(*                                                                         *)
(* A write that fails, and a power cut, may leave a page partly written.   *)
(* Fields of four bytes are the grain: a page comes out as old, as new, as *)
(* a mixture of both or, where that mixture means nothing, as Torn.        *)
(***************************************************************************)
EXTENDS Integers, Sequences, FiniteSets, SequencesExt

CONSTANTS
  MaxPage,       \* bound: page ids stay in 0..MaxPage
  MAX_FREE_IDS,  \* Freelist_Page::MAX_FREE_IDS (1022 in the code)
  OffsetWrap,    \* page_id * PAGE_SIZE wraps at this page (2^20 in the code)
  Data,          \* page payloads
  MaxCrashes,    \* bound on kills and power cuts
  MaxFaults      \* bound on failing pwrites

ASSUME DiskAssumption ==
  /\ MaxPage \in Nat \ {0}
  /\ MAX_FREE_IDS \in Nat \ {0}
  /\ OffsetWrap \in Nat \ {0}
  /\ MaxCrashes \in Nat
  /\ MaxFaults \in Nat

(* UINT32_MAX in the code: no page id, and no page id ever reaches it. *)
INVALID_PAGE_ID == -1
NoPage == 0                        \* page 0 is the header: never handed out
PageId == 1..MaxPage
Slot == 0..MaxPage                 \* page-sized slots of the file

(* What a slot of the file can hold. *)
Absent == [kind |-> "absent"]      \* never written: a hole, or past the end
Torn == [kind |-> "torn"]          \* part of one write over something else
Payload(d) == [kind |-> "data", val |-> d]
Metadata(m) == [kind |-> "meta", head |-> m.head, next |-> m.next]

(* next_freelist_page, and free_page_ids up to current_id_count.  What     *)
(* stands past the count is not kept: ids listed earlier, or whatever was  *)
(* in memory, for the object is not initialised.                           *)
FreelistPage(next, ids) == [kind |-> "free", next |-> next, ids |-> ids]


VARIABLES
  up,       \* a DiskManager is open on the file
  meta,     \* global_metadata_: [head |-> freelist_head, next |-> next_page_id]
  cache,    \* the file as pread sees it (operating system cache)
  disk,     \* the file as of its last fsync
  todo,     \* what the running call still has to do, in order
  ret,      \* page the running allocatePage will return, or NoPage
  live,     \* pages handed to the callers and not deallocated by them
  crashes, faults,
  damage    \* "offset": a page id whose offset wraps was handed out;
            \* "list": a longer count was written without its new entry

vars == <<up, meta, cache, disk, todo, ret, live, crashes, faults, damage>>

(* Steps of a call. *)
PutPage(p, c) == [do |-> "pwrite", page |-> p, content |-> c]
PutMeta == [do |-> "pwrite_metadata"]
Sync == [do |-> "fsync"]
SetHead(p) == [do |-> "set_head", page |-> p]
CloseFd == [do |-> "close"]

(* pwrite of page 0 and fsync (twice in the code: the second has nothing   *)
(* left to write).                                                         *)
UpdateMetadata == <<PutMeta, Sync>>

(* Mutant: no fsync between the freelist page and the metadata. *)
WriteFreelistNoSync(p, c) == <<PutPage(p, c)>>

(* pwrite of a freelist page, then HandleWriteError. *)
WriteFreelist(p, c) == <<PutPage(p, c), Sync>>

(* Mutant: the product is computed in a type one page too narrow. *)
OffsetNarrow(p) == p % (OffsetWrap - 1)

(* The slot a page id addresses: the product page_id * PAGE_SIZE is        *)
(* computed in 32 bits before it is widened to an offset, so that page     *)
(* 2^20 (a file of 4 GiB) is the header again.                             *)
Offset(p) == p % OffsetWrap

(* Slots before the end of the file. *)
InFile(f) == {s \in Slot : \E t \in Slot : t >= s /\ f[t] # Absent}

(* A page read as a Freelist_Page; a hole reads as zeros. *)
AsFreelist(c) == IF c.kind = "free" THEN c ELSE FreelistPage(0, <<>>)

(* The head is a page of the freelist.  It is nothing else while there is  *)
(* no damage; what the calls make of other bytes is not followed.          *)
HeadIsList == cache[Offset(meta.head)].kind = "free"

(* What a write of "new" over "old" can leave when it is cut short.  Of    *)
(* metadata the two ids, either from either.  Two freelist pages of one    *)
(* chain differ in the count and its last entry: see Cuts.                 *)
Tears(old, new) ==
  CASE {old.kind, new.kind} = {"meta"} ->
         {Metadata([head |-> old.head, next |-> new.next]),
          Metadata([head |-> new.head, next |-> old.next])}
    [] {old.kind, new.kind} = {"free"} -> {}
    [] OTHER -> {Torn}

(* The count of the new freelist page over the entries of the old: the     *)
(* last id is one that stood there before.                                 *)
Cuts(old, new) ==
  IF {old.kind, new.kind} # {"free"} \/ Len(new.ids) <= Len(old.ids) THEN {}
  ELSE {[new EXCEPT !.ids = Append(Front(@), p)] : p \in PageId} \ {new}

(* Outcome of readPage(p). *)
ReadPage(p) ==
  CASE p >= meta.next              -> "out of allowed range"
    [] p < meta.next /\ Offset(p) \notin InFile(cache) -> "past EOF"
    [] OTHER                       -> "ok"

Init ==
  /\ up = FALSE
  /\ meta = [head |-> INVALID_PAGE_ID, next |-> 1]
  /\ cache = [s \in Slot |-> Absent]
  /\ disk = cache
  /\ todo = <<>>
  /\ ret = NoPage
  /\ live = {}
  /\ crashes = 0 /\ faults = 0
  /\ damage = {}

Idle == up /\ todo = <<>> /\ ret = NoPage

(* Constructor.  An empty file is initialised; otherwise page 0 is read    *)
(* and its magic number checked.                                           *)
Open ==
  /\ ~up
  /\ up' = TRUE
  /\ IF InFile(cache) = {}
     THEN /\ meta' = [head |-> INVALID_PAGE_ID, next |-> 1]
          /\ todo' = UpdateMetadata
     ELSE /\ cache[0].kind = "meta"
          /\ meta' = [head |-> cache[0].head, next |-> cache[0].next]
          /\ todo' = <<>>
  /\ UNCHANGED <<cache, disk, ret, live, crashes, faults, damage>>

(* The constructor throws: page 0 is short or has another magic number.    *)
OpenThrows ==
  /\ ~up
  /\ InFile(cache) # {} /\ cache[0].kind # "meta"
  /\ UNCHANGED vars

(* Destructor: UpdateMetadata, then close. *)
Close ==
  /\ Idle
  /\ todo' = UpdateMetadata \o <<CloseFd>>
  /\ UNCHANGED <<up, meta, cache, disk, ret, live, crashes, faults, damage>>

(* Mutant: the fresh id is taken after the increment. *)
AllocatePageIncrementsFirst ==
  /\ Idle
  /\ meta.head = INVALID_PAGE_ID /\ meta.next <= MaxPage
  /\ ret' = meta.next + 1
  /\ meta' = [meta EXCEPT !.next = @ + 1]
  /\ todo' = UpdateMetadata
  /\ UNCHANGED <<up, cache, disk, live, crashes, faults, damage>>

(* Mutant: the id is read from the head page without the decrement. *)
AllocatePageKeepsId ==
  LET head == AsFreelist(cache[Offset(meta.head)]) IN
  /\ Idle
  /\ \/ /\ meta.head = INVALID_PAGE_ID /\ meta.next <= MaxPage
        /\ ret' = meta.next
        /\ meta' = [meta EXCEPT !.next = @ + 1]
     \/ /\ meta.head # INVALID_PAGE_ID /\ head.ids # <<>>
        /\ ret' = Last(head.ids)
        /\ UNCHANGED meta
  /\ todo' = UpdateMetadata
  /\ UNCHANGED <<up, cache, disk, live, crashes, faults, damage>>

(* allocatePage: a fresh id when the freelist is empty; the head page      *)
(* itself when it lists no ids; else the last id of the head page.         *)
(* Nothing stops the fresh ids at the one whose offset wraps.              *)
AllocatePage ==
  LET head == AsFreelist(cache[Offset(meta.head)]) IN
  /\ Idle
  /\ \/ /\ meta.head = INVALID_PAGE_ID
        /\ meta.next <= MaxPage                \* bound
        /\ ret' = meta.next
        /\ meta' = [meta EXCEPT !.next = @ + 1]
        /\ todo' = UpdateMetadata
        /\ damage' = IF meta.next >= OffsetWrap THEN damage \cup {"offset"} ELSE damage
     \/ /\ meta.head # INVALID_PAGE_ID /\ HeadIsList
        /\ head.ids = <<>>
        /\ ret' = meta.head
        /\ meta' = [meta EXCEPT !.head = head.next]
        /\ todo' = UpdateMetadata
        /\ UNCHANGED damage
     \/ /\ meta.head # INVALID_PAGE_ID /\ HeadIsList
        /\ head.ids # <<>>
        /\ ret' = Last(head.ids)
        /\ todo' = WriteFreelist(meta.head, [head EXCEPT !.ids = Front(@)])
                     \o UpdateMetadata
        /\ UNCHANGED <<meta, damage>>
  /\ UNCHANGED <<up, cache, disk, live, crashes, faults>>

(* The caller receives the page. *)
Return ==
  /\ up /\ todo = <<>> /\ ret # NoPage
  /\ live' = live \cup {ret}
  /\ ret' = NoPage
  /\ UNCHANGED <<up, meta, cache, disk, todo, crashes, faults, damage>>

(* Mutant: every deallocated page becomes the head of a new chain. *)
DeallocatePageDropsChain(p) ==
  /\ Idle
  /\ p \in live
  /\ live' = live \ {p}
  /\ todo' = WriteFreelist(p, FreelistPage(INVALID_PAGE_ID, <<>>))
               \o <<SetHead(p)>> \o UpdateMetadata
  /\ UNCHANGED <<up, meta, cache, disk, ret, crashes, faults, damage>>

(* deallocatePage: p becomes the head when there is none or when the head  *)
(* is full; otherwise p is listed in the head.  A caller only gives back a *)
(* page it holds, and forgets it whatever the call does.                   *)
DeallocatePage(p) ==
  LET head == AsFreelist(cache[Offset(meta.head)])
      NewHead == WriteFreelist(p, FreelistPage(meta.head, <<>>))
                   \o <<SetHead(p)>> \o UpdateMetadata
  IN
  /\ Idle
  /\ p \in live
  /\ live' = live \ {p}
  /\ \/ /\ meta.head = INVALID_PAGE_ID
        /\ todo' = NewHead
     \/ /\ meta.head # INVALID_PAGE_ID /\ HeadIsList
        /\ Len(head.ids) = MAX_FREE_IDS
        /\ todo' = NewHead
     \/ /\ meta.head # INVALID_PAGE_ID /\ HeadIsList
        /\ Len(head.ids) # MAX_FREE_IDS
        /\ todo' = WriteFreelist(meta.head, [head EXCEPT !.ids = Append(@, p)])
  /\ UNCHANGED <<up, meta, cache, disk, ret, crashes, faults, damage>>

(* writePage: no fsync. *)
WritePage(p, d) ==
  /\ Idle
  /\ p \in live /\ p < meta.next
  /\ cache' = [cache EXCEPT ![Offset(p)] = Payload(d)]
  /\ UNCHANGED <<up, meta, disk, todo, ret, live, crashes, faults, damage>>

(* writePage throws.  After a partial write the page is neither the old    *)
(* nor the new one; a pwrite that returns -1 has left it alone, which      *)
(* nobody can tell from a call that was not made.                          *)
FailingWritePage(p) ==
  /\ Idle
  /\ p \in live /\ p < meta.next
  /\ faults < MaxFaults
  /\ faults' = faults + 1
  /\ cache' = [cache EXCEPT ![Offset(p)] = Torn]
  /\ UNCHANGED <<up, meta, disk, todo, ret, live, crashes, damage>>

(* The steps of a call, in order. *)
Pwrite ==
  /\ todo # <<>> /\ Head(todo).do = "pwrite"
  /\ cache' = [cache EXCEPT ![Offset(Head(todo).page)] = Head(todo).content]
  /\ todo' = Tail(todo)
  /\ UNCHANGED <<up, meta, disk, ret, live, crashes, faults, damage>>

PwriteMetadata ==
  /\ todo # <<>> /\ Head(todo) = PutMeta
  /\ cache' = [cache EXCEPT ![0] = Metadata(meta)]
  /\ todo' = Tail(todo)
  /\ UNCHANGED <<up, meta, disk, ret, live, crashes, faults, damage>>

(* HandleWriteError fsyncs after a full write. *)
Fsync ==
  /\ todo # <<>> /\ Head(todo) = Sync
  /\ disk' = cache
  /\ todo' = Tail(todo)
  /\ UNCHANGED <<up, meta, cache, ret, live, crashes, faults, damage>>

AssignHead ==
  /\ todo # <<>> /\ Head(todo).do = "set_head"
  /\ meta' = [meta EXCEPT !.head = Head(todo).page]
  /\ todo' = Tail(todo)
  /\ UNCHANGED <<up, cache, disk, ret, live, crashes, faults, damage>>

CloseFile ==
  /\ todo # <<>> /\ Head(todo) = CloseFd
  /\ up' = FALSE
  /\ todo' = Tail(todo)
  /\ UNCHANGED <<meta, cache, disk, ret, live, crashes, faults, damage>>

(* The page a pwrite of a call addresses, and what it writes there. *)
Target(step) == IF step = PutMeta THEN 0 ELSE Offset(step.page)
Written(step) == IF step = PutMeta THEN Metadata(meta) ELSE step.content

(* What a failing write of "new" may leave: nothing, a part or, when the   *)
(* page was there before and only bytes that do not matter are missing,    *)
(* all of it.                                                              *)
Remains(old, new) ==
  {old} \cup Tears(old, new) \cup (IF old = Absent THEN {} ELSE {new})

(* A pwrite of the allocator fails or is partial and throws: the call ends *)
(* there, with global_metadata_ as it had left it.  In the destructor the  *)
(* exception ends the process, and in the constructor no object results:   *)
(* both leave no manager open.                                             *)
FailingWrite ==
  LET step == Head(todo)
      old == cache[Target(step)]
      new == Written(step)
  IN
  /\ todo # <<>> /\ step.do \in {"pwrite", "pwrite_metadata"}
  /\ faults < MaxFaults
  /\ faults' = faults + 1
  /\ \/ /\ \E c \in Remains(old, new) : cache' = [cache EXCEPT ![Target(step)] = c]
        /\ UNCHANGED damage
     \/ /\ \E c \in Cuts(old, new) : cache' = [cache EXCEPT ![Target(step)] = c]
        /\ damage' = damage \cup {"list"}
  /\ up' = (CloseFd \notin Range(todo) /\ InFile(cache) # {})
  /\ todo' = <<>>
  /\ ret' = NoPage
  /\ UNCHANGED <<meta, disk, live, crashes>>

(* The process dies: the operating system still has every write. *)
Kill ==
  /\ up /\ crashes < MaxCrashes
  /\ crashes' = crashes + 1
  /\ up' = FALSE /\ todo' = <<>> /\ ret' = NoPage
  /\ UNCHANGED <<meta, cache, disk, live, faults, damage>>

(* The files a power cut can leave of disk and the writes since the last   *)
(* fsync: each page may be there, or not, or in part.                      *)
Unsynced == {s \in Slot : cache[s] # disk[s]}

Survivals(s) == {cache[s], disk[s]} \cup Tears(disk[s], cache[s])

AfterPowerCut ==
  LET left == [s \in Unsynced |-> Survivals(s)] IN
  {[s \in Slot |-> IF s \in DOMAIN left THEN c[s] ELSE cache[s]] :
     c \in {d \in [DOMAIN left -> UNION Range(left)] : \A s \in DOMAIN left : d[s] \in left[s]}}

PowerCut ==
  /\ crashes < MaxCrashes
  /\ crashes' = crashes + 1
  /\ up' = FALSE /\ todo' = <<>> /\ ret' = NoPage
  /\ \/ /\ cache' \in AfterPowerCut
        /\ UNCHANGED damage
     \/ /\ \E f \in AfterPowerCut, s \in Unsynced :
             \E c \in Cuts(disk[s], cache[s]) : cache' = [f EXCEPT ![s] = c]
        /\ damage' = damage \cup {"list"}
  /\ disk' = cache'
  /\ UNCHANGED <<meta, live, faults>>

Next ==
  \/ Open \/ OpenThrows \/ Close \/ AllocatePage \/ Return
  \/ \E p \in live : \/ DeallocatePage(p) \/ FailingWritePage(p)
                     \/ \E d \in Data : WritePage(p, d)
  \/ Pwrite \/ PwriteMetadata \/ Fsync \/ AssignHead \/ CloseFile
  \/ FailingWrite \/ Kill \/ PowerCut

Spec == Init /\ [][Next]_vars

(* A bound for the runs: what follows on damage is not explored. *)
StopAtDamage == damage = {}
-----------------------------------------------------------------------------
(* The freelist as metadata m finds it in file f: the pages of c, each     *)
(* naming the next, and the ids they list.                                 *)
Ids(f, p) == AsFreelist(f[Offset(p)]).ids

IsChain(c, m, f) ==
  /\ m.head = IF c = <<>> THEN INVALID_PAGE_ID ELSE c[1]
  /\ \A i \in DOMAIN c :
       AsFreelist(f[Offset(c[i])]).next = IF i = Len(c) THEN INVALID_PAGE_ID ELSE c[i + 1]

Free(c, f) == Range(c) \cup UNION {Range(Ids(f, p)) : p \in Range(c)}

(* The freelist has each page once. *)
ListsOnce(c, f) ==
  /\ IsInjective(c)
  /\ \A p \in Range(c) :
       /\ IsInjective(Ids(f, p))
       /\ Range(Ids(f, p)) \cap Range(c) = {}
       /\ \A q \in Range(c) \ {p} : Range(Ids(f, p)) \cap Range(Ids(f, q)) = {}

(* By chain c, m and f describe a usable allocator for callers that hold   *)
(* "held".                                                                 *)
SoundBy(c, m, f, held) ==
  /\ IsChain(c, m, f) /\ ListsOnce(c, f)
  /\ Free(c, f) \cup held \subseteq 1..(m.next - 1)
  /\ held \cap Free(c, f) = {}

(* A chain without repetition has no more pages than there are. *)
Chains == SeqOf(PageId, MaxPage)

Sound(m, f, held) == \E c \in Chains : SoundBy(c, m, f, held)

(* Pages that are neither handed out nor on the freelist. *)
Leaked(c, m, f, held) == (1..(m.next - 1)) \ (held \cup Free(c, f))

(* Every variable keeps its type. *)
TypeOK ==
  /\ up \in BOOLEAN
  /\ meta.head \in PageId \cup {INVALID_PAGE_ID} /\ meta.next \in 1..(MaxPage + 1)
  /\ \A s \in Slot : \A c \in {cache[s], disk[s]} :
       c.kind \in {"absent", "torn", "data", "free", "meta"}
  /\ ret \in PageId \cup {NoPage}
  /\ live \subseteq PageId
  /\ crashes \in 0..MaxCrashes /\ faults \in 0..MaxFaults
  /\ damage \subseteq {"offset", "list"}

(* Between calls the allocator in memory is sound: the chain is acyclic,   *)
(* lists each page once, and no page is both free and in a caller's hands  *)
(* (allocatePage would hand it to a second caller).  Failing and partial   *)
(* writes do not change that, but for the two kinds of damage.             *)
NeverLiveAndFree ==
  damage = {} /\ up /\ todo = <<>> => Sound(meta, cache, live \cup ({ret} \ {NoPage}))

(* Whatever a power cut leaves, in the middle of any call and after failed *)
(* and partial writes, opens as a sound allocator for the pages the        *)
(* callers hold: the fsync after each pwrite orders the freelist page      *)
(* before the metadata that points to it.  Only a file whose creation was  *)
(* cut short may be refused.                                               *)
CrashSafe ==
  damage = {} =>
    \A f \in AfterPowerCut :
      \/ f[0].kind = "meta" /\ Sound(f[0], f, live)
      \/ (InFile(f) = {} \/ f[0] = Torn) /\ live = {}

(* With no failing write, each crash loses at most the one page of the     *)
(* call it interrupted; without a crash every page is live or free.        *)
LeakBoundedByCrashes ==
  damage = {} /\ faults = 0 /\ Idle =>
    \E c \in Chains : IsChain(c, meta, cache) /\ Cardinality(Leaked(c, meta, cache, live)) <= crashes
-----------------------------------------------------------------------------
(* The promise to the layers above. *)
Store == INSTANCE PageStore WITH
  Page <- PageId, Content <- {Payload(d) : d \in Data}, Broken <- Torn, held <- live,
  vol <- [p \in live |-> cache[Offset(p)]],
  stable <- [p \in live |-> disk[Offset(p)]]

(* The detailed manager implements the page store, up to the step that     *)
(* does one of the two kinds of damage.                                    *)
ImplementsPageStore == Store!Init /\ [][Store!Next \/ damage' # {}]_(Store!vars)
=============================================================================
