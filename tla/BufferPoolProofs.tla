-------------------------- MODULE BufferPoolProofs ---------------------------
(***************************************************************************)
(* Proofs about the buffer pool under the users of MCBufferPool, for every *)
(* set of threads and pages, number of frames, and number of failures.     *)
(***************************************************************************)
EXTENDS MCBufferPool, ListLemmas, FiniteSetTheorems, TLAPS

(* The pool keeps no order of use. *)
ArcP == INSTANCE ArcReplacerProofs WITH used <- <<>>

-----------------------------------------------------------------------------
(* The inductive invariant.                                                *)

(* Page p is in frame f for the pool, and for the replacer. *)
Linked(p, f) == p \in DOMAIN page_table /\ page_table[p] = f
Knows(p, f) == f \in DOMAIN alive /\ alive[f].page = p

(* Where a call is: it evicts (its victim is clean from its flush on), it  *)
(* holds a frame that it has not linked to its page, it brings a page in,  *)
(* it is to guard a resident page, it goes through a guard, it drops one.  *)
Cleaned == {"evict_write", "evict_unpin", "evict_erase"}
Evictings == {"evict_flush"} \cup Cleaned
Holding == {"load", "link"} \cup Evictings
Bringing == {"take", "evict", "record_miss"} \cup Holding
Accessing == {"pin", "unevict_latched", "unevict", "rwlatch"}
Fetching == {"record_hit"} \cup Accessing
Dropping == {"drop", "drop_evictable", "unlock"}
Guarded == {"store", "flush", "flush_write"} \cup Dropping
Labels == {"idle", "hit", "assign", "flush_all"} \cup Bringing \cup Fetching \cup Guarded

Mode == {"read", "write"}
Get == [op : {"get", "flush"}, page : Page, mode : Mode]
FlushJob == [op : {"flush_all"}, threw : BOOLEAN, pinned : SUBSET Frame, writes : SUBSET (Page \X Frame)]

GuardTyped(g) ==
  /\ DOMAIN g = {"thread", "page", "frame", "mode", "id"}
  /\ g.thread \in Thread /\ g.page \in Page /\ g.frame \in Frame /\ g.mode \in Mode

FrameRecord == [pin : Int, dirty : BOOLEAN, data : Data]

Typed ==
  /\ TypeOK
  /\ \A g \in guards : GuardTyped(g)
  /\ free_frames \in Seq(Frame)
  /\ pc \in [Thread -> Labels] /\ DOMAIN job = Thread
  /\ serial \in BOOLEAN /\ undefined \in BOOLEAN

(* Serial users make one call at a time, and bring a page in when nothing  *)
(* is guarded; users side by side use resident pages, and meet no failure. *)
Users ==
  /\ serial => \A t, u \in Thread : pc[t] # "idle" /\ pc[u] # "idle" => t = u
  /\ \A t \in Thread : pc[t] \in Bringing => serial /\ guards = {}
  /\ ~serial => DOMAIN page_table = FirstPages /\ unsaved = {}

(* A frame is free, or lost to a failed read, or resident under one page,  *)
(* or in the hands of one call; a victim is resident until it is erased.   *)
Free == Range(free_frames)

HolderOk(t) ==
  LET f == job[t].frame IN
  /\ f \in Frame /\ f \notin Free /\ f \notin lost
  /\ pc[t] \in Evictings => Linked(job[t].stale, f)
  /\ pc[t] \notin Evictings => \A p \in DOMAIN page_table : page_table[p] # f

Accounts ==
  /\ \A p, q \in DOMAIN page_table : page_table[p] = page_table[q] => p = q
  /\ \A p \in DOMAIN page_table : page_table[p] \notin Free /\ page_table[p] \notin lost
  /\ Free \cap lost = {}
  /\ \A t \in Thread : pc[t] \in Holding => HolderOk(t)
  /\ \A f \in Frame : \/ f \in Free \/ f \in lost
                      \/ \E p \in DOMAIN page_table : page_table[p] = f
                      \/ \E t \in Thread : pc[t] \in Holding /\ job[t].frame = f

(* The replacer knows a frame by the page it is resident under, and knows  *)
(* every such frame, but for a page whose eviction is under way or could   *)
(* not write it, and for one whose access is not recorded yet.             *)
Tracked ==
  /\ \A f \in DOMAIN alive : Linked(alive[f].page, f)
  /\ \A p \in DOMAIN page_table :
       \/ page_table[p] \in DOMAIN alive
       \/ p \in unsaved /\ ~frame[page_table[p]].dirty
       \/ \E t \in Thread : pc[t] \in Evictings \cup {"record_miss"} /\ job[t].frame = page_table[p]
  /\ \A g \in guards : Knows(g.page, g.frame)

(* What a call relies on, between two of its steps. *)
GuardKnown(g) == GuardTyped(g) /\ Knows(g.page, g.frame)

JobOk(t) ==
  LET j == job[t] IN
  /\ pc[t] = "hit" => j \in Get /\ j.page \in DOMAIN page_table
  /\ pc[t] \in {"take", "evict"} => j \in Get /\ j.page \notin DOMAIN page_table
  /\ pc[t] = "take" => Cardinality(DOMAIN page_table) # NumFrames
  /\ pc[t] \in Holding \cup Fetching \cup {"record_miss"} => j.page \in Page /\ j.frame \in Frame /\ j.mode \in Mode
  /\ pc[t] \in {"record_hit", "record_miss"} => Linked(j.page, j.frame)
  /\ pc[t] \in Accessing => Knows(j.page, j.frame)
  /\ pc[t] \in Holding => j.page \notin DOMAIN page_table
  /\ pc[t] \in Evictings => j.frame \notin DOMAIN alive
  /\ pc[t] \in Cleaned => ~frame[j.frame].dirty
  /\ pc[t] \in Guarded => GuardKnown(j.guard)
  /\ pc[t] = "assign" => j.op = "assign"
  /\ pc[t] \in Dropping \cup {"assign"} /\ j.op = "assign" => GuardKnown(j.from)
  /\ pc[t] = "flush_all" => j \in FlushJob /\ \A w \in j.writes : Knows(w[1], w[2])

(* A page that is not saved is marked dirty, or is about to be written by  *)
(* the call that cleared the mark.                                         *)
Writing(t, p) ==
  \/ pc[t] = "flush_write" /\ job[t].guard.page = p
  \/ pc[t] = "evict_write" /\ job[t].stale = p
  \/ pc[t] = "flush_all" /\ \E w \in job[t].writes : w[1] = p

Saved ==
  /\ \A p \in DOMAIN page_table :
       \/ frame[page_table[p]].dirty \/ frame[page_table[p]].data = disk[p] \/ p \in unsaved
       \/ \E t \in Thread : Writing(t, p)
  /\ \A t \in Thread :
       /\ pc[t] = "store" => frame[job[t].guard.frame].dirty
       /\ pc[t] = "link" => frame[job[t].frame].data = disk[job[t].page]

(* The end of the process leaves the frames accounted for; only a lost     *)
(* frame leads to an undefined step.                                       *)
Inv ==
  /\ Typed /\ ArcP!Inv /\ Users /\ Accounts
  /\ undefined => lost # {}
  /\ Running => Tracked /\ \A t \in Thread : JobOk(t)
  /\ Running /\ serial => Saved

-----------------------------------------------------------------------------
(* The replacer's operations, as the pool's module and its proofs name     *)
(* them, are the same.                                                     *)
LEMMA SameHelpers ==
  /\ Arc!NoFrame = ArcP!NoFrame /\ Arc!Frame = ArcP!Frame
  /\ \A S : Arc!Max(S) = ArcP!Max(S)
  /\ \A s : Arc!Range(s) = ArcP!Range(s)
  /\ \A s : Arc!Front(s) = ArcP!Front(s)
  /\ \A m, k : Arc!Drop(m, k) = ArcP!Drop(m, k)
  /\ \A m, k, v : Arc!Enter(m, k, v) = ArcP!Enter(m, k, v)
  /\ \A p, e, s : Arc!Status(p, e, s) = ArcP!Status(p, e, s)
  /\ \A s, x : Arc!Without(s, x) = ArcP!Without(s, x)
  /\ \A s, r : Arc!Step(s, r) = ArcP!Step(s, r)
  /\ \A S : Arc!Cardinality(S) = ArcP!Cardinality(S)
  <1>1. Arc!NoFrame = ArcP!NoFrame /\ Arc!Frame = ArcP!Frame
    BY DEF Arc!NoFrame, ArcP!NoFrame, Arc!Frame, ArcP!Frame
  <1>2. /\ \A S : Arc!Max(S) = ArcP!Max(S)
        /\ \A s : Arc!Range(s) = ArcP!Range(s)
        /\ \A s : Arc!Front(s) = ArcP!Front(s)
    BY DEF Arc!Max, ArcP!Max, Arc!Range, ArcP!Range, Arc!Front, ArcP!Front
  <1>3. \A m, k : Arc!Drop(m, k) = ArcP!Drop(m, k)
    BY DEF Arc!Drop, ArcP!Drop, Arc!Restrict, ArcP!Restrict
  <1>4. \A m, k, v : Arc!Enter(m, k, v) = ArcP!Enter(m, k, v)
    BY DEF Arc!Enter, ArcP!Enter
  <1>5. \A p, e, s : Arc!Status(p, e, s) = ArcP!Status(p, e, s)
    BY DEF Arc!Status, ArcP!Status
  <1>6. \A s, x : Arc!Without(s, x) = ArcP!Without(s, x)
    BY DEF Arc!Without, ArcP!Without, Arc!RemoveAt, ArcP!RemoveAt
  <1>7. \A s, r : Arc!Step(s, r) = ArcP!Step(s, r)
    BY DEF Arc!Step, ArcP!Step
  <1>8. \A S : Arc!Cardinality(S) = ArcP!Cardinality(S)
    BY DEF Arc!Cardinality, ArcP!Cardinality
  <1> QED
    BY <1>1, <1>2, <1>3, <1>4, <1>5, <1>6, <1>7, <1>8

(* The frame Evict takes is the one the replacer's lemmas are about. *)
LEMMA SameVictim == Arc!Victim = ArcP!Victim
  <1>1. \A list : Arc!LastEvictable(list) = ArcP!LastEvictable(list)
    BY SameHelpers DEF Arc!LastEvictable, ArcP!LastEvictable
  <1> QED
    BY <1>1, SameHelpers DEF Arc!Victim, ArcP!Victim

(* A step of the pool that calls the replacer is a step of the replacer. *)
LEMMA SameOperations ==
  /\ Arc!Init => ArcP!Init
  /\ Arc!Evict => ArcP!Evict
  /\ \A f, p : Arc!RecordAccess(f, p) => ArcP!RecordAccess(f, p)
  /\ \A F, e : Arc!SetEvictables(F, e) => ArcP!SetEvictables(F, e)
  /\ \A f : Arc!RemoveFrame(f) => ArcP!RemoveFrame(f)
  <1>1. Arc!Init => ArcP!Init
    BY DEF Arc!Init, ArcP!Init
  <1>2. Arc!Evict => ArcP!Evict
    BY SameHelpers, SameVictim DEF Arc!Evict, ArcP!Evict
  <1>3. \A f, p : Arc!RecordAccess(f, p) => ArcP!RecordAccess(f, p)
    <2> TAKE f, p
    <2>1. Arc!HitAlive(f) => ArcP!HitAlive(f)
      BY SameHelpers DEF Arc!HitAlive, ArcP!HitAlive
    <2>2. \A x, y : Arc!Revive(x, y) => ArcP!Revive(x, y)
      BY SameHelpers DEF Arc!Revive, ArcP!Revive
    <2>3. Arc!HitMruGhost(f, p) => ArcP!HitMruGhost(f, p)
      BY <2>2, SameHelpers DEF Arc!HitMruGhost, ArcP!HitMruGhost
    <2>4. Arc!HitMfuGhost(f, p) => ArcP!HitMfuGhost(f, p)
      BY <2>2, SameHelpers DEF Arc!HitMfuGhost, ArcP!HitMfuGhost
    <2>5. Arc!HitForgotten(f, p) => ArcP!HitForgotten(f, p)
      BY SameHelpers DEF Arc!HitForgotten, ArcP!HitForgotten
    <2>6. Arc!Miss(f, p) => ArcP!Miss(f, p)
      BY SameHelpers DEF Arc!Miss, ArcP!Miss
    <2> QED
      BY <2>1, <2>3, <2>4, <2>5, <2>6 DEF Arc!RecordAccess, ArcP!RecordAccess
  <1>4. \A F, e : Arc!SetEvictables(F, e) => ArcP!SetEvictables(F, e)
    <2> TAKE F, e
    <2> QED
      BY SameHelpers DEF Arc!SetEvictables, ArcP!SetEvictables
  <1>5. \A f : Arc!RemoveFrame(f) => ArcP!RemoveFrame(f)
    BY SameHelpers DEF Arc!RemoveFrame, ArcP!RemoveFrame, Arc!arc, ArcP!arc
  <1> QED
    BY <1>1, <1>2, <1>3, <1>4, <1>5

-----------------------------------------------------------------------------
(* What the pool needs to know of a step of the replacer. *)
SamePages == DOMAIN alive' = DOMAIN alive /\ \A f \in DOMAIN alive : alive'[f].page = alive[f].page
ArcKept == ArcP!Inv' /\ SamePages /\ fatal' = fatal
Forgets(f) ==
  /\ DOMAIN alive' = DOMAIN alive \ {f}
  /\ \A g \in DOMAIN alive \ {f} : alive'[g] = alive[g]
Learns(f, p) ==
  /\ DOMAIN alive' = DOMAIN alive \cup {f} /\ alive'[f].page = p
  /\ \A g \in DOMAIN alive \ {f} : alive'[g] = alive[g]

(* A step that does not call the replacer leaves its invariant as it is. *)
LEMMA Rests == ArcP!Inv /\ UNCHANGED replacer => ArcKept
  <1> SUFFICES ASSUME ArcP!Inv, UNCHANGED replacer PROVE ArcKept
    OBVIOUS
  <1>1. fatal \in BOOLEAN
    BY DEF ArcP!Inv, ArcP!TypeOK
  <1>2. ArcP!Inv'
    BY <1>1, ArcP!KeepInv, PoolAssumption DEF replacer, ArcP!ArcAssumption
  <1> QED
    BY <1>2 DEF ArcKept, SamePages, replacer

(* The end of the process leaves the replacer's lists as they are. *)
LEMMA Aborts == ArcP!Inv /\ Abort => ArcP!Inv'
  <1> SUFFICES ASSUME ArcP!Inv, Abort PROVE ArcP!Inv'
    OBVIOUS
  <1> QED
    BY ArcP!KeepInv, PoolAssumption DEF Abort, ArcP!ArcAssumption

(* SetEvictable on a set of frames, as FlushAllPages makes it. *)
LEMMA Sets ==
  ASSUME ArcP!Inv, NEW F, NEW e \in BOOLEAN, Arc!SetEvictables(F, e)
  PROVE  ArcKept
  BY SameOperations, ArcP!SetEvictablesInv, PoolAssumption DEF ArcP!ArcAssumption, ArcKept, SamePages

(* SetEvictable on one frame. *)
LEMMA SetsOne ==
  ASSUME ArcP!Inv, NEW f, NEW e \in BOOLEAN, Arc!SetEvictable(f, e)
  PROVE  ArcKept
  BY Sets DEF Arc!SetEvictable

(* RecordAccess of a page that is in the frame it names: the replacer      *)
(* knows that frame by that page afterwards, or ends the process.          *)
LEMMA Accesses ==
  ASSUME ArcP!Inv, NEW f \in Frame, NEW p \in Page, Arc!RecordAccess(f, p),
         f \in DOMAIN alive => alive[f].page = p,
         \A g \in DOMAIN alive : alive[g].page = p => g = f
  PROVE  ArcP!Inv' /\ (fatal' \/ (fatal' = fatal /\ Learns(f, p)))
  <1>1. ArcP!Access(f, p) /\ f \in ArcP!Frame
    BY SameOperations, SameHelpers DEF ArcP!Access, ArcP!AlivePages, Frame
  <1> QED
    BY <1>1, ArcP!AccessInv, PoolAssumption DEF ArcP!ArcAssumption, Learns

(* Evict forgets the victim, which was known, and no other frame. *)
LEMMA Evicts ==
  ASSUME ArcP!Inv, Arc!Evict
  PROVE  /\ ArcP!Inv' /\ fatal' = fatal
         /\ Arc!Victim \in DOMAIN alive /\ Forgets(Arc!Victim)
  <1>1. ArcP!Evict
    BY SameOperations
  <1>2. ArcP!Victim \in DOMAIN alive
    BY <1>1, ArcP!VictimIsEvictable, PoolAssumption
    DEF ArcP!ArcAssumption, ArcP!Evict, ArcP!Inv, ArcP!Evictables
  <1>3. alive' = ArcP!Drop(alive, ArcP!Victim) /\ fatal' = fatal
    BY <1>1 DEF ArcP!Evict
  <1>4. ArcP!Inv'
    BY <1>1, ArcP!EvictInv, PoolAssumption DEF ArcP!ArcAssumption
  <1> QED
    BY <1>2, <1>3, <1>4, SameVictim DEF Forgets, ArcP!Drop, ArcP!Restrict

(* Remove forgets the frame, or ends the process. *)
LEMMA Removes ==
  ASSUME ArcP!Inv, NEW f \in Frame, Arc!RemoveFrame(f)
  PROVE  ArcP!Inv' /\ (fatal' \/ (fatal' = fatal /\ Forgets(f)))
  <1>1. ArcP!RemoveFrame(f) /\ f \in ArcP!Frame
    BY SameOperations, SameHelpers DEF Frame
  <1> QED
    BY <1>1, ArcP!RemoveInv, PoolAssumption DEF ArcP!ArcAssumption, Forgets

-----------------------------------------------------------------------------
(* Where a step of thread t may go.                                        *)
Others(t) == \A u \in Thread \ {t} : pc'[u] = pc[u] /\ job'[u] = job[u]

(* A step that leads to label l with local variables j leaves the calls    *)
(* of the others where they are.                                           *)
LEMMA Going ==
  ASSUME NEW t \in Thread, NEW l \in Labels, NEW j, Typed, Goto(t, l, j)
  PROVE  /\ pc' \in [Thread -> Labels] /\ DOMAIN job' = Thread
         /\ pc'[t] = l /\ job'[t] = j /\ Others(t)
  BY DEF Typed, Goto, Others

(* A step that ends a call does so too. *)
LEMMA Returning ==
  ASSUME NEW t \in Thread, Typed, Return(t)
  PROVE  /\ pc' \in [Thread -> Labels] /\ DOMAIN job' = Thread
         /\ pc'[t] = "idle" /\ Others(t)
  BY Going DEF Return, Labels

(* A serial user is alone; one of several brings nothing in. *)
Company(t) == serial => Alone(t)

(* What the users keep to survives a step of one thread that does not      *)
(* bring a page in, or is the only one in a call.                          *)
LEMMA UsersKept ==
  ASSUME Inv, NEW t \in Thread, Company(t), Others(t), serial' = serial,
         pc'[t] \in Bringing => serial /\ guards' = {},
         serial \/ (DOMAIN page_table' = DOMAIN page_table /\ unsaved' = unsaved)
  PROVE  Users'
  <1>1. ASSUME serial, NEW u \in Thread, NEW v \in Thread, pc'[u] # "idle", pc'[v] # "idle"
        PROVE  u = v
    BY <1>1 DEF Company, Alone, Others
  <1>2. ASSUME NEW u \in Thread, pc'[u] \in Bringing PROVE serial /\ guards' = {}
    <2>1. CASE u = t
      BY <1>2, <2>1
    <2>2. CASE u # t
      <3>1. pc[u] \in Bringing /\ "idle" \notin Bringing
        BY <1>2, <2>2 DEF Others, Bringing, Holding, Evictings, Cleaned
      <3>2. serial
        BY <3>1 DEF Inv, Users
      <3> QED
        BY <2>2, <3>1, <3>2 DEF Company, Alone
    <2> QED
      BY <2>1, <2>2
  <1> QED
    BY <1>1, <1>2 DEF Inv, Users

(* The other threads' calls do not notice a step that only adds to what    *)
(* the pool and the replacer know.                                         *)
LEMMA OthersOk ==
  ASSUME Inv, Running, NEW t \in Thread, Company(t), Others(t),
         serial \/ /\ \A p, f : Linked(p, f) => Linked(p, f)'
                   /\ \A p, f : Knows(p, f) => Knows(p, f)'
  PROVE  \A u \in Thread \ {t} : JobOk(u)'
  <1> TAKE u \in Thread \ {t}
  <1>1. JobOk(u) /\ pc'[u] = pc[u] /\ job'[u] = job[u]
    BY DEF Inv, Others
  <1>2. CASE serial
    <2>1. pc'[u] = "idle"
      BY <1>1, <1>2 DEF Company, Alone
    <2> QED
      BY <2>1 DEF JobOk, Holding, Evictings, Cleaned, Fetching, Accessing, Guarded, Dropping
  <1>3. CASE ~serial
    <2>1. pc[u] \notin Bringing
      BY <1>3 DEF Inv, Users
    <2>2. /\ pc[u] \notin {"take", "evict", "record_miss"} /\ pc[u] \notin Cleaned
          /\ pc[u] \notin Holding /\ pc[u] \notin Evictings
      BY <2>1 DEF Bringing, Holding, Evictings, Cleaned
    <2>3. pc[u] = "hit" => job[u] \in Get /\ job[u].page \in DOMAIN page_table'
      BY <1>1, <1>3 DEF JobOk, Linked
    <2>4. pc[u] \in Fetching => job[u].page \in Page /\ job[u].frame \in Frame /\ job[u].mode \in Mode
      BY <1>1 DEF JobOk
    <2>5. /\ pc[u] = "record_hit" => Linked(job[u].page, job[u].frame)'
          /\ pc[u] \in Accessing => Knows(job[u].page, job[u].frame)'
      <3>1. /\ pc[u] = "record_hit" => Linked(job[u].page, job[u].frame)
            /\ pc[u] \in Accessing => Knows(job[u].page, job[u].frame)
        BY <1>1 DEF JobOk
      <3> QED
        BY <1>1, <1>3, <3>1
    <2>6. /\ pc[u] \in Guarded => GuardKnown(job[u].guard)'
          /\ pc[u] \in Dropping \cup {"assign"} /\ job[u].op = "assign" => GuardKnown(job[u].from)'
      <3>1. /\ pc[u] \in Guarded => GuardKnown(job[u].guard)
            /\ pc[u] \in Dropping \cup {"assign"} /\ job[u].op = "assign" => GuardKnown(job[u].from)
        BY <1>1 DEF JobOk
      <3> QED
        BY <1>1, <1>3, <3>1 DEF GuardKnown, GuardTyped
    <2>7. /\ pc[u] = "assign" => job[u].op = "assign"
          /\ pc[u] = "flush_all" => /\ job[u] \in FlushJob
                                    /\ \A w \in job[u].writes : Knows(w[1], w[2])'
      BY <1>1, <1>3 DEF JobOk
    <2> QED
      BY <1>1, <2>2, <2>3, <2>4, <2>5, <2>6, <2>7 DEF JobOk
  <1> QED
    BY <1>2, <1>3

(* Thread t holds after its step the frame it held before, if any. *)
HoldsOn(t) ==
  /\ pc[t] \in Holding <=> pc'[t] \in Holding
  /\ pc[t] \in Evictings <=> pc'[t] \in Evictings
  /\ pc[t] \in Holding => job'[t].frame = job[t].frame
  /\ pc[t] \in Evictings => job'[t].stale = job[t].stale

SameFrames == UNCHANGED <<page_table, free_frames, lost>>

(* A step that moves no frame: the accounts are the same. *)
LEMMA AccountsKept ==
  ASSUME Inv, NEW t \in Thread, Others(t), HoldsOn(t), SameFrames
  PROVE  Accounts'
  <1>0. Accounts
    BY DEF Inv
  <1>1. /\ page_table' = page_table /\ Free' = Free /\ lost' = lost
    BY DEF SameFrames, Free
  <1>2. \A u \in Thread : /\ pc[u] \in Holding <=> pc'[u] \in Holding
                          /\ pc[u] \in Evictings <=> pc'[u] \in Evictings
                          /\ pc[u] \in Holding => job'[u].frame = job[u].frame
                          /\ pc[u] \in Evictings => job'[u].stale = job[u].stale
    BY DEF Others, HoldsOn
  <1>3. ASSUME NEW u \in Thread, pc'[u] \in Holding PROVE HolderOk(u)'
    <2>0. pc[u] \in Holding
      BY <1>2, <1>3
    <2>1. HolderOk(u)
      BY <1>0, <2>0 DEF Accounts
    <2> QED
      BY <1>1, <1>2, <1>3, <2>1 DEF HolderOk, Linked
  <1>4. ASSUME NEW f \in Frame
        PROVE  \/ f \in Free' \/ f \in lost'
               \/ \E p \in DOMAIN page_table' : page_table'[p] = f
               \/ \E u \in Thread : pc'[u] \in Holding /\ job'[u].frame = f
    <2>1. \/ f \in Free \/ f \in lost
          \/ \E p \in DOMAIN page_table : page_table[p] = f
          \/ \E u \in Thread : pc[u] \in Holding /\ job[u].frame = f
      BY <1>0 DEF Accounts
    <2> QED
      BY <1>1, <1>2, <2>1
  <1>5. /\ \A p, q \in DOMAIN page_table' : page_table'[p] = page_table'[q] => p = q
        /\ \A p \in DOMAIN page_table' : page_table'[p] \notin Free' /\ page_table'[p] \notin lost'
        /\ Free' \cap lost' = {}
    BY <1>0, <1>1 DEF Accounts
  <1> QED
    BY <1>3, <1>4, <1>5 DEF Accounts

(* A page the replacer has forgotten is still one it may forget. *)
StillForgotten(t) ==
  \A p \in DOMAIN page_table :
    p \in unsaved /\ ~frame[page_table[p]].dirty /\ page_table[p] \notin DOMAIN alive =>
      \/ p \in unsaved' /\ ~frame'[page_table[p]].dirty
      \/ pc'[t] \in Evictings /\ job'[t].frame = page_table[p]

GuardsKnown == \A g \in guards : Knows(g.page, g.frame)

(* A step that neither moves a frame nor changes what the replacer knows. *)
LEMMA TrackedKept ==
  ASSUME Inv, Running, NEW t \in Thread, Others(t), HoldsOn(t), SameFrames, SamePages,
         pc[t] # "record_miss", StillForgotten(t), GuardsKnown'
  PROVE  Tracked'
  <1>1. page_table' = page_table /\ Tracked
    BY DEF SameFrames, Inv
  <1>2. ASSUME NEW f \in DOMAIN alive' PROVE Linked(alive[f].page, f)'
    <2>1. f \in DOMAIN alive /\ alive'[f].page = alive[f].page
      BY DEF SamePages
    <2>2. Linked(alive[f].page, f)
      BY <1>1, <2>1 DEF Tracked
    <2> QED
      BY <1>1, <2>1, <2>2 DEF Linked
  <1>3. ASSUME NEW p \in DOMAIN page_table
        PROVE  \/ page_table[p] \in DOMAIN alive'
               \/ p \in unsaved' /\ ~frame'[page_table[p]].dirty
               \/ \E u \in Thread : /\ pc'[u] \in Evictings \cup {"record_miss"}
                                    /\ job'[u].frame = page_table[p]
    <2>1. CASE page_table[p] \in DOMAIN alive
      BY <2>1 DEF SamePages
    <2>2. CASE page_table[p] \notin DOMAIN alive /\ p \in unsaved /\ ~frame[page_table[p]].dirty
      BY <2>2 DEF StillForgotten
    <2>3. ASSUME NEW u \in Thread, pc[u] \in Evictings \cup {"record_miss"}, job[u].frame = page_table[p]
          PROVE  pc'[u] \in Evictings \cup {"record_miss"} /\ job'[u].frame = page_table[p]
      BY <2>3 DEF Others, HoldsOn, Holding
    <2> QED
      BY <1>1, <2>1, <2>2, <2>3 DEF Tracked
  <1> QED
    BY <1>1, <1>2, <1>3 DEF Tracked, GuardsKnown

(* The steps that leave the frames to whom they belong.                    *)
Plain(t) ==
  /\ Running /\ Company(t) /\ Others(t) /\ HoldsOn(t) /\ SameFrames /\ ArcKept
  /\ serial' = serial /\ undefined' = undefined
  /\ pc[t] # "record_miss"

(* A step that moves no frame keeps the invariant, when the call of its    *)
(* thread, the guards and the saved pages are as the invariant says.       *)
LEMMA PlainKeeps ==
  ASSUME Inv, NEW t \in Thread, Plain(t), Typed',
         pc'[t] \in Bringing => serial /\ guards' = {},
         serial \/ unsaved' = unsaved,
         StillForgotten(t), GuardsKnown',
         JobOk(t)',
         serial => Saved'
  PROVE  Inv'
  <1>1. Users'
    BY UsersKept DEF Plain, SameFrames
  <1>2. Accounts'
    BY AccountsKept DEF Plain
  <1>3. Tracked'
    BY TrackedKept DEF Plain, ArcKept
  <1>4. \A p, f : (Linked(p, f) => Linked(p, f)') /\ (Knows(p, f) => Knows(p, f)')
    BY DEF Linked, Knows, Plain, SameFrames, ArcKept, SamePages
  <1>5. \A u \in Thread : JobOk(u)'
    BY <1>4, OthersOk DEF Plain
  <1>6. undefined' => lost' # {}
    BY DEF Plain, SameFrames, Inv
  <1> QED
    BY <1>1, <1>2, <1>3, <1>5, <1>6 DEF Inv, Plain, ArcKept

(* At most the pin counts of frames change. *)
SameBytes ==
  /\ frame' \in [Frame -> FrameRecord]
  /\ \A f \in Frame : frame'[f].dirty = frame[f].dirty /\ frame'[f].data = frame[f].data

(* A pin count changes and no byte does. *)
LEMMA SamePin ==
  ASSUME Typed, NEW f \in Frame, NEW k \in Int, frame' = [frame EXCEPT ![f].pin = k]
  PROVE  SameBytes
  <1>1. frame \in [Frame -> FrameRecord]
    BY DEF Typed, TypeOK, FrameRecord
  <1> QED
    BY <1>1 DEF SameBytes, FrameRecord

(* A step of a serial user that writes neither memory nor disk. *)
LEMMA SavedKept ==
  ASSUME Inv, Running, serial, NEW t \in Thread, Company(t), Others(t),
         UNCHANGED <<page_table, disk, unsaved>>, SameBytes,
         \A p : ~Writing(t, p),
         pc'[t] \notin {"store", "link"}
  PROVE  Saved'
  <1>1. Saved
    BY DEF Inv
  <1>2. \A u \in Thread \ {t} : pc'[u] = "idle" /\ pc[u] = "idle"
    BY DEF Others, Company, Alone
  <1>3. \A p \in DOMAIN page_table : page_table[p] \in Frame
    BY DEF Inv, Typed, TypeOK, Range
  <1>4. \A u \in Thread : \A p : ~Writing(u, p)
    BY <1>2 DEF Writing
  <1>5. \A p \in DOMAIN page_table' :
          \/ frame'[page_table'[p]].dirty \/ frame'[page_table'[p]].data = disk'[p] \/ p \in unsaved'
    BY <1>1, <1>3, <1>4 DEF Saved, SameBytes
  <1>6. \A u \in Thread : pc'[u] # "store" /\ pc'[u] # "link"
    BY <1>2
  <1> QED
    BY <1>5, <1>6 DEF Saved

GuardsGood == \A g \in guards : GuardTyped(g) /\ Knows(g.page, g.frame)

(* A step that moves no frame keeps the types. *)
LEMMA TypedKept ==
  ASSUME Typed, SameFrames, frame' \in [Frame -> FrameRecord],
         \A g \in guards' : GuardTyped(g),
         latch' \in Thread \cup {NoThread}, disk' \in [Page -> Data],
         failures' \in 0..MaxFailures, unsaved' \subseteq Page, deleted' = deleted,
         pc' \in [Thread -> Labels], DOMAIN job' = Thread,
         serial' = serial, undefined' = undefined
  PROVE  Typed'
  <1>1. /\ page_table' = page_table /\ free_frames' = free_frames /\ lost' = lost
        /\ TypeOK
    BY DEF SameFrames, Typed
  <1>2. \A g \in guards' : g.thread \in Thread /\ g.page \in Page /\ g.frame \in Frame
                           /\ g.mode \in {"read", "write"}
    BY DEF GuardTyped, Mode
  <1>3. TypeOK'
    BY <1>1, <1>2 DEF TypeOK, FrameRecord
  <1> QED
    BY <1>1, <1>3 DEF Typed

(* Steps that write no bytes to memory or disk. *)
LEMMA QuietKeeps ==
  ASSUME Inv, NEW t \in Thread, Plain(t), SameBytes, GuardsGood',
         UNCHANGED <<latch, disk, deleted, failures, unsaved>>,
         pc' \in [Thread -> Labels], DOMAIN job' = Thread,
         pc'[t] \in Bringing => serial /\ guards' = {},
         \A p : ~Writing(t, p),
         pc'[t] \notin {"store", "link"},
         JobOk(t)'
  PROVE  Inv'
  <1>1. Typed'
    <2>1. /\ failures' \in 0..MaxFailures /\ unsaved' \subseteq Page /\ disk' \in [Page -> Data]
          /\ latch' \in Thread \cup {NoThread}
      BY DEF Inv, Typed, TypeOK
    <2> QED
      BY <2>1, TypedKept DEF Inv, Plain, SameBytes, GuardsGood
  <1>2. StillForgotten(t)
    <2>1. \A p \in DOMAIN page_table : page_table[p] \in Frame
      BY DEF Inv, Typed, TypeOK, Range
    <2> QED
      BY <2>1 DEF StillForgotten, SameBytes
  <1>3. GuardsKnown'
    BY DEF GuardsGood, GuardsKnown
  <1>4. serial => Saved'
    BY SavedKept DEF Plain, SameFrames
  <1> QED
    BY <1>1, <1>2, <1>3, <1>4, PlainKeeps

(* A guard that was there is known to the replacer still; a new one is if  *)
(* its maker says so.                                                      *)
LEMMA GuardsStay ==
  ASSUME Inv, Running, ArcKept,
         \A g \in guards' : g \in guards \/ (GuardTyped(g) /\ Knows(g.page, g.frame))
  PROVE  GuardsGood'
  <1>1. \A g \in guards' : GuardTyped(g) /\ Knows(g.page, g.frame)
    BY DEF Inv, Typed, Tracked
  <1>2. \A p, f : Knows(p, f) => Knows(p, f)'
    BY DEF Knows, ArcKept, SamePages
  <1> QED
    BY <1>1, <1>2 DEF GuardsGood, GuardTyped

(* The steps of a thread that holds no frame. *)
LEMMA PlainIfFree ==
  ASSUME Inv, NEW t \in Thread, Running, Company(t), Others(t), SameFrames, ArcKept,
         serial' = serial, undefined' = undefined,
         pc[t] \notin Holding \cup {"record_miss"}, pc'[t] \notin Holding
  PROVE  Plain(t)
  BY DEF Plain, HoldsOn, Holding

(* A call that has got its frame. *)
LEMMA Extended ==
  ASSUME NEW j \in Get, NEW f
  PROVE  LET k == WithFrame(j, f)
         IN  /\ k.frame = f /\ k.page = j.page /\ k.mode = j.mode
             /\ j.page \in Page /\ j.mode \in Mode
  BY DEF Get, WithFrame

(* SetEvictable changes no page of a frame. *)
LEMMA SameKnown == ArcKept => \A p, f : Knows(p, f)' <=> Knows(p, f)
  BY DEF ArcKept, SamePages, Knows

(* A call on a resident page that its replacer knows may go on. *)
LEMMA AccessingOk ==
  ASSUME NEW t \in Thread, NEW j, pc'[t] \in Accessing, job'[t] = j,
         j.page \in Page, j.frame \in Frame, j.mode \in Mode, Knows(j.page, j.frame), ArcKept
  PROVE  JobOk(t)'
  BY SameKnown DEF JobOk, Holding, Evictings, Cleaned, Fetching, Accessing, Guarded, Dropping

(* A quiet step of a thread that holds no frame and asks for none. *)
LEMMA IdlyKeeps ==
  ASSUME Inv, Running, NEW t \in Thread, Company(t), serial' = serial, ArcKept, SameBytes,
         UNCHANGED <<page_table, free_frames, undefined, latch, deleted, disk>>, UNCHANGED faults,
         GuardsGood',
         NEW l \in Labels \ (Bringing \cup {"store"}), NEW j, Goto(t, l, j),
         pc[t] \notin Holding \cup {"record_miss"}, \A q : ~Writing(t, q),
         JobOk(t)'
  PROVE  Inv'
  <1>1. /\ pc' \in [Thread -> Labels] /\ DOMAIN job' = Thread
        /\ pc'[t] = l /\ Others(t)
    BY Going DEF Inv
  <1>2. Plain(t)
    BY <1>1, PlainIfFree DEF SameFrames, Bringing, faults
  <1> QED
    BY <1>1, <1>2, QuietKeeps DEF Bringing, Holding, faults

(* A call that returns keeps no local variable. *)
LEMMA IdleOk ==
  ASSUME Inv, NEW t \in Thread, Return(t)
  PROVE  JobOk(t)'
  <1>1. pc'[t] = "idle"
    BY Returning DEF Inv
  <1> QED
    BY <1>1 DEF JobOk, Holding, Evictings, Cleaned, Fetching, Accessing, Guarded, Dropping

(* A call through a guard may go on as long as its guard is known. *)
LEMMA GuardedOk ==
  ASSUME NEW t \in Thread, NEW l \in Guarded, NEW j,
         pc'[t] = l, job'[t] = j,
         GuardKnown(j.guard), l \in Dropping /\ j.op = "assign" => GuardKnown(j.from), ArcKept
  PROVE  JobOk(t)'
  <1>1. \A g : GuardKnown(g) => GuardKnown(g)'
    BY SameKnown DEF GuardKnown, GuardTyped
  <1> QED
    BY <1>1 DEF JobOk, Holding, Evictings, Cleaned, Fetching, Accessing, Guarded, Dropping

(* The frame of a live guard is known to the replacer by the guard's       *)
(* page.                                                                   *)
LEMMA MineKnown ==
  ASSUME Inv, Running
  PROVE  \A g \in guards : GuardKnown(g)
  BY DEF Inv, Typed, Tracked, GuardKnown

(* Nothing else happens when the process ends. *)
LEMMA AbortKeeps ==
  ASSUME Inv, Abort, UNCHANGED pool, UNCHANGED <<pc, job>>, serial' = serial
  PROVE  Inv'
  <1>1. /\ UNCHANGED <<page_table, free_frames, frame, guards, latch, disk, deleted, undefined>>
        /\ UNCHANGED <<failures, lost, unsaved, pc, job>>
    BY DEF pool, faults
  <1>2. Typed' /\ Users'
    BY <1>1 DEF Inv, Typed, TypeOK, Users, GuardTyped
  <1>3. Accounts'
    BY <1>1 DEF Inv, Accounts, HolderOk, Linked, Free
  <1>4. ArcP!Inv' /\ ~Running'
    BY Aborts DEF Inv, Abort, Running
  <1> QED
    BY <1>1, <1>2, <1>3, <1>4 DEF Inv

-----------------------------------------------------------------------------
(* CheckedReadPage, CheckedWritePage and FlushPage choose their case; a    *)
(* full pool evicts, so a free frame is there when the case is the free    *)
(* list.                                                                   *)
LEMMA GetPageKeeps ==
  ASSUME Inv, NEW t \in Thread, NEW p \in Page, NEW op \in {"get", "flush"}, NEW mode \in Mode,
         Company(t), MayAsk(t, p, mode), GetPage(t, op, p, mode), serial' = serial
  PROVE  Inv'
  <1> DEFINE j == [op |-> op, page |-> p, mode |-> mode]
  <1>1. Running /\ pc[t] = "idle" /\ Tracked /\ Typed /\ ArcP!Inv
    BY DEF GetPage, At, Inv
  <1>2. /\ UNCHANGED <<page_table, free_frames, frame, guards, latch, deleted, disk, undefined>>
        /\ UNCHANGED <<failures, lost, unsaved>> /\ UNCHANGED replacer
    BY DEF GetPage, faults
  <1>3. PICK l \in {"hit", "take", "evict"} :
          /\ Goto(t, l, j)
          /\ l = "hit" <=> p \in DOMAIN page_table
          /\ l = "take" => Cardinality(DOMAIN page_table) # NumFrames
    BY DEF GetPage
  <1>4. /\ pc' \in [Thread -> Labels] /\ DOMAIN job' = Thread
        /\ pc'[t] = l /\ job'[t] = j /\ Others(t)
    BY <1>1, <1>3, Going DEF Labels, Bringing
  <1>5. ArcKept
    BY <1>1, <1>2, Rests
  <1>6. Plain(t)
    BY <1>1, <1>2, <1>4, <1>5, PlainIfFree DEF SameFrames, Holding, Evictings, Cleaned
  <1>7. GuardsGood'
    BY <1>1, <1>2, <1>5, GuardsStay
  <1>8. ASSUME l # "hit" PROVE serial /\ guards' = {}
    <2>1. serial
      BY <1>3, <1>8 DEF MayAsk, Inv, Users
    <2>2. \A g \in guards : g.page = p
      BY <2>1 DEF MayAsk
    <2>3. \A g \in guards : g.page \in DOMAIN page_table
      BY <1>1 DEF Tracked, Knows, Linked
    <2> QED
      BY <1>2, <1>3, <1>8, <2>1, <2>2, <2>3
  <1>9. JobOk(t)'
    <2>1. j \in Get /\ j.page = p
      BY DEF Get
    <2> QED
      BY <1>2, <1>3, <1>4, <2>1
      DEF JobOk, Holding, Evictings, Cleaned, Fetching, Accessing, Guarded, Dropping
  <1>10. SameBytes
    BY <1>1, <1>2 DEF SameBytes, Typed, TypeOK, FrameRecord
  <1>11. \A q : ~Writing(t, q)
    BY <1>1 DEF Writing
  <1> QED
    BY <1>2, <1>4, <1>6, <1>7, <1>8, <1>9, <1>10, <1>11, QuietKeeps
    DEF Bringing, Holding, Evictings, Cleaned

(* Case 1 finds its page still resident. *)
LEMMA HitKeeps ==
  ASSUME Inv, NEW t \in Thread, Company(t), Hit(t), serial' = serial
  PROVE  Inv'
  <1> DEFINE p == job[t].page
             f == page_table[p]
             j == WithFrame(job[t], f)
  <1>1. Running /\ pc[t] = "hit" /\ Tracked /\ Typed /\ ArcP!Inv /\ JobOk(t)
    BY DEF Hit, At, Inv
  <1>2. job[t] \in Get /\ p \in DOMAIN page_table /\ f \in Frame
    BY <1>1 DEF JobOk, Typed, TypeOK, Range
  <1>3. /\ UNCHANGED <<page_table, free_frames, frame, guards, latch, deleted, disk, undefined>>
        /\ UNCHANGED <<failures, lost, unsaved>> /\ UNCHANGED replacer
        /\ Goto(t, "record_hit", j)
    BY <1>2 DEF Hit, faults
  <1>4. /\ pc' \in [Thread -> Labels] /\ DOMAIN job' = Thread
        /\ pc'[t] = "record_hit" /\ job'[t] = j /\ Others(t)
    BY <1>1, <1>3, Going DEF Labels, Fetching
  <1>5. j.page = p /\ j.frame = f /\ j.mode \in Mode /\ p \in Page
    BY <1>2, Extended
  <1>6. ArcKept
    BY <1>1, <1>3, Rests
  <1>7. Plain(t)
    BY <1>1, <1>3, <1>4, <1>6, PlainIfFree DEF SameFrames, Holding, Evictings, Cleaned
  <1>8. GuardsGood'
    BY <1>1, <1>3, <1>6, GuardsStay
  <1>9. JobOk(t)'
    <2>1. p \in DOMAIN page_table' /\ page_table'[p] = f
      BY <1>2, <1>3
    <2> HIDE DEF j, p, f
    <2>2. Linked(job[t].page, job[t].frame)'
      BY <1>4, <1>5, <2>1 DEF Linked
    <2> QED
      BY <1>2, <1>4, <1>5, <2>2
      DEF JobOk, Holding, Evictings, Cleaned, Fetching, Accessing, Guarded, Dropping
  <1>10. SameBytes
    BY <1>1, <1>3 DEF SameBytes, Typed, TypeOK, FrameRecord
  <1>11. \A q : ~Writing(t, q)
    BY <1>1 DEF Writing
  <1> QED
    BY <1>3, <1>4, <1>7, <1>8, <1>9, <1>10, <1>11, QuietKeeps
    DEF Bringing, Holding, Evictings, Cleaned

(* The pin count of a frame goes up. *)
LEMMA PinKeeps ==
  ASSUME Inv, NEW t \in Thread, Company(t), Pin(t), serial' = serial
  PROVE  Inv'
  <1> DEFINE f == job[t].frame
  <1>1. Running /\ pc[t] = "pin" /\ Tracked /\ Typed /\ ArcP!Inv /\ JobOk(t)
    BY DEF Pin, At, Inv
  <1>2. /\ job[t].page \in Page /\ f \in Frame /\ job[t].mode \in Mode
        /\ Knows(job[t].page, f)
    BY <1>1 DEF JobOk, Fetching, Accessing
  <1>3. /\ UNCHANGED <<page_table, free_frames, guards, latch, deleted, disk, undefined>>
        /\ UNCHANGED <<failures, lost, unsaved>> /\ UNCHANGED replacer
        /\ frame' = [frame EXCEPT ![f].pin = frame[f].pin + 1]
    BY DEF Pin, faults
  <1>4. PICK l \in {"unevict_latched", "rwlatch"} : Goto(t, l, job[t])
    BY DEF Pin
  <1>5. /\ pc' \in [Thread -> Labels] /\ DOMAIN job' = Thread
        /\ pc'[t] = l /\ job'[t] = job[t] /\ Others(t)
    BY <1>1, <1>4, Going DEF Labels, Fetching, Accessing
  <1>6. ArcKept
    BY <1>1, <1>3, Rests
  <1>7. Plain(t)
    BY <1>1, <1>3, <1>5, <1>6, PlainIfFree DEF SameFrames, Holding, Evictings, Cleaned
  <1>8. GuardsGood'
    BY <1>1, <1>3, <1>6, GuardsStay
  <1>9. JobOk(t)'
    BY <1>2, <1>5, <1>6, AccessingOk DEF Accessing
  <1>10. SameBytes
    <2>1. frame[f].pin + 1 \in Int
      BY <1>1, <1>2 DEF Typed, TypeOK
    <2> QED
      BY <1>1, <1>2, <1>3, <2>1, SamePin
  <1>11. \A q : ~Writing(t, q)
    BY <1>1 DEF Writing
  <1> QED
    BY <1>3, <1>5, <1>7, <1>8, <1>9, <1>10, <1>11, QuietKeeps
    DEF Bringing, Holding, Evictings, Cleaned

(* The frame of a call that will guard it is no longer evictable. *)
LEMMA SetUnevictableKeeps ==
  ASSUME Inv, NEW t \in Thread, Company(t), SetUnevictable(t), serial' = serial
  PROVE  Inv'
  <1>1. /\ Running /\ pc[t] \in {"unevict_latched", "unevict"}
        /\ Typed /\ ArcP!Inv /\ JobOk(t)
    BY DEF SetUnevictable, At, Inv
  <1>2. /\ UNCHANGED <<page_table, free_frames, undefined, latch, deleted, disk>>
        /\ UNCHANGED faults /\ UNCHANGED <<frame, guards>>
        /\ Goto(t, "rwlatch", job[t])
    BY DEF SetUnevictable, pool
  <1>3. ArcKept
    BY <1>1, SetsOne DEF SetUnevictable
  <1>4. pc'[t] = "rwlatch" /\ job'[t] = job[t]
    BY <1>1, <1>2, Going DEF Labels, Fetching, Accessing
  <1>5. JobOk(t)'
    <2>1. /\ job[t].page \in Page /\ job[t].frame \in Frame /\ job[t].mode \in Mode
          /\ Knows(job[t].page, job[t].frame)
      BY <1>1 DEF JobOk, Fetching, Accessing
    <2> QED
      BY <1>3, <1>4, <2>1, AccessingOk DEF Accessing
  <1>6. GuardsGood'
    BY <1>1, <1>2, <1>3, GuardsStay
  <1>7. SameBytes
    BY <1>1, <1>2 DEF SameBytes, Typed, TypeOK, FrameRecord
  <1>8. \A q : ~Writing(t, q)
    BY <1>1 DEF Writing
  <1>9. pc[t] \notin Holding \cup {"record_miss"}
    BY <1>1 DEF Holding, Evictings, Cleaned
  <1>10. "rwlatch" \in Labels \ (Bringing \cup {"store"})
    BY DEF Labels, Bringing, Holding, Evictings, Cleaned, Fetching, Accessing
  <1> QED
    BY <1>1, <1>2, <1>3, <1>5, <1>6, <1>7, <1>8, <1>9, <1>10, IdlyKeeps

(* A guard is made: its frame is known to the replacer by its page. *)
LEMMA LockFrameKeeps ==
  ASSUME Inv, NEW t \in Thread, Company(t), LockFrame(t), serial' = serial
  PROVE  Inv'
  <1> DEFINE j == job[t]
             n == CHOOSE n \in Variables : \A h \in Mine(t) : h.id # n
             g == [thread |-> t, page |-> j.page, frame |-> j.frame, mode |-> j.mode, id |-> n]
  <1>1. /\ Running /\ pc[t] = "rwlatch" /\ Typed /\ ArcP!Inv /\ JobOk(t)
    BY DEF LockFrame, At, Inv
  <1>2. /\ UNCHANGED <<page_table, free_frames, undefined, latch, deleted, disk>>
        /\ UNCHANGED faults /\ UNCHANGED frame /\ UNCHANGED replacer
        /\ guards' = guards \cup {g}
        /\ Goto(t, "flush", [op |-> "flush", guard |-> g]) \/ Return(t)
    BY DEF LockFrame
  <1>3. ArcKept
    BY <1>1, <1>2, Rests
  <1>4. GuardKnown(g)
    <2>1. /\ j.page \in Page /\ j.frame \in Frame /\ j.mode \in Mode
          /\ Knows(j.page, j.frame)
      BY <1>1 DEF JobOk, Fetching, Accessing
    <2> HIDE DEF j, n
    <2> QED
      BY <2>1 DEF GuardKnown, GuardTyped
  <1> HIDE DEF g
  <1>5. GuardsGood'
    BY <1>1, <1>2, <1>3, <1>4, GuardsStay DEF GuardKnown
  <1>6. SameBytes
    BY <1>1, <1>2 DEF SameBytes, Typed, TypeOK, FrameRecord
  <1>7. \A q : ~Writing(t, q)
    BY <1>1 DEF Writing
  <1>8. pc[t] \notin Holding \cup {"record_miss"}
    BY <1>1 DEF Holding, Evictings, Cleaned
  <1>9. {"flush", "idle"} \subseteq Labels \ (Bringing \cup {"store"})
    BY DEF Labels, Bringing, Holding, Evictings, Cleaned, Guarded
  <1>10. CASE Return(t)
    <2>1. JobOk(t)'
      BY <1>10, IdleOk
    <2> QED
      BY <1>1, <1>2, <1>3, <1>5, <1>6, <1>7, <1>8, <1>9, <1>10, <2>1, IdlyKeeps DEF Return
  <1>11. CASE Goto(t, "flush", [op |-> "flush", guard |-> g])
    <2> DEFINE k == [op |-> "flush", guard |-> g]
    <2>1. k.op = "flush" /\ k.guard = g
      OBVIOUS
    <2> HIDE DEF k
    <2>2. Goto(t, "flush", k)
      BY <1>11 DEF k
    <2>3. pc'[t] = "flush" /\ job'[t] = k
      BY <1>1, <1>9, <2>2, Going
    <2>4. JobOk(t)'
      BY <1>3, <1>4, <2>1, <2>3, GuardedOk DEF Guarded
    <2> QED
      BY <1>1, <1>2, <1>3, <1>5, <1>6, <1>7, <1>8, <1>9, <2>2, <2>4, IdlyKeeps
  <1> QED
    BY <1>2, <1>10, <1>11

(* A call of a guard's Flush. *)
LEMMA CallFlushKeeps ==
  ASSUME Inv, NEW t \in Thread, NEW g, Company(t), CallFlush(t, g), serial' = serial
  PROVE  Inv'
  <1> DEFINE k == [op |-> "guard_flush", guard |-> g]
  <1>1. /\ Running /\ pc[t] = "idle" /\ Typed /\ ArcP!Inv /\ g \in guards
    BY DEF CallFlush, At, Inv, Mine
  <1>2. /\ UNCHANGED <<page_table, free_frames, undefined, latch, deleted, disk>>
        /\ UNCHANGED faults /\ UNCHANGED <<frame, guards>> /\ UNCHANGED replacer
        /\ Goto(t, "flush", k)
    BY DEF CallFlush
  <1>3. k.op = "guard_flush" /\ k.guard = g
    OBVIOUS
  <1> HIDE DEF k
  <1>4. ArcKept
    BY <1>1, <1>2, Rests
  <1>5. "flush" \in Labels \ (Bringing \cup {"store"})
    BY DEF Labels, Bringing, Holding, Evictings, Cleaned, Guarded
  <1>6. JobOk(t)'
    <2>1. pc'[t] = "flush" /\ job'[t] = k
      BY <1>1, <1>2, <1>5, Going
    <2> QED
      BY <1>1, <1>3, <1>4, <2>1, MineKnown, GuardedOk DEF Guarded
  <1>7. GuardsGood'
    BY <1>1, <1>2, <1>4, GuardsStay
  <1>8. SameBytes
    BY <1>1, <1>2 DEF SameBytes, Typed, TypeOK, FrameRecord
  <1>9. \A q : ~Writing(t, q)
    BY <1>1 DEF Writing
  <1>10. pc[t] \notin Holding \cup {"record_miss"}
    BY <1>1 DEF Holding, Evictings, Cleaned
  <1> QED
    BY <1>1, <1>2, <1>4, <1>5, <1>6, <1>7, <1>8, <1>9, <1>10, IdlyKeeps

(* A call of a guard's Drop. *)
LEMMA CallDropKeeps ==
  ASSUME Inv, NEW t \in Thread, NEW g, Company(t), CallDrop(t, g), serial' = serial
  PROVE  Inv'
  <1> DEFINE k == [op |-> "drop", guard |-> g]
  <1>1. /\ Running /\ pc[t] = "idle" /\ Typed /\ ArcP!Inv /\ g \in guards
    BY DEF CallDrop, At, Inv, Mine
  <1>2. /\ UNCHANGED <<page_table, free_frames, undefined, latch, deleted, disk>>
        /\ UNCHANGED faults /\ UNCHANGED <<frame, guards>> /\ UNCHANGED replacer
        /\ Goto(t, "drop", k)
    BY DEF CallDrop, pool
  <1>3. k.op = "drop" /\ k.guard = g
    OBVIOUS
  <1> HIDE DEF k
  <1>4. ArcKept
    BY <1>1, <1>2, Rests
  <1>5. "drop" \in Labels \ (Bringing \cup {"store"}) /\ "drop" \in Dropping
    BY DEF Labels, Bringing, Holding, Evictings, Cleaned, Guarded, Dropping
  <1>6. JobOk(t)'
    <2>1. pc'[t] = "drop" /\ job'[t] = k
      BY <1>1, <1>2, <1>5, Going
    <2> QED
      BY <1>1, <1>3, <1>4, <1>5, <2>1, MineKnown, GuardedOk DEF Guarded
  <1>7. GuardsGood'
    BY <1>1, <1>2, <1>4, GuardsStay
  <1>8. SameBytes
    BY <1>1, <1>2 DEF SameBytes, Typed, TypeOK, FrameRecord
  <1>9. \A q : ~Writing(t, q)
    BY <1>1 DEF Writing
  <1>10. pc[t] \notin Holding \cup {"record_miss"}
    BY <1>1 DEF Holding, Evictings, Cleaned
  <1> QED
    BY <1>1, <1>2, <1>4, <1>5, <1>6, <1>7, <1>8, <1>9, <1>10, IdlyKeeps

(* The last step of a drop, alone or before the assignment goes on. *)
LEMMA DroppedKeeps ==
  ASSUME Inv, Running, NEW t \in Thread, Company(t), serial' = serial, ArcKept, SameBytes,
         UNCHANGED <<page_table, free_frames, undefined, latch, deleted, disk>>, UNCHANGED faults,
         GuardsGood', pc[t] \in Dropping, Dropped(t)
  PROVE  Inv'
  <1>1. JobOk(t) /\ Typed
    BY DEF Inv
  <1>2. \A q : ~Writing(t, q)
    BY DEF Writing, Dropping
  <1>3. pc[t] \notin Holding \cup {"record_miss"}
    BY DEF Holding, Evictings, Cleaned, Dropping
  <1>4. {"assign", "idle"} \subseteq Labels \ (Bringing \cup {"store"})
    BY DEF Labels, Bringing, Holding, Evictings, Cleaned
  <1>5. CASE job[t].op = "assign"
    <2>1. Goto(t, "assign", job[t])
      BY <1>5 DEF Dropped
    <2>2. pc'[t] = "assign" /\ job'[t] = job[t]
      BY <1>1, <1>4, <2>1, Going
    <2>3. GuardKnown(job[t].from)
      BY <1>1, <1>5 DEF JobOk
    <2>4. GuardKnown(job[t].from)'
      <3>1. job'[t].from = job[t].from
        BY <2>2
      <3> QED
        BY <2>3, <3>1, SameKnown DEF GuardKnown, GuardTyped
    <2>5. JobOk(t)'
      BY <1>5, <2>2, <2>4 DEF JobOk, Holding, Evictings, Cleaned, Fetching, Accessing, Guarded, Dropping
    <2> QED
      BY <1>2, <1>3, <1>4, <2>1, <2>5, IdlyKeeps
  <1>6. CASE job[t].op # "assign"
    <2>1. Return(t)
      BY <1>6 DEF Dropped
    <2>2. JobOk(t)'
      BY <2>1, IdleOk
    <2> QED
      BY <1>2, <1>3, <1>4, <2>1, <2>2, IdlyKeeps DEF Return
  <1> QED
    BY <1>5, <1>6

(* The pin count of a guard's frame goes down. *)
LEMMA UnpinKeeps ==
  ASSUME Inv, NEW t \in Thread, Company(t), Unpin(t), serial' = serial
  PROVE  Inv'
  <1> DEFINE f == job[t].guard.frame
  <1>1. Running /\ pc[t] = "drop" /\ Typed /\ ArcP!Inv /\ JobOk(t)
    BY DEF Unpin, At, Inv
  <1>2. GuardKnown(job[t].guard) /\ (job[t].op = "assign" => GuardKnown(job[t].from))
    BY <1>1 DEF JobOk, Guarded, Dropping
  <1>3. f \in Frame
    BY <1>2 DEF GuardKnown, GuardTyped
  <1>4. /\ UNCHANGED <<page_table, free_frames, undefined, latch, deleted, disk>>
        /\ UNCHANGED faults /\ UNCHANGED guards /\ UNCHANGED replacer
        /\ frame' = [frame EXCEPT ![f].pin = frame[f].pin - 1]
    BY DEF Unpin
  <1>5. PICK l \in {"drop_evictable", "unlock"} : Goto(t, l, job[t])
    BY DEF Unpin
  <1>6. ArcKept
    BY <1>1, <1>4, Rests
  <1>7. l \in Dropping /\ l \in Labels \ (Bringing \cup {"store"})
    BY DEF Labels, Bringing, Holding, Evictings, Cleaned, Guarded, Dropping
  <1>8. JobOk(t)'
    <2>1. pc'[t] = l /\ job'[t] = job[t]
      BY <1>1, <1>5, <1>7, Going
    <2> QED
      BY <1>2, <1>6, <1>7, <2>1, GuardedOk DEF Guarded
  <1>9. GuardsGood'
    BY <1>1, <1>4, <1>6, GuardsStay
  <1>10. SameBytes
    <2>1. frame[f].pin - 1 \in Int
      BY <1>1, <1>3 DEF Typed, TypeOK
    <2> QED
      BY <1>1, <1>3, <1>4, <2>1, SamePin
  <1>11. \A q : ~Writing(t, q)
    BY <1>1 DEF Writing
  <1>12. pc[t] \notin Holding \cup {"record_miss"}
    BY <1>1 DEF Holding, Evictings, Cleaned
  <1> QED
    BY <1>1, <1>4, <1>5, <1>6, <1>7, <1>8, <1>9, <1>10, <1>11, <1>12, IdlyKeeps

(* The last drop makes the frame evictable, and unlocks it if the guard    *)
(* was a read guard.                                                       *)
LEMMA DropEvictableKeeps ==
  ASSUME Inv, NEW t \in Thread, Company(t), DropEvictable(t), serial' = serial
  PROVE  Inv'
  <1> DEFINE g == job[t].guard
  <1>1. Running /\ pc[t] = "drop_evictable" /\ Typed /\ ArcP!Inv /\ JobOk(t)
    BY DEF DropEvictable, At, Inv
  <1>2. GuardKnown(g) /\ (job[t].op = "assign" => GuardKnown(job[t].from))
    BY <1>1 DEF JobOk, Guarded, Dropping
  <1>3. /\ UNCHANGED <<page_table, free_frames, undefined, latch, deleted, disk>>
        /\ UNCHANGED faults /\ UNCHANGED frame
        /\ \/ guards' = guards \ {g} /\ Dropped(t)
           \/ UNCHANGED guards /\ Goto(t, "unlock", job[t])
    BY DEF DropEvictable
  <1>4. ArcKept
    BY <1>1, SetsOne DEF DropEvictable
  <1>5. GuardsGood'
    BY <1>1, <1>3, <1>4, GuardsStay
  <1>6. SameBytes
    BY <1>1, <1>3 DEF SameBytes, Typed, TypeOK, FrameRecord
  <1>7. CASE Dropped(t)
    BY <1>1, <1>3, <1>4, <1>5, <1>6, <1>7, DroppedKeeps DEF Dropping
  <1>8. CASE Goto(t, "unlock", job[t])
    <2>1. "unlock" \in Dropping /\ "unlock" \in Labels \ (Bringing \cup {"store"})
      BY DEF Labels, Bringing, Holding, Evictings, Cleaned, Guarded, Dropping
    <2>2. pc'[t] = "unlock" /\ job'[t] = job[t]
      BY <1>1, <1>8, <2>1, Going
    <2>3. JobOk(t)'
      BY <1>2, <1>4, <2>1, <2>2, GuardedOk DEF Guarded
    <2>4. \A q : ~Writing(t, q)
      BY <1>1 DEF Writing
    <2>5. pc[t] \notin Holding \cup {"record_miss"}
      BY <1>1 DEF Holding, Evictings, Cleaned
    <2> QED
      BY <1>1, <1>3, <1>4, <1>5, <1>6, <1>8, <2>1, <2>3, <2>4, <2>5, IdlyKeeps
  <1> QED
    BY <1>3, <1>7, <1>8

(* The frame's latch is let go, and the guard is gone. *)
LEMMA UnlockKeeps ==
  ASSUME Inv, NEW t \in Thread, Company(t), Unlock(t), serial' = serial
  PROVE  Inv'
  <1>1. Running /\ pc[t] = "unlock" /\ Typed /\ ArcP!Inv
    BY DEF Unlock, At, Inv
  <1>2. /\ UNCHANGED <<page_table, free_frames, undefined, latch, deleted, disk>>
        /\ UNCHANGED faults /\ UNCHANGED frame /\ UNCHANGED replacer
        /\ guards' = guards \ {job[t].guard} /\ Dropped(t)
    BY DEF Unlock
  <1>3. ArcKept
    BY <1>1, <1>2, Rests
  <1>4. GuardsGood'
    BY <1>1, <1>2, <1>3, GuardsStay
  <1>5. SameBytes
    BY <1>1, <1>2 DEF SameBytes, Typed, TypeOK, FrameRecord
  <1> QED
    BY <1>1, <1>2, <1>3, <1>4, <1>5, DroppedKeeps DEF Dropping

(* A guard in another variable is a guard on the same frame. *)
LEMMA MovedKnown ==
  ASSUME NEW g, NEW id, GuardKnown(g)
  PROVE  GuardKnown([g EXCEPT !.id = id])
  BY DEF GuardKnown, GuardTyped

(* A guard is moved to a free variable, or the guard in the variable it    *)
(* is to have is dropped first.                                            *)
LEMMA MoveGuardKeeps ==
  ASSUME Inv, NEW t \in Thread, NEW g, NEW id, Company(t), MoveGuard(t, g, id), serial' = serial
  PROVE  Inv'
  <1>1. Running /\ pc[t] = "idle" /\ Typed /\ ArcP!Inv /\ g \in guards
    BY DEF MoveGuard, At, Inv, Mine
  <1>2. /\ UNCHANGED <<page_table, free_frames, undefined, latch, deleted, disk>>
        /\ UNCHANGED faults /\ UNCHANGED frame /\ UNCHANGED replacer
        /\ \/ guards' = Moved(g, id) /\ UNCHANGED <<pc, job>>
           \/ /\ UNCHANGED guards
              /\ \E h \in guards : Goto(t, "drop", [op |-> "assign", guard |-> h, from |-> g])
    BY DEF MoveGuard, Mine
  <1>3. ArcKept
    BY <1>1, <1>2, Rests
  <1>4. GuardKnown(g) /\ GuardKnown([g EXCEPT !.id = id])
    BY <1>1, MineKnown, MovedKnown
  <1>5. GuardsGood'
    <2>1. \A h \in guards' : h \in guards \/ h = [g EXCEPT !.id = id]
      BY <1>2 DEF Moved
    <2> QED
      BY <1>1, <1>3, <1>4, <2>1, GuardsStay DEF GuardKnown
  <1>6. SameBytes
    BY <1>1, <1>2 DEF SameBytes, Typed, TypeOK, FrameRecord
  <1>7. \A q : ~Writing(t, q)
    BY <1>1 DEF Writing
  <1>8. pc[t] \notin Holding \cup {"record_miss"}
    BY <1>1 DEF Holding, Evictings, Cleaned
  <1>9. CASE UNCHANGED <<pc, job>>
    <2>1. pc' = pc /\ job' = job /\ Others(t)
      BY <1>9 DEF Others
    <2>2. Plain(t)
      BY <1>1, <1>2, <1>3, <1>8, <2>1, PlainIfFree DEF SameFrames, faults
    <2>3. JobOk(t)'
      BY <1>1, <2>1 DEF JobOk, Holding, Evictings, Cleaned, Fetching, Accessing, Guarded, Dropping
    <2>4. pc' \in [Thread -> Labels] /\ DOMAIN job' = Thread
      BY <1>1, <2>1 DEF Typed
    <2>5. pc'[t] \notin Bringing \cup {"store", "link"}
      BY <1>1, <2>1 DEF Bringing, Holding, Evictings, Cleaned
    <2> QED
      BY <1>2, <1>5, <1>6, <1>7, <2>2, <2>3, <2>4, <2>5, QuietKeeps DEF faults
  <1>10. ASSUME NEW h \in guards, Goto(t, "drop", [op |-> "assign", guard |-> h, from |-> g])
         PROVE  Inv'
    <2> DEFINE k == [op |-> "assign", guard |-> h, from |-> g]
    <2>1. k.op = "assign" /\ k.guard = h /\ k.from = g
      OBVIOUS
    <2> HIDE DEF k
    <2>2. Goto(t, "drop", k)
      BY <1>10 DEF k
    <2>3. "drop" \in Dropping /\ "drop" \in Labels \ (Bringing \cup {"store"})
      BY DEF Labels, Bringing, Holding, Evictings, Cleaned, Guarded, Dropping
    <2>4. pc'[t] = "drop" /\ job'[t] = k
      BY <1>1, <2>2, <2>3, Going
    <2>5. JobOk(t)'
      <3>1. GuardKnown(k.guard) /\ GuardKnown(k.from)
        BY <1>1, <2>1, MineKnown
      <3> QED
        BY <1>3, <2>3, <2>4, <3>1, GuardedOk DEF Guarded
    <2> QED
      BY <1>1, <1>2, <1>3, <1>5, <1>6, <1>7, <1>8, <2>2, <2>3, <2>5, IdlyKeeps
  <1> QED
    BY <1>2, <1>9, <1>10

(* The assignment ends: the guard has the variable of the one dropped. *)
LEMMA AssignKeeps ==
  ASSUME Inv, NEW t \in Thread, Company(t), Assign(t), serial' = serial
  PROVE  Inv'
  <1> DEFINE g == job[t].from
             id == job[t].guard.id
  <1>1. Running /\ pc[t] = "assign" /\ Typed /\ ArcP!Inv /\ JobOk(t)
    BY DEF Assign, At, Inv
  <1>2. /\ UNCHANGED <<page_table, free_frames, undefined, latch, deleted, disk>>
        /\ UNCHANGED faults /\ UNCHANGED frame /\ UNCHANGED replacer
        /\ guards' = Moved(g, id) /\ Return(t)
    BY DEF Assign
  <1>3. ArcKept
    BY <1>1, <1>2, Rests
  <1>4. GuardKnown([g EXCEPT !.id = id])
    <2>1. GuardKnown(g)
      BY <1>1 DEF JobOk
    <2> QED
      BY <2>1, MovedKnown
  <1>5. GuardsGood'
    <2>1. \A h \in guards' : h \in guards \/ h = [g EXCEPT !.id = id]
      BY <1>2 DEF Moved
    <2> QED
      BY <1>1, <1>3, <1>4, <2>1, GuardsStay DEF GuardKnown
  <1>6. SameBytes
    BY <1>1, <1>2 DEF SameBytes, Typed, TypeOK, FrameRecord
  <1>7. \A q : ~Writing(t, q)
    BY <1>1 DEF Writing
  <1>8. pc[t] \notin Holding \cup {"record_miss"}
    BY <1>1 DEF Holding, Evictings, Cleaned
  <1>9. "idle" \in Labels \ (Bringing \cup {"store"})
    BY DEF Labels, Bringing, Holding, Evictings, Cleaned
  <1>10. JobOk(t)'
    BY <1>2, IdleOk
  <1> QED
    BY <1>1, <1>2, <1>3, <1>5, <1>6, <1>7, <1>8, <1>9, <1>10, IdlyKeeps DEF Return

(* A call that finds no victim returns std::nullopt, or ends the process. *)
LEMMA NothingToEvictKeeps ==
  ASSUME Inv, NEW t \in Thread, Company(t), NothingToEvict(t), serial' = serial
  PROVE  Inv'
  <1>1. Running /\ pc[t] = "evict" /\ Typed /\ ArcP!Inv
    BY DEF NothingToEvict, At, Inv
  <1>2. UNCHANGED pool
    BY DEF NothingToEvict
  <1>3. /\ UNCHANGED <<page_table, free_frames, undefined, latch, deleted, disk>>
        /\ UNCHANGED faults /\ UNCHANGED <<frame, guards>>
    BY <1>2 DEF pool
  <1>4. CASE Return(t) /\ UNCHANGED replacer
    <2>1. ArcKept
      BY <1>1, <1>4, Rests
    <2>2. GuardsGood'
      BY <1>1, <1>3, <2>1, GuardsStay
    <2>3. SameBytes
      BY <1>1, <1>3 DEF SameBytes, Typed, TypeOK, FrameRecord
    <2>4. \A q : ~Writing(t, q)
      BY <1>1 DEF Writing
    <2>5. pc[t] \notin Holding \cup {"record_miss"}
      BY <1>1 DEF Holding, Evictings, Cleaned
    <2>6. "idle" \in Labels \ (Bringing \cup {"store"})
      BY DEF Labels, Bringing, Holding, Evictings, Cleaned
    <2>7. JobOk(t)'
      BY <1>4, IdleOk
    <2> QED
      BY <1>1, <1>3, <1>4, <2>1, <2>2, <2>3, <2>4, <2>5, <2>6, <2>7, IdlyKeeps DEF Return
  <1>5. CASE Abort /\ UNCHANGED <<pc, job>>
    BY <1>2, <1>5, AbortKeeps
  <1> QED
    BY <1>4, <1>5 DEF NothingToEvict

(* The use of an invalid guard ends the process. *)
LEMMA UseInvalidKeeps ==
  ASSUME Inv, NEW t \in Thread, UseInvalid(t), serial' = serial
  PROVE  Inv'
  BY AbortKeeps DEF UseInvalid

(* A batch with a failed write throws, and unpins nothing. *)
LEMMA FlushAllThrowsKeeps ==
  ASSUME Inv, NEW t \in Thread, Company(t), FlushAllThrows(t), serial' = serial
  PROVE  Inv'
  <1>1. Running /\ pc[t] = "flush_all" /\ Typed /\ ArcP!Inv /\ job[t].writes = {}
    BY DEF FlushAllThrows, At, Inv
  <1>2. /\ UNCHANGED <<page_table, free_frames, undefined, latch, deleted, disk>>
        /\ UNCHANGED faults /\ UNCHANGED <<frame, guards>> /\ UNCHANGED replacer
        /\ Return(t)
    BY DEF FlushAllThrows, pool
  <1>3. ArcKept
    BY <1>1, <1>2, Rests
  <1>4. GuardsGood'
    BY <1>1, <1>2, <1>3, GuardsStay
  <1>5. SameBytes
    BY <1>1, <1>2 DEF SameBytes, Typed, TypeOK, FrameRecord
  <1>6. \A q : ~Writing(t, q)
    BY <1>1 DEF Writing
  <1>7. pc[t] \notin Holding \cup {"record_miss"}
    BY <1>1 DEF Holding, Evictings, Cleaned
  <1>8. "idle" \in Labels \ (Bringing \cup {"store"})
    BY DEF Labels, Bringing, Holding, Evictings, Cleaned
  <1>9. JobOk(t)'
    BY <1>2, IdleOk
  <1> QED
    BY <1>1, <1>2, <1>3, <1>4, <1>5, <1>6, <1>7, <1>8, <1>9, IdlyKeeps DEF Return

(* The frames of a batch are unpinned, and those that nobody guards are    *)
(* evictable again.                                                        *)
LEMMA FlushAllUnpinKeeps ==
  ASSUME Inv, NEW t \in Thread, Company(t), FlushAllUnpin(t), serial' = serial
  PROVE  Inv'
  <1> DEFINE frames == job[t].pinned
  <1>1. Running /\ pc[t] = "flush_all" /\ Typed /\ ArcP!Inv /\ job[t].writes = {}
    BY DEF FlushAllUnpin, At, Inv
  <1>2. /\ UNCHANGED <<page_table, free_frames, undefined, latch, deleted, disk>>
        /\ UNCHANGED faults /\ UNCHANGED guards
        /\ frame' = [f \in Frame |-> IF f \in frames
                       THEN [frame[f] EXCEPT !.pin = @ - 1] ELSE frame[f]]
        /\ Return(t)
    BY DEF FlushAllUnpin
  <1>3. ArcKept
    BY <1>1, Sets DEF FlushAllUnpin
  <1>4. GuardsGood'
    BY <1>1, <1>2, <1>3, GuardsStay
  <1>5. SameBytes
    <2>1. frame \in [Frame -> FrameRecord]
      BY <1>1 DEF Typed, TypeOK, FrameRecord
    <2> QED
      BY <1>2, <2>1 DEF SameBytes, FrameRecord
  <1>6. \A q : ~Writing(t, q)
    BY <1>1 DEF Writing
  <1>7. pc[t] \notin Holding \cup {"record_miss"}
    BY <1>1 DEF Holding, Evictings, Cleaned
  <1>8. "idle" \in Labels \ (Bringing \cup {"store"})
    BY DEF Labels, Bringing, Holding, Evictings, Cleaned
  <1>9. JobOk(t)'
    BY <1>2, IdleOk
  <1> QED
    BY <1>1, <1>2, <1>3, <1>4, <1>5, <1>6, <1>7, <1>8, <1>9, IdlyKeeps DEF Return

-----------------------------------------------------------------------------
(* The steps that write bytes.                                             *)
LEMMA FrameUpdates ==
  ASSUME Typed, NEW f \in Frame
  PROVE  /\ \A b \in BOOLEAN : frame' = [frame EXCEPT ![f].dirty = b] =>
              /\ frame' \in [Frame -> FrameRecord] /\ frame'[f].dirty = b
              /\ \A h \in Frame : frame'[h].data = frame[h].data
              /\ \A h \in Frame \ {f} : frame'[h] = frame[h]
         /\ \A d \in Data : frame' = [frame EXCEPT ![f].data = d] =>
              /\ frame' \in [Frame -> FrameRecord] /\ frame'[f].data = d
              /\ \A h \in Frame : frame'[h].dirty = frame[h].dirty
              /\ \A h \in Frame \ {f} : frame'[h] = frame[h]
  <1>1. frame \in [Frame -> FrameRecord]
    BY DEF Typed, TypeOK, FrameRecord
  <1> QED
    BY <1>1 DEF FrameRecord

SavedAt(p) ==
  \/ frame[page_table[p]].dirty \/ frame[page_table[p]].data = disk[p] \/ p \in unsaved

(* Before a step of a serial user, an unsaved page is its call's to        *)
(* write.                                                                  *)
LEMMA SavedWas ==
  ASSUME Inv, Running, serial, NEW t \in Thread, Company(t), NEW p \in DOMAIN page_table
  PROVE  SavedAt(p) \/ Writing(t, p)
  <1>1. Saved
    BY DEF Inv
  <1>2. \A u \in Thread \ {t} : ~Writing(u, p)
    BY DEF Company, Alone, Writing
  <1> QED
    BY <1>1, <1>2 DEF Saved, SavedAt

(* Saved after a step of a serial user: only its own call can be about to  *)
(* write.                                                                  *)
LEMMA SavedIf ==
  ASSUME serial, NEW t \in Thread, Company(t), Others(t),
         \A p \in DOMAIN page_table' : SavedAt(p)' \/ Writing(t, p)',
         pc'[t] = "store" => frame'[job'[t].guard.frame].dirty,
         pc'[t] = "link" => frame'[job'[t].frame].data = disk'[job'[t].page]
  PROVE  Saved'
  <1>1. \A u \in Thread \ {t} : pc'[u] = "idle"
    BY DEF Others, Company, Alone
  <1> QED
    BY <1>1 DEF Saved, SavedAt

(* A guard's page is the one in its frame, for the pool too. *)
LEMMA GuardLinked ==
  ASSUME Inv, Running, NEW g, GuardKnown(g)
  PROVE  /\ g.frame \in Frame /\ g.page \in Page /\ g.frame \in DOMAIN alive
         /\ g.page \in DOMAIN page_table /\ page_table[g.page] = g.frame
  BY DEF Inv, Tracked, GuardKnown, GuardTyped, Knows, Linked

(* The page table maps pages to frames, no two to the same one. *)
LEMMA FramesOfPages ==
  ASSUME Inv
  PROVE  /\ \A p \in DOMAIN page_table : p \in Page /\ page_table[p] \in Frame
         /\ \A p, q \in DOMAIN page_table : page_table[p] = page_table[q] => p = q
  BY DEF Inv, Typed, TypeOK, Range, Accounts

(* Only serial users meet a failed write. *)
LEMMA NothingUnsaved == Inv /\ ~serial => unsaved = {}
  BY DEF Inv, Users

(* GetDataMut marks the frame before any byte of it changes. *)
LEMMA GetDataMutKeeps ==
  ASSUME Inv, NEW t \in Thread, NEW g, Company(t), GetDataMut(t, g), serial' = serial
  PROVE  Inv'
  <1> DEFINE k == [op |-> "store", guard |-> g]
  <1>1. Running /\ pc[t] = "idle" /\ Typed /\ ArcP!Inv /\ g \in guards
    BY DEF GetDataMut, At, Inv, Mine
  <1>2. /\ UNCHANGED <<page_table, free_frames, undefined, latch, deleted, disk, guards>>
        /\ UNCHANGED <<failures, lost>> /\ UNCHANGED replacer
        /\ frame' = [frame EXCEPT ![g.frame].dirty = TRUE]
        /\ unsaved' = unsaved \ {g.page}
        /\ Goto(t, "store", k)
    BY DEF GetDataMut, Settle
  <1>3. k.op = "store" /\ k.guard = g
    OBVIOUS
  <1> HIDE DEF k
  <1>4. ArcKept
    BY <1>1, <1>2, Rests
  <1>5. "store" \in Labels /\ "store" \in Guarded /\ "store" \notin Bringing
    BY DEF Labels, Bringing, Holding, Evictings, Cleaned, Guarded
  <1>6. /\ pc' \in [Thread -> Labels] /\ DOMAIN job' = Thread
        /\ pc'[t] = "store" /\ job'[t] = k /\ Others(t)
    BY <1>1, <1>2, <1>5, Going
  <1>7. GuardKnown(g)
    BY <1>1, MineKnown
  <1>8. /\ g.frame \in Frame /\ g.page \in Page /\ g.frame \in DOMAIN alive
        /\ g.page \in DOMAIN page_table /\ page_table[g.page] = g.frame
    BY <1>1, <1>7, GuardLinked
  <1>9. JobOk(t)'
    BY <1>3, <1>4, <1>5, <1>6, <1>7, GuardedOk
  <1>10. Plain(t)
    BY <1>1, <1>2, <1>4, <1>5, <1>6, PlainIfFree DEF SameFrames, Holding, Evictings, Cleaned, Bringing
  <1>11. /\ frame' \in [Frame -> FrameRecord] /\ frame'[g.frame].dirty
         /\ \A h \in Frame : frame'[h].data = frame[h].data
         /\ \A h \in Frame \ {g.frame} : frame'[h] = frame[h]
    BY <1>1, <1>2, <1>8, FrameUpdates
  <1>12. Typed'
    <2>1. /\ failures' \in 0..MaxFailures /\ unsaved' \subseteq Page /\ disk' \in [Page -> Data]
          /\ latch' \in Thread \cup {NoThread} /\ \A h \in guards' : GuardTyped(h)
      BY <1>1, <1>2 DEF Typed, TypeOK
    <2> QED
      BY <1>1, <1>2, <1>6, <1>11, <2>1, TypedKept DEF SameFrames
  <1>13. StillForgotten(t)
    BY <1>2, <1>8, <1>11, FramesOfPages DEF StillForgotten
  <1>14. GuardsKnown'
    BY <1>1, <1>2, <1>4, GuardsStay DEF GuardsGood, GuardsKnown
  <1>15. serial \/ unsaved' = unsaved
    BY <1>2, NothingUnsaved
  <1>16. ASSUME serial PROVE Saved'
    <2>1. ASSUME NEW p \in DOMAIN page_table PROVE SavedAt(p)'
      <3>1. ~Writing(t, p)
        BY <1>1 DEF Writing
      <3>2. SavedAt(p)
        BY <1>1, <1>16, <3>1, SavedWas
      <3>3. CASE page_table[p] = g.frame
        BY <1>2, <1>11, <3>3 DEF SavedAt
      <3>4. CASE page_table[p] # g.frame
        BY <1>2, <1>8, <1>11, <3>2, <3>4, FramesOfPages DEF SavedAt
      <3> QED
        BY <3>3, <3>4
    <2> QED
      BY <1>2, <1>3, <1>6, <1>11, <1>16, <2>1, SavedIf
  <1> QED
    BY <1>5, <1>6, <1>9, <1>10, <1>12, <1>13, <1>14, <1>15, <1>16, PlainKeeps

(* A byte of a frame changes: the frame is marked. *)
LEMMA StoreKeeps ==
  ASSUME Inv, NEW t \in Thread, Company(t), Store(t), serial' = serial
  PROVE  Inv'
  <1> DEFINE g == job[t].guard
  <1>1. Running /\ pc[t] = "store" /\ Typed /\ ArcP!Inv /\ JobOk(t)
    BY DEF Store, At, Inv
  <1>2. /\ UNCHANGED <<page_table, free_frames, undefined, latch, deleted, disk, guards>>
        /\ UNCHANGED <<failures, lost, unsaved>> /\ UNCHANGED replacer
        /\ \E d \in Data : frame' = [frame EXCEPT ![g.frame].data = d]
        /\ Return(t)
    BY DEF Store, faults
  <1>3. GuardKnown(g)
    BY <1>1 DEF JobOk, Guarded
  <1>4. /\ g.frame \in Frame /\ g.page \in Page /\ g.frame \in DOMAIN alive
        /\ g.page \in DOMAIN page_table /\ page_table[g.page] = g.frame
    BY <1>1, <1>3, GuardLinked
  <1>5. ArcKept
    BY <1>1, <1>2, Rests
  <1>6. /\ pc' \in [Thread -> Labels] /\ DOMAIN job' = Thread
        /\ pc'[t] = "idle" /\ Others(t)
    BY <1>1, <1>2, Returning
  <1>7. JobOk(t)'
    BY <1>2, IdleOk
  <1>8. Plain(t)
    BY <1>1, <1>2, <1>5, <1>6, PlainIfFree DEF SameFrames, Holding, Evictings, Cleaned
  <1>9. /\ frame' \in [Frame -> FrameRecord]
        /\ \A h \in Frame : frame'[h].dirty = frame[h].dirty
        /\ \A h \in Frame \ {g.frame} : frame'[h] = frame[h]
    BY <1>1, <1>2, <1>4, FrameUpdates
  <1>10. Typed'
    <2>1. /\ failures' \in 0..MaxFailures /\ unsaved' \subseteq Page /\ disk' \in [Page -> Data]
          /\ latch' \in Thread \cup {NoThread} /\ \A h \in guards' : GuardTyped(h)
      BY <1>1, <1>2 DEF Typed, TypeOK
    <2> QED
      BY <1>1, <1>2, <1>6, <1>9, <2>1, TypedKept DEF SameFrames
  <1>11. StillForgotten(t)
    BY <1>2, <1>9, FramesOfPages DEF StillForgotten
  <1>12. GuardsKnown'
    BY <1>1, <1>2, <1>5, GuardsStay DEF GuardsGood, GuardsKnown
  <1>13. ASSUME serial PROVE Saved'
    <2>1. frame[g.frame].dirty
      BY <1>1, <1>13 DEF Inv, Saved
    <2>2. ASSUME NEW p \in DOMAIN page_table PROVE SavedAt(p)'
      <3>1. SavedAt(p)
        BY <1>1, <1>13, SavedWas DEF Writing
      <3>2. CASE page_table[p] = g.frame
        BY <1>2, <1>4, <1>9, <2>1, <3>2 DEF SavedAt
      <3>3. CASE page_table[p] # g.frame
        BY <1>2, <1>9, <3>1, <3>3, FramesOfPages DEF SavedAt
      <3> QED
        BY <3>2, <3>3
    <2> QED
      BY <1>2, <1>6, <1>13, <2>2, SavedIf
  <1> QED
    BY <1>2, <1>6, <1>7, <1>8, <1>10, <1>11, <1>12, <1>13, PlainKeeps
    DEF Bringing, Holding, Evictings, Cleaned

(* Flush clears the mark: the write that follows is this call's. *)
LEMMA FlushKeeps ==
  ASSUME Inv, NEW t \in Thread, Company(t), Flush(t), serial' = serial
  PROVE  Inv'
  <1> DEFINE g == job[t].guard
  <1>1. Running /\ pc[t] = "flush" /\ Typed /\ ArcP!Inv /\ JobOk(t)
    BY DEF Flush, At, Inv
  <1>2. /\ UNCHANGED <<page_table, free_frames, undefined, latch, deleted, disk, guards>>
        /\ UNCHANGED <<failures, lost, unsaved>> /\ UNCHANGED replacer
        /\ frame' = [frame EXCEPT ![g.frame].dirty = FALSE]
        /\ Goto(t, "flush_write", job[t])
    BY DEF Flush, faults
  <1>3. GuardKnown(g)
    BY <1>1 DEF JobOk, Guarded
  <1>4. /\ g.frame \in Frame /\ g.page \in Page /\ g.frame \in DOMAIN alive
        /\ g.page \in DOMAIN page_table /\ page_table[g.page] = g.frame
    BY <1>1, <1>3, GuardLinked
  <1>5. ArcKept
    BY <1>1, <1>2, Rests
  <1>6. /\ pc' \in [Thread -> Labels] /\ DOMAIN job' = Thread
        /\ pc'[t] = "flush_write" /\ job'[t] = job[t] /\ Others(t)
    BY <1>1, <1>2, Going DEF Labels, Guarded
  <1>7. JobOk(t)'
    BY <1>3, <1>5, <1>6, GuardedOk DEF Guarded, Dropping
  <1>8. Plain(t)
    BY <1>1, <1>2, <1>5, <1>6, PlainIfFree DEF SameFrames, Holding, Evictings, Cleaned
  <1>9. /\ frame' \in [Frame -> FrameRecord] /\ ~frame'[g.frame].dirty
        /\ \A h \in Frame \ {g.frame} : frame'[h] = frame[h]
    BY <1>1, <1>2, <1>4, FrameUpdates
  <1>10. Typed'
    <2>1. /\ failures' \in 0..MaxFailures /\ unsaved' \subseteq Page /\ disk' \in [Page -> Data]
          /\ latch' \in Thread \cup {NoThread} /\ \A h \in guards' : GuardTyped(h)
      BY <1>1, <1>2 DEF Typed, TypeOK
    <2> QED
      BY <1>1, <1>2, <1>6, <1>9, <2>1, TypedKept DEF SameFrames
  <1>11. StillForgotten(t)
    BY <1>2, <1>4, <1>9, FramesOfPages DEF StillForgotten
  <1>12. GuardsKnown'
    BY <1>1, <1>2, <1>5, GuardsStay DEF GuardsGood, GuardsKnown
  <1>13. ASSUME serial PROVE Saved'
    <2>1. ASSUME NEW p \in DOMAIN page_table PROVE SavedAt(p)' \/ Writing(t, p)'
      <3>1. SavedAt(p)
        BY <1>1, <1>13, SavedWas DEF Writing
      <3>2. CASE page_table[p] = g.frame
        <4>1. p = g.page
          BY <1>4, <3>2, FramesOfPages
        <4> QED
          BY <1>6, <4>1 DEF Writing
      <3>3. CASE page_table[p] # g.frame
        BY <1>2, <1>9, <3>1, <3>3, FramesOfPages DEF SavedAt
      <3> QED
        BY <3>2, <3>3
    <2> QED
      BY <1>2, <1>6, <1>13, <2>1, SavedIf
  <1> QED
    BY <1>2, <1>6, <1>7, <1>8, <1>10, <1>11, <1>12, <1>13, PlainKeeps
    DEF Bringing, Holding, Evictings, Cleaned

(* Both ends of a guard's flush: the guard is dropped, or the call returns. *)
LEMMA FlushEnds ==
  ASSUME Inv, Running, NEW t \in Thread, ArcKept, pc[t] = "flush_write",
         IF job[t].op = "flush" THEN Goto(t, "drop", job[t]) ELSE Return(t)
  PROVE  /\ pc' \in [Thread -> Labels] /\ DOMAIN job' = Thread
         /\ pc'[t] \in {"drop", "idle"} /\ Others(t)
         /\ JobOk(t)'
         /\ GuardKnown(job[t].guard)
  <1>1. Typed /\ JobOk(t)
    BY DEF Inv
  <1>2. GuardKnown(job[t].guard)
    BY <1>1 DEF JobOk, Guarded
  <1>3. CASE job[t].op = "flush" /\ Goto(t, "drop", job[t])
    <2>1. /\ pc' \in [Thread -> Labels] /\ DOMAIN job' = Thread
          /\ pc'[t] = "drop" /\ job'[t] = job[t] /\ Others(t)
      BY <1>1, <1>3, Going DEF Labels, Guarded, Dropping
    <2> QED
      BY <1>2, <1>3, <2>1, GuardedOk DEF Guarded, Dropping
  <1>4. CASE Return(t)
    BY <1>1, <1>2, <1>4, Returning, IdleOk
  <1> QED
    BY <1>3, <1>4

(* Flush writes the frame's bytes to its page. *)
LEMMA FlushWriteKeeps ==
  ASSUME Inv, NEW t \in Thread, Company(t), FlushWrite(t), serial' = serial
  PROVE  Inv'
  <1> DEFINE g == job[t].guard
  <1>1. Running /\ pc[t] = "flush_write" /\ Typed /\ ArcP!Inv
    BY DEF FlushWrite, At, Inv
  <1>2. /\ UNCHANGED <<page_table, free_frames, undefined, latch, deleted, frame, guards>>
        /\ UNCHANGED <<failures, lost>> /\ UNCHANGED replacer
        /\ disk' = [disk EXCEPT ![g.page] = frame[g.frame].data]
        /\ unsaved' = unsaved \ {g.page}
    BY DEF FlushWrite, Settle
  <1>3. ArcKept
    BY <1>1, <1>2, Rests
  <1>4. /\ pc' \in [Thread -> Labels] /\ DOMAIN job' = Thread
        /\ pc'[t] \in {"drop", "idle"} /\ Others(t)
        /\ JobOk(t)'
        /\ GuardKnown(g)
    BY <1>1, <1>3, FlushEnds DEF FlushWrite
  <1>5. /\ g.frame \in Frame /\ g.page \in Page /\ g.frame \in DOMAIN alive
        /\ g.page \in DOMAIN page_table /\ page_table[g.page] = g.frame
    BY <1>1, <1>4, GuardLinked
  <1>6. Plain(t)
    BY <1>1, <1>2, <1>3, <1>4, PlainIfFree DEF SameFrames, Holding, Evictings, Cleaned
  <1>7. /\ disk' \in [Page -> Data] /\ disk'[g.page] = frame[g.frame].data
        /\ \A p \in Page \ {g.page} : disk'[p] = disk[p]
    <2>1. disk \in [Page -> Data] /\ frame[g.frame].data \in Data
      BY <1>1, <1>5 DEF Typed, TypeOK
    <2> QED
      BY <1>2, <1>5, <2>1
  <1>8. Typed'
    <2>1. /\ failures' \in 0..MaxFailures /\ unsaved' \subseteq Page
          /\ frame' \in [Frame -> FrameRecord]
          /\ latch' \in Thread \cup {NoThread} /\ \A h \in guards' : GuardTyped(h)
      BY <1>1, <1>2 DEF Typed, TypeOK, FrameRecord
    <2> QED
      BY <1>1, <1>2, <1>4, <1>7, <2>1, TypedKept DEF SameFrames
  <1>9. StillForgotten(t)
    BY <1>2, <1>5 DEF StillForgotten
  <1>10. GuardsKnown'
    BY <1>1, <1>2, <1>3, GuardsStay DEF GuardsGood, GuardsKnown
  <1>11. serial \/ unsaved' = unsaved
    BY <1>2, NothingUnsaved
  <1>12. ASSUME serial PROVE Saved'
    <2>1. ASSUME NEW p \in DOMAIN page_table PROVE SavedAt(p)'
      <3>1. SavedAt(p) \/ p = g.page
        BY <1>1, <1>12, SavedWas DEF Writing
      <3>2. CASE p = g.page
        BY <1>2, <1>5, <1>7, <3>2 DEF SavedAt
      <3>3. CASE p # g.page
        BY <1>2, <1>7, <3>1, <3>3, FramesOfPages DEF SavedAt
      <3> QED
        BY <3>2, <3>3
    <2> QED
      BY <1>2, <1>4, <1>12, <2>1, SavedIf
  <1> QED
    BY <1>2, <1>4, <1>6, <1>8, <1>9, <1>10, <1>11, <1>12, PlainKeeps
    DEF Bringing, Holding, Evictings, Cleaned

(* A failed write of Flush: the page is marked clean and is not saved. *)
LEMMA FlushWriteFailsKeeps ==
  ASSUME Inv, NEW t \in Thread, Company(t), serial, FlushWriteFails(t), serial' = serial
  PROVE  Inv'
  <1> DEFINE g == job[t].guard
  <1>1. Running /\ pc[t] = "flush_write" /\ Typed /\ ArcP!Inv
    BY DEF FlushWriteFails, At, Inv
  <1>2. /\ UNCHANGED <<page_table, free_frames, undefined, latch, deleted, frame, guards, disk>>
        /\ UNCHANGED lost /\ UNCHANGED replacer
        /\ failures < MaxFailures /\ failures' = failures + 1
        /\ unsaved' = unsaved \cup {g.page}
    BY DEF FlushWriteFails, RequestFails
  <1>3. ArcKept
    BY <1>1, <1>2, Rests
  <1>4. /\ pc' \in [Thread -> Labels] /\ DOMAIN job' = Thread
        /\ pc'[t] \in {"drop", "idle"} /\ Others(t)
        /\ JobOk(t)'
        /\ GuardKnown(g)
    BY <1>1, <1>3, FlushEnds DEF FlushWriteFails
  <1>5. /\ g.frame \in Frame /\ g.page \in Page /\ g.frame \in DOMAIN alive
        /\ g.page \in DOMAIN page_table /\ page_table[g.page] = g.frame
    BY <1>1, <1>4, GuardLinked
  <1>6. Plain(t)
    BY <1>1, <1>2, <1>3, <1>4, PlainIfFree DEF SameFrames, Holding, Evictings, Cleaned
  <1>7. Typed'
    <2>1. /\ failures \in 0..MaxFailures /\ MaxFailures \in Nat
          /\ unsaved' \subseteq Page /\ disk' \in [Page -> Data]
          /\ frame' \in [Frame -> FrameRecord]
          /\ latch' \in Thread \cup {NoThread} /\ \A h \in guards' : GuardTyped(h)
      BY <1>1, <1>2, <1>5, PoolAssumption DEF Typed, TypeOK, FrameRecord
    <2>2. failures' \in 0..MaxFailures
      BY <1>2, <2>1
    <2> QED
      BY <1>1, <1>2, <1>4, <2>1, <2>2, TypedKept DEF SameFrames
  <1>8. StillForgotten(t)
    BY <1>2 DEF StillForgotten
  <1>9. GuardsKnown'
    BY <1>1, <1>2, <1>3, GuardsStay DEF GuardsGood, GuardsKnown
  <1>10. Saved'
    <2>1. ASSUME NEW p \in DOMAIN page_table PROVE SavedAt(p)'
      <3>1. SavedAt(p) \/ p = g.page
        BY <1>1, SavedWas DEF Writing
      <3> QED
        BY <1>2, <3>1 DEF SavedAt
    <2> QED
      BY <1>2, <1>4, <2>1, SavedIf
  <1> QED
    BY <1>2, <1>4, <1>6, <1>7, <1>8, <1>9, <1>10, PlainKeeps
    DEF Bringing, Holding, Evictings, Cleaned

(* A resident page whose eviction is not under way is known to the         *)
(* replacer, unless a write of it has failed.                              *)
LEMMA KnownOrClean ==
  ASSUME Inv, Running, NEW t \in Thread, Company(t), pc[t] \notin Evictings \cup {"record_miss"},
         NEW p \in DOMAIN page_table
  PROVE  Knows(p, page_table[p]) \/ (p \in unsaved /\ ~frame[page_table[p]].dirty)
  <1>1. Tracked
    BY DEF Inv
  <1>2. ASSUME NEW u \in Thread PROVE pc[u] \notin Evictings \cup {"record_miss"}
    <2>1. CASE u = t
      BY <2>1
    <2>2. CASE u # t
      <3>1. serial => pc[u] = "idle"
        BY <2>2 DEF Company, Alone
      <3>2. ~serial => pc[u] \notin Bringing
        BY DEF Inv, Users
      <3> QED
        BY <3>1, <3>2 DEF Bringing, Holding, Evictings, Cleaned
    <2> QED
      BY <2>1, <2>2
  <1>3. CASE page_table[p] \in DOMAIN alive
    <2>1. Linked(alive[page_table[p]].page, page_table[p])
      BY <1>1, <1>3 DEF Tracked
    <2> QED
      BY <1>3, <2>1, FramesOfPages DEF Linked, Knows
  <1>4. CASE page_table[p] \notin DOMAIN alive
    BY <1>1, <1>2, <1>4 DEF Tracked
  <1> QED
    BY <1>3, <1>4

(* FlushAllPages marks the dirty frames clean and has them all to write. *)
LEMMA FlushAllKeeps ==
  ASSUME Inv, NEW t \in Thread, Company(t), FlushAll(t), serial' = serial
  PROVE  Inv'
  <1> DEFINE pages == {p \in DOMAIN page_table : frame[page_table[p]].dirty}
             frames == {page_table[p] : p \in pages}
             writes == {<<p, page_table[p]>> : p \in pages}
             k == [op |-> "flush_all", threw |-> FALSE, pinned |-> frames, writes |-> writes]
  <1>1. Running /\ pc[t] = "idle" /\ Typed /\ ArcP!Inv
    BY DEF FlushAll, At, Inv
  <1>2. /\ UNCHANGED <<page_table, free_frames, undefined, latch, deleted, disk, guards>>
        /\ UNCHANGED <<failures, lost, unsaved>>
        /\ frame' = [f \in Frame |-> IF f \in frames
                       THEN CleanAndPinned(f) ELSE frame[f]]
        /\ Arc!SetEvictables(frames, FALSE)
        /\ Goto(t, "flush_all", k)
    BY DEF FlushAll, faults
  <1>3. ArcKept
    BY <1>1, <1>2, Sets
  <1>4. frame \in [Frame -> FrameRecord]
    BY <1>1 DEF Typed, TypeOK, FrameRecord
  <1>5. /\ frame' \in [Frame -> FrameRecord]
        /\ \A f \in Frame : frame'[f].dirty => frame[f].dirty
        /\ \A f \in Frame \ frames : frame'[f] = frame[f]
    <2> HIDE DEF frames
    <2>1. \A f \in Frame : CleanAndPinned(f) \in FrameRecord /\ ~CleanAndPinned(f).dirty
      BY <1>4 DEF FrameRecord, CleanAndPinned
    <2> QED
      BY <1>2, <1>4, <2>1
  <1>6. \A p \in pages : Knows(p, page_table[p])
    BY <1>1, KnownOrClean DEF Evictings, Cleaned
  <1>7. k \in FlushJob /\ k.writes = writes /\ \A w \in writes : Knows(w[1], w[2])
    <2>1. frames \in SUBSET Frame /\ writes \in SUBSET (Page \X Frame)
      BY FramesOfPages
    <2>2. \A w \in writes : Knows(w[1], w[2])
      BY <1>6
    <2> HIDE DEF frames, writes
    <2> QED
      BY <2>1, <2>2 DEF FlushJob
  <1>8. \A p \in pages : \E w \in writes : w[1] = p
    <2> TAKE p \in pages
    <2>1. <<p, page_table[p]>> \in writes
      OBVIOUS
    <2> QED
      BY <2>1
  <1>9. \A p \in DOMAIN page_table \ pages : page_table[p] \in Frame \ frames
    BY FramesOfPages
  <1>10. \A p \in DOMAIN page_table : p \in pages <=> frame[page_table[p]].dirty
    OBVIOUS
  <1> HIDE DEF k, frames, writes, pages
  <1>11. /\ pc' \in [Thread -> Labels] /\ DOMAIN job' = Thread
         /\ pc'[t] = "flush_all" /\ job'[t] = k /\ Others(t)
    BY <1>1, <1>2, Going DEF Labels
  <1>12. JobOk(t)'
    BY <1>3, <1>7, <1>11, SameKnown
    DEF JobOk, Holding, Evictings, Cleaned, Fetching, Accessing, Guarded, Dropping
  <1>13. Plain(t)
    BY <1>1, <1>2, <1>3, <1>11, PlainIfFree DEF SameFrames, Holding, Evictings, Cleaned
  <1>14. Typed'
    <2>1. /\ failures' \in 0..MaxFailures /\ unsaved' \subseteq Page /\ disk' \in [Page -> Data]
          /\ latch' \in Thread \cup {NoThread} /\ \A h \in guards' : GuardTyped(h)
      BY <1>1, <1>2 DEF Typed, TypeOK
    <2> QED
      BY <1>1, <1>2, <1>5, <1>11, <2>1, TypedKept DEF SameFrames
  <1>15. StillForgotten(t)
    BY <1>2, <1>5, FramesOfPages DEF StillForgotten
  <1>16. GuardsKnown'
    BY <1>1, <1>2, <1>3, GuardsStay DEF GuardsGood, GuardsKnown
  <1>17. ASSUME serial PROVE Saved'
    <2>1. ASSUME NEW p \in DOMAIN page_table PROVE SavedAt(p)' \/ Writing(t, p)'
      <3>1. SavedAt(p)
        BY <1>1, <1>17, SavedWas DEF Writing
      <3>2. CASE p \in pages
        BY <1>7, <1>8, <1>11, <3>2 DEF Writing
      <3>3. CASE p \notin pages
        BY <1>2, <1>5, <1>9, <1>10, <3>1, <3>3 DEF SavedAt
      <3> QED
        BY <3>2, <3>3
    <2> QED
      BY <1>2, <1>11, <1>17, <2>1, SavedIf
  <1> QED
    BY <1>2, <1>11, <1>12, <1>13, <1>14, <1>15, <1>16, <1>17, PlainKeeps
    DEF Bringing, Holding, Evictings, Cleaned

(* The rest of a batch is a batch. *)
LEMMA LeftOfBatch ==
  ASSUME NEW j \in FlushJob, NEW w, NEW threw \in BOOLEAN
  PROVE  /\ Left(j, w, threw) \in FlushJob /\ Left(j, w, threw).writes = j.writes \ {w}
         /\ j.threw \in BOOLEAN
  BY DEF FlushJob, Left

(* A write of the batch saves its page. *)
LEMMA FlushAllWriteKeeps ==
  ASSUME Inv, NEW t \in Thread, Company(t), FlushAllWrite(t), serial' = serial
  PROVE  Inv'
  <1>1. Running /\ pc[t] = "flush_all" /\ Typed /\ ArcP!Inv /\ JobOk(t)
    BY DEF FlushAllWrite, At, Inv
  <1>2. job[t] \in FlushJob /\ \A v \in job[t].writes : Knows(v[1], v[2])
    BY <1>1 DEF JobOk
  <1>3. PICK w \in job[t].writes :
          /\ disk' = [disk EXCEPT ![w[1]] = frame[w[2]].data]
          /\ unsaved' = unsaved \ {w[1]}
          /\ Goto(t, "flush_all", Left(job[t], w, job[t].threw))
          /\ UNCHANGED <<failures, lost>>
    BY DEF FlushAllWrite, Settle
  <1>4. UNCHANGED <<page_table, free_frames, undefined, latch, deleted, frame, guards>> /\ UNCHANGED replacer
    BY DEF FlushAllWrite
  <1>5. ArcKept
    BY <1>1, <1>4, Rests
  <1>6. /\ w[1] \in DOMAIN page_table /\ page_table[w[1]] = w[2]
        /\ w[1] \in Page /\ w[2] \in Frame /\ w[2] \in DOMAIN alive
    BY <1>1, <1>2, FramesOfPages DEF Inv, Tracked, Knows, Linked
  <1>7. PICK k \in FlushJob : Goto(t, "flush_all", k) /\ k.writes = job[t].writes \ {w}
    BY <1>2, <1>3, LeftOfBatch
  <1>8. /\ pc' \in [Thread -> Labels] /\ DOMAIN job' = Thread
        /\ pc'[t] = "flush_all" /\ job'[t] = k /\ Others(t)
    BY <1>1, <1>7, Going DEF Labels
  <1>9. JobOk(t)'
    BY <1>2, <1>5, <1>7, <1>8, SameKnown
    DEF JobOk, Holding, Evictings, Cleaned, Fetching, Accessing, Guarded, Dropping
  <1>10. Plain(t)
    BY <1>1, <1>3, <1>4, <1>5, <1>8, PlainIfFree DEF SameFrames, Holding, Evictings, Cleaned
  <1>11. /\ disk' \in [Page -> Data] /\ disk'[w[1]] = frame[w[2]].data
         /\ \A p \in Page \ {w[1]} : disk'[p] = disk[p]
    <2>1. disk \in [Page -> Data] /\ frame[w[2]].data \in Data
      BY <1>1, <1>6 DEF Typed, TypeOK
    <2> QED
      BY <1>3, <1>6, <2>1
  <1>12. Typed'
    <2>1. /\ failures' \in 0..MaxFailures /\ unsaved' \subseteq Page
          /\ frame' \in [Frame -> FrameRecord]
          /\ latch' \in Thread \cup {NoThread} /\ \A h \in guards' : GuardTyped(h)
      BY <1>1, <1>3, <1>4 DEF Typed, TypeOK, FrameRecord
    <2> QED
      BY <1>1, <1>3, <1>4, <1>8, <1>11, <2>1, TypedKept DEF SameFrames
  <1>13. StillForgotten(t)
    BY <1>3, <1>4, <1>6 DEF StillForgotten
  <1>14. GuardsKnown'
    BY <1>1, <1>4, <1>5, GuardsStay DEF GuardsGood, GuardsKnown
  <1>15. serial \/ unsaved' = unsaved
    BY <1>3, NothingUnsaved
  <1>16. ASSUME serial PROVE Saved'
    <2>1. ASSUME NEW p \in DOMAIN page_table PROVE SavedAt(p)' \/ Writing(t, p)'
      <3>1. CASE p = w[1]
        BY <1>4, <1>6, <1>11, <3>1 DEF SavedAt
      <3>2. CASE p # w[1] /\ SavedAt(p)
        BY <1>3, <1>4, <1>11, <3>2, FramesOfPages DEF SavedAt
      <3>3. CASE p # w[1] /\ Writing(t, p)
        <4>1. PICK v \in job[t].writes : v[1] = p
          BY <1>1, <3>3 DEF Writing
        <4>2. v \in k.writes
          BY <1>7, <3>3, <4>1
        <4> QED
          BY <1>8, <4>1, <4>2 DEF Writing
      <3> QED
        BY <1>1, <1>16, <3>1, <3>2, <3>3, SavedWas
    <2> QED
      BY <1>4, <1>8, <1>16, <2>1, SavedIf
  <1> QED
    BY <1>4, <1>8, <1>9, <1>10, <1>12, <1>13, <1>14, <1>15, <1>16, PlainKeeps
    DEF Bringing, Holding, Evictings, Cleaned

(* A failed write of the batch: its page is not saved. *)
LEMMA FlushAllWriteFailsKeeps ==
  ASSUME Inv, NEW t \in Thread, Company(t), serial, FlushAllWriteFails(t), serial' = serial
  PROVE  Inv'
  <1>1. Running /\ pc[t] = "flush_all" /\ Typed /\ ArcP!Inv /\ JobOk(t)
    BY DEF FlushAllWriteFails, At, Inv
  <1>2. job[t] \in FlushJob /\ \A v \in job[t].writes : Knows(v[1], v[2])
    BY <1>1 DEF JobOk
  <1>3. PICK w \in job[t].writes :
          /\ failures < MaxFailures /\ failures' = failures + 1
          /\ unsaved' = unsaved \cup {w[1]}
          /\ Goto(t, "flush_all", Left(job[t], w, TRUE))
    BY DEF FlushAllWriteFails, RequestFails
  <1>4. /\ UNCHANGED <<page_table, free_frames, undefined, latch, deleted, disk, frame, guards, lost>>
        /\ UNCHANGED replacer
    BY DEF FlushAllWriteFails
  <1>5. ArcKept
    BY <1>1, <1>4, Rests
  <1>6. w[1] \in Page
    BY <1>2 DEF FlushJob
  <1>7. PICK k \in FlushJob : Goto(t, "flush_all", k) /\ k.writes = job[t].writes \ {w}
    BY <1>2, <1>3, LeftOfBatch
  <1>8. /\ pc' \in [Thread -> Labels] /\ DOMAIN job' = Thread
        /\ pc'[t] = "flush_all" /\ job'[t] = k /\ Others(t)
    BY <1>1, <1>7, Going DEF Labels
  <1>9. JobOk(t)'
    BY <1>2, <1>5, <1>7, <1>8, SameKnown
    DEF JobOk, Holding, Evictings, Cleaned, Fetching, Accessing, Guarded, Dropping
  <1>10. Plain(t)
    BY <1>1, <1>4, <1>5, <1>8, PlainIfFree DEF SameFrames, Holding, Evictings, Cleaned
  <1>11. Typed'
    <2>1. /\ failures \in 0..MaxFailures /\ MaxFailures \in Nat
          /\ unsaved' \subseteq Page /\ disk' \in [Page -> Data]
          /\ frame' \in [Frame -> FrameRecord]
          /\ latch' \in Thread \cup {NoThread} /\ \A h \in guards' : GuardTyped(h)
      BY <1>1, <1>3, <1>4, <1>6, PoolAssumption DEF Typed, TypeOK, FrameRecord
    <2>2. failures' \in 0..MaxFailures
      BY <1>3, <2>1
    <2> QED
      BY <1>1, <1>4, <1>8, <2>1, <2>2, TypedKept DEF SameFrames
  <1>12. StillForgotten(t)
    BY <1>3, <1>4 DEF StillForgotten
  <1>13. GuardsKnown'
    BY <1>1, <1>4, <1>5, GuardsStay DEF GuardsGood, GuardsKnown
  <1>14. Saved'
    <2>1. ASSUME NEW p \in DOMAIN page_table PROVE SavedAt(p)' \/ Writing(t, p)'
      <3>1. CASE p = w[1] \/ SavedAt(p)
        BY <1>3, <1>4, <3>1 DEF SavedAt
      <3>2. CASE p # w[1] /\ Writing(t, p)
        <4>1. PICK v \in job[t].writes : v[1] = p
          BY <1>1, <3>2 DEF Writing
        <4>2. v \in k.writes
          BY <1>7, <3>2, <4>1
        <4> QED
          BY <1>8, <4>1, <4>2 DEF Writing
      <3> QED
        BY <1>1, <3>1, <3>2, SavedWas
    <2> QED
      BY <1>4, <1>8, <2>1, SavedIf
  <1> QED
    BY <1>4, <1>8, <1>9, <1>10, <1>11, <1>12, <1>13, <1>14, PlainKeeps
    DEF Bringing, Holding, Evictings, Cleaned

-----------------------------------------------------------------------------
(* A call that evicts is its user's only one, and there are no guards; the *)
(* victim's page is still in the frame, which the replacer has let go.     *)
LEMMA EvictingHas ==
  ASSUME Inv, Running, NEW t \in Thread, pc[t] \in Evictings
  PROVE  /\ serial /\ guards = {}
         /\ job[t].stale \in DOMAIN page_table /\ page_table[job[t].stale] = job[t].frame
         /\ job[t].stale \in Page /\ job[t].frame \in Frame /\ job[t].frame \notin DOMAIN alive
         /\ job[t].page \in Page /\ job[t].mode \in Mode /\ job[t].page \notin DOMAIN page_table
         /\ pc[t] \in Cleaned => ~frame[job[t].frame].dirty
  <1>1. pc[t] \in Bringing /\ pc[t] \in Holding
    BY DEF Bringing, Holding
  <1>2. serial /\ guards = {}
    BY <1>1 DEF Inv, Users
  <1>3. HolderOk(t)
    BY <1>1 DEF Inv, Accounts
  <1>4. /\ job[t].stale \in DOMAIN page_table /\ page_table[job[t].stale] = job[t].frame
        /\ job[t].frame \in Frame
    BY <1>3 DEF HolderOk, Linked
  <1>5. /\ job[t].frame \notin DOMAIN alive
        /\ job[t].page \in Page /\ job[t].mode \in Mode /\ job[t].page \notin DOMAIN page_table
        /\ pc[t] \in Cleaned => ~frame[job[t].frame].dirty
    BY <1>1 DEF Inv, JobOk
  <1> QED
    BY <1>2, <1>4, <1>5, FramesOfPages

(* A call that evicts goes on to evict the same page. *)
LEMMA EvictingOn ==
  ASSUME Inv, Running, NEW t \in Thread, pc[t] \in Evictings, NEW l \in Evictings,
         Goto(t, l, job[t]), ArcKept, page_table' = page_table,
         l \in Cleaned => ~frame'[job[t].frame].dirty
  PROVE  /\ pc' \in [Thread -> Labels] /\ DOMAIN job' = Thread
         /\ pc'[t] = l /\ job'[t] = job[t] /\ Others(t)
         /\ HoldsOn(t) /\ JobOk(t)'
  <1>1. l \in Labels /\ l \in Holding /\ pc[t] \in Holding
    BY DEF Labels, Bringing, Holding
  <1>2. /\ pc' \in [Thread -> Labels] /\ DOMAIN job' = Thread
        /\ pc'[t] = l /\ job'[t] = job[t] /\ Others(t)
    BY <1>1, Going DEF Inv
  <1>3. HoldsOn(t)
    BY <1>1, <1>2 DEF HoldsOn
  <1>4. /\ job[t].frame \in Frame /\ job[t].frame \notin DOMAIN alive'
        /\ job[t].page \in Page /\ job[t].mode \in Mode /\ job[t].page \notin DOMAIN page_table'
    BY EvictingHas DEF ArcKept, SamePages
  <1>5. l \in {"evict_flush", "evict_write", "evict_unpin", "evict_erase"}
    BY DEF Evictings, Cleaned
  <1>6. JobOk(t)'
    BY <1>2, <1>4, <1>5 DEF JobOk, Holding, Evictings, Cleaned, Fetching, Accessing, Guarded, Dropping
  <1> QED
    BY <1>2, <1>3, <1>6

(* The flush of a victim clears its mark and pins it. *)
LEMMA EvictFlushKeeps ==
  ASSUME Inv, NEW t \in Thread, Company(t), EvictFlush(t), serial' = serial
  PROVE  Inv'
  <1> DEFINE f == job[t].frame
             stale == job[t].stale
  <1>1. Running /\ pc[t] = "evict_flush" /\ Typed /\ ArcP!Inv
    BY DEF EvictFlush, At, Inv
  <1>2. pc[t] \in Evictings /\ "evict_write" \in Evictings
    BY <1>1 DEF Evictings, Cleaned
  <1>3. /\ serial /\ guards = {} /\ stale \in DOMAIN page_table /\ page_table[stale] = f
        /\ stale \in Page /\ f \in Frame
    BY <1>1, <1>2, EvictingHas
  <1>4. /\ UNCHANGED <<page_table, free_frames, undefined, latch, deleted, disk, guards>>
        /\ UNCHANGED <<failures, lost, unsaved>>
        /\ frame' = [frame EXCEPT ![f] = CleanAndPinned(f)]
        /\ Arc!SetEvictable(f, FALSE)
        /\ Goto(t, "evict_write", job[t])
    BY <1>3 DEF EvictFlush, faults
  <1>5. ArcKept
    BY <1>1, <1>4, SetsOne
  <1>6. /\ frame' \in [Frame -> FrameRecord] /\ ~frame'[f].dirty
        /\ \A h \in Frame \ {f} : frame'[h] = frame[h]
    <2>1. frame \in [Frame -> FrameRecord]
      BY <1>1 DEF Typed, TypeOK, FrameRecord
    <2>2. CleanAndPinned(f) \in FrameRecord /\ ~CleanAndPinned(f).dirty
      BY <1>3, <2>1 DEF FrameRecord, CleanAndPinned
    <2> QED
      BY <1>3, <1>4, <2>1, <2>2
  <1>7. /\ pc' \in [Thread -> Labels] /\ DOMAIN job' = Thread
        /\ pc'[t] = "evict_write" /\ job'[t] = job[t] /\ Others(t)
        /\ HoldsOn(t) /\ JobOk(t)'
    BY <1>1, <1>2, <1>4, <1>5, <1>6, EvictingOn
  <1>8. Plain(t)
    BY <1>1, <1>4, <1>5, <1>7 DEF Plain, SameFrames
  <1>9. Typed'
    <2>1. /\ failures' \in 0..MaxFailures /\ unsaved' \subseteq Page /\ disk' \in [Page -> Data]
          /\ latch' \in Thread \cup {NoThread} /\ \A h \in guards' : GuardTyped(h)
      BY <1>1, <1>4 DEF Typed, TypeOK
    <2> QED
      BY <1>1, <1>4, <1>6, <1>7, <2>1, TypedKept DEF SameFrames
  <1>10. StillForgotten(t)
    BY <1>2, <1>4, <1>6, <1>7, FramesOfPages DEF StillForgotten
  <1>11. Saved'
    <2>1. ASSUME NEW p \in DOMAIN page_table PROVE SavedAt(p)' \/ Writing(t, p)'
      <3>1. SavedAt(p)
        BY <1>1, <1>3, SavedWas DEF Writing
      <3>2. CASE p = stale
        BY <1>7, <3>2 DEF Writing
      <3>3. CASE p # stale
        BY <1>3, <1>4, <1>6, <3>1, <3>3, FramesOfPages DEF SavedAt
      <3> QED
        BY <3>2, <3>3
    <2> QED
      BY <1>3, <1>4, <1>7, <2>1, SavedIf
  <1> QED
    BY <1>3, <1>4, <1>7, <1>8, <1>9, <1>10, <1>11, PlainKeeps DEF GuardsKnown

(* The victim's page is saved. *)
LEMMA EvictWriteKeeps ==
  ASSUME Inv, NEW t \in Thread, Company(t), EvictWrite(t), serial' = serial
  PROVE  Inv'
  <1> DEFINE f == job[t].frame
             stale == job[t].stale
  <1>1. Running /\ pc[t] = "evict_write" /\ Typed /\ ArcP!Inv
    BY DEF EvictWrite, At, Inv
  <1>2. pc[t] \in Evictings /\ "evict_unpin" \in Evictings
    BY <1>1 DEF Evictings, Cleaned
  <1>3. /\ serial /\ guards = {} /\ stale \in DOMAIN page_table /\ page_table[stale] = f
        /\ stale \in Page /\ f \in Frame /\ ~frame[f].dirty
    BY <1>1, <1>2, EvictingHas DEF Cleaned
  <1>4. /\ UNCHANGED <<page_table, free_frames, undefined, latch, deleted, frame, guards>>
        /\ UNCHANGED <<failures, lost>> /\ UNCHANGED replacer
        /\ disk' = [disk EXCEPT ![stale] = frame[f].data]
        /\ unsaved' = unsaved \ {stale}
        /\ Goto(t, "evict_unpin", job[t])
    BY <1>3 DEF EvictWrite, Settle
  <1>5. ArcKept
    BY <1>1, <1>4, Rests
  <1>6. /\ disk' \in [Page -> Data] /\ disk'[stale] = frame[f].data
        /\ \A p \in Page \ {stale} : disk'[p] = disk[p]
    <2>1. disk \in [Page -> Data] /\ frame[f].data \in Data
      BY <1>1, <1>3 DEF Typed, TypeOK
    <2> QED
      BY <1>3, <1>4, <2>1
  <1>7. /\ pc' \in [Thread -> Labels] /\ DOMAIN job' = Thread
        /\ pc'[t] = "evict_unpin" /\ job'[t] = job[t] /\ Others(t)
        /\ HoldsOn(t) /\ JobOk(t)'
    BY <1>1, <1>2, <1>3, <1>4, <1>5, EvictingOn
  <1>8. Plain(t)
    BY <1>1, <1>4, <1>5, <1>7 DEF Plain, SameFrames
  <1>9. Typed'
    <2>1. /\ failures' \in 0..MaxFailures /\ unsaved' \subseteq Page
          /\ frame' \in [Frame -> FrameRecord]
          /\ latch' \in Thread \cup {NoThread} /\ \A h \in guards' : GuardTyped(h)
      BY <1>1, <1>4 DEF Typed, TypeOK, FrameRecord
    <2> QED
      BY <1>1, <1>4, <1>6, <1>7, <2>1, TypedKept DEF SameFrames
  <1>10. StillForgotten(t)
    BY <1>2, <1>3, <1>4, <1>7 DEF StillForgotten
  <1>11. Saved'
    <2>1. ASSUME NEW p \in DOMAIN page_table PROVE SavedAt(p)'
      <3>1. SavedAt(p) \/ p = stale
        BY <1>1, <1>3, SavedWas DEF Writing
      <3>2. CASE p = stale
        BY <1>3, <1>4, <1>6, <3>2 DEF SavedAt
      <3>3. CASE p # stale
        BY <1>4, <1>6, <3>1, <3>3, FramesOfPages DEF SavedAt
      <3> QED
        BY <3>2, <3>3
    <2> QED
      BY <1>3, <1>4, <1>7, <2>1, SavedIf
  <1> QED
    BY <1>3, <1>4, <1>7, <1>8, <1>9, <1>10, <1>11, PlainKeeps DEF GuardsKnown

(* The victim is unpinned, and SetEvictable does nothing for a frame that  *)
(* the replacer has let go.                                                *)
LEMMA EvictUnpinKeeps ==
  ASSUME Inv, NEW t \in Thread, Company(t), EvictUnpin(t), serial' = serial
  PROVE  Inv'
  <1> DEFINE f == job[t].frame
             stale == job[t].stale
  <1>1. Running /\ pc[t] = "evict_unpin" /\ Typed /\ ArcP!Inv
    BY DEF EvictUnpin, At, Inv
  <1>2. pc[t] \in Evictings /\ "evict_erase" \in Evictings
    BY <1>1 DEF Evictings, Cleaned
  <1>3. serial /\ guards = {} /\ page_table[stale] = f /\ f \in Frame /\ ~frame[f].dirty
    BY <1>1, <1>2, EvictingHas DEF Cleaned
  <1>4. /\ UNCHANGED <<page_table, free_frames, undefined, latch, deleted, disk, guards>>
        /\ UNCHANGED <<failures, lost, unsaved>>
        /\ frame' = [frame EXCEPT ![f].pin = frame[f].pin - 1]
        /\ Arc!SetEvictable(f, TRUE) \/ UNCHANGED replacer
        /\ Goto(t, "evict_erase", job[t])
    BY <1>3 DEF EvictUnpin, faults
  <1>5. ArcKept
    BY <1>1, <1>4, SetsOne, Rests
  <1>6. SameBytes
    <2>1. frame[f].pin - 1 \in Int
      BY <1>1, <1>3 DEF Typed, TypeOK
    <2> QED
      BY <1>1, <1>3, <1>4, <2>1, SamePin
  <1>7. /\ pc' \in [Thread -> Labels] /\ DOMAIN job' = Thread
        /\ pc'[t] = "evict_erase" /\ job'[t] = job[t] /\ Others(t)
        /\ HoldsOn(t) /\ JobOk(t)'
    BY <1>1, <1>2, <1>3, <1>4, <1>5, <1>6, EvictingOn DEF SameBytes
  <1>8. Plain(t)
    BY <1>1, <1>4, <1>5, <1>7 DEF Plain, SameFrames
  <1>9. \A q : ~Writing(t, q)
    BY <1>1 DEF Writing
  <1> QED
    BY <1>3, <1>4, <1>6, <1>7, <1>8, <1>9, QuietKeeps DEF GuardsGood

(* The read brings the page's bytes into the frame. *)
LEMMA LoadKeeps ==
  ASSUME Inv, NEW t \in Thread, Company(t), Load(t), serial' = serial
  PROVE  Inv'
  <1> DEFINE f == job[t].frame
             p == job[t].page
  <1>1. Running /\ pc[t] = "load" /\ Typed /\ ArcP!Inv /\ JobOk(t)
    BY DEF Load, At, Inv
  <1>2. pc[t] \in Holding /\ pc[t] \in Bringing /\ pc[t] \notin Evictings
    BY <1>1 DEF Holding, Bringing, Evictings, Cleaned
  <1>3. /\ serial /\ guards = {}
        /\ f \in Frame /\ \A q \in DOMAIN page_table : page_table[q] # f
    BY <1>2 DEF Inv, Users, Accounts, HolderOk
  <1>4. p \in Page /\ job[t].mode \in Mode /\ p \notin DOMAIN page_table
    BY <1>1, <1>2 DEF JobOk
  <1>5. /\ UNCHANGED <<page_table, free_frames, undefined, latch, deleted, disk, guards>>
        /\ UNCHANGED <<failures, lost, unsaved>> /\ UNCHANGED replacer
        /\ frame' = [frame EXCEPT ![f].data = disk[p]]
        /\ Goto(t, "link", job[t])
    BY DEF Load, faults
  <1>6. ArcKept
    BY <1>1, <1>5, Rests
  <1>7. /\ frame' \in [Frame -> FrameRecord] /\ frame'[f].data = disk[p]
        /\ \A h \in Frame : frame'[h].dirty = frame[h].dirty
        /\ \A h \in Frame \ {f} : frame'[h] = frame[h]
    <2>1. disk[p] \in Data
      BY <1>1, <1>4 DEF Typed, TypeOK
    <2> QED
      BY <1>1, <1>3, <1>5, <2>1, FrameUpdates
  <1>8. /\ pc' \in [Thread -> Labels] /\ DOMAIN job' = Thread
        /\ pc'[t] = "link" /\ job'[t] = job[t] /\ Others(t)
    BY <1>1, <1>5, Going DEF Labels, Bringing, Holding
  <1>9. JobOk(t)'
    BY <1>3, <1>4, <1>5, <1>8 DEF JobOk, Holding, Evictings, Cleaned, Fetching, Accessing, Guarded, Dropping
  <1>10. Plain(t)
    BY <1>1, <1>5, <1>6, <1>8 DEF Plain, SameFrames, HoldsOn, Holding, Evictings, Cleaned
  <1>11. Typed'
    <2>1. /\ failures' \in 0..MaxFailures /\ unsaved' \subseteq Page /\ disk' \in [Page -> Data]
          /\ latch' \in Thread \cup {NoThread} /\ \A h \in guards' : GuardTyped(h)
      BY <1>1, <1>5 DEF Typed, TypeOK
    <2> QED
      BY <1>1, <1>5, <1>7, <1>8, <2>1, TypedKept DEF SameFrames
  <1>12. StillForgotten(t)
    BY <1>5, <1>7, FramesOfPages DEF StillForgotten
  <1>13. Saved'
    <2>1. ASSUME NEW q \in DOMAIN page_table PROVE SavedAt(q)'
      <3>1. SavedAt(q)
        BY <1>1, <1>3, SavedWas DEF Writing
      <3> QED
        BY <1>3, <1>5, <1>7, <3>1, FramesOfPages DEF SavedAt
    <2> QED
      BY <1>3, <1>5, <1>7, <1>8, <2>1, SavedIf
  <1> QED
    BY <1>3, <1>5, <1>8, <1>9, <1>10, <1>11, <1>12, <1>13, PlainKeeps DEF GuardsKnown

-----------------------------------------------------------------------------
(* The steps that hand a frame on: what the invariant says of a serial     *)
(* user's only call, before and after.                                     *)
Owned(t, f) ==
  \/ f \in Free \/ f \in lost
  \/ \E p \in DOMAIN page_table : page_table[p] = f
  \/ pc[t] \in Holding /\ job[t].frame = f

Forgotten(t, p) ==
  \/ p \in unsaved /\ ~frame[page_table[p]].dirty
  \/ pc[t] \in Evictings \cup {"record_miss"} /\ job[t].frame = page_table[p]

(* Each frame is free, lost, resident, or in the hands of the only call. *)
LEMMA OwnedWas ==
  ASSUME Inv, serial, NEW t \in Thread, Company(t), NEW f \in Frame
  PROVE  Owned(t, f)
  <1>1. \A u \in Thread \ {t} : pc[u] = "idle" /\ "idle" \notin Holding
    BY DEF Company, Alone, Holding, Evictings, Cleaned
  <1> QED
    BY <1>1 DEF Inv, Accounts, Owned

(* The accounts after a step of a serial user: only its own call can hold  *)
(* a frame.                                                                *)
LEMMA AccountsIf ==
  ASSUME serial, NEW t \in Thread, Company(t), Others(t),
         \A p, q \in DOMAIN page_table' : page_table'[p] = page_table'[q] => p = q,
         \A p \in DOMAIN page_table' : page_table'[p] \notin Free' /\ page_table'[p] \notin lost',
         Free' \cap lost' = {},
         pc'[t] \in Holding => HolderOk(t)',
         \A f \in Frame : Owned(t, f)'
  PROVE  Accounts'
  <1>1. \A u \in Thread \ {t} : pc'[u] = "idle" /\ "idle" \notin Holding
    BY DEF Company, Alone, Others, Holding, Evictings, Cleaned
  <1> QED
    BY <1>1 DEF Accounts, Owned

(* A resident page is known to the replacer, or there is a reason that it  *)
(* is not: the only call brings it in or evicts it, or a write of it has   *)
(* failed.                                                                 *)
LEMMA ForgottenWas ==
  ASSUME Inv, Running, serial, NEW t \in Thread, Company(t), NEW p \in DOMAIN page_table
  PROVE  page_table[p] \in DOMAIN alive \/ Forgotten(t, p)
  <1>1. \A u \in Thread \ {t} : pc[u] = "idle" /\ "idle" \notin Evictings \cup {"record_miss"}
    BY DEF Company, Alone, Evictings, Cleaned
  <1> QED
    BY <1>1 DEF Inv, Tracked, Forgotten

(* The same after a step of a serial user. *)
LEMMA TrackedIf ==
  ASSUME NEW t \in Thread,
         \A f \in DOMAIN alive' : Linked(alive[f].page, f)',
         \A p \in DOMAIN page_table' : page_table'[p] \in DOMAIN alive' \/ Forgotten(t, p)',
         GuardsKnown'
  PROVE  Tracked'
  BY DEF Tracked, Forgotten, GuardsKnown

(* What the replacer knows is in the page table, and under one page. *)
LEMMA AliveLinked ==
  ASSUME Inv, Running, NEW f \in DOMAIN alive
  PROVE  alive[f].page \in DOMAIN page_table /\ page_table[alive[f].page] = f
  BY DEF Inv, Tracked, Linked

(* The invariant after a step of a serial user that moves frames. *)
LEMMA SerialKeeps ==
  ASSUME Inv, Running, NEW t \in Thread, Company(t), Others(t), serial, serial' = serial,
         pc'[t] \in Bringing => guards' = {},
         Typed', ArcP!Inv', Accounts', undefined' => lost' # {},
         Running' => Tracked' /\ JobOk(t)' /\ Saved'
  PROVE  Inv'
  <1>1. Users'
    BY UsersKept
  <1>2. \A u \in Thread \ {t} : JobOk(u)'
    BY OthersOk
  <1> QED
    BY <1>1, <1>2 DEF Inv

(* RecordAccess: the replacer knows the page from here on, if it did not;  *)
(* the two are never told different pages for one frame, so nothing is     *)
(* undefined in the replacer.                                              *)
LEMMA RecordAccessKeeps ==
  ASSUME Inv, NEW t \in Thread, Company(t), RecordAccess(t), serial' = serial
  PROVE  Inv'
  <1> DEFINE f == job[t].frame
             p == job[t].page
  <1>1. /\ Running /\ pc[t] \in {"record_hit", "record_miss"}
        /\ Typed /\ ArcP!Inv /\ JobOk(t) /\ Tracked
    BY DEF RecordAccess, Inv
  <1>2. /\ p \in Page /\ f \in Frame /\ job[t].mode \in Mode
        /\ p \in DOMAIN page_table /\ page_table[p] = f
    BY <1>1 DEF JobOk, Fetching, Linked
  <1>3. /\ UNCHANGED <<page_table, free_frames, undefined, latch, deleted, disk, frame, guards>>
        /\ UNCHANGED <<failures, lost, unsaved>>
        /\ Arc!RecordAccess(f, p)
    BY DEF RecordAccess, pool, faults
  <1>4. PICK l \in {"pin", "unevict"} : Goto(t, l, job[t])
    BY DEF RecordAccess
  <1>5. /\ f \in DOMAIN alive => alive[f].page = p
        /\ \A g \in DOMAIN alive : alive[g].page = p => g = f
    BY <1>1, <1>2, AliveLinked, FramesOfPages
  <1>6. ArcP!Inv' /\ (fatal' \/ (fatal' = fatal /\ Learns(f, p)))
    BY <1>1, <1>2, <1>3, <1>5, Accesses
  <1>7. /\ pc' \in [Thread -> Labels] /\ DOMAIN job' = Thread
        /\ pc'[t] = l /\ job'[t] = job[t] /\ Others(t)
        /\ l \in Accessing /\ l \notin Bringing /\ l \notin Holding
    BY <1>1, <1>4, Going DEF Labels, Fetching, Accessing, Bringing, Holding, Evictings, Cleaned
  <1>8. pc[t] \notin Holding /\ pc[t] \notin Evictings /\ l \notin Evictings
    BY <1>1 DEF Holding, Evictings, Cleaned
  <1>9. Typed'
    <2>1. /\ failures' \in 0..MaxFailures /\ unsaved' \subseteq Page /\ disk' \in [Page -> Data]
          /\ frame' \in [Frame -> FrameRecord]
          /\ latch' \in Thread \cup {NoThread} /\ \A h \in guards' : GuardTyped(h)
      BY <1>1, <1>3 DEF Typed, TypeOK, FrameRecord
    <2> QED
      BY <1>1, <1>3, <1>7, <2>1, TypedKept DEF SameFrames
  <1>10. Users'
    BY <1>3, <1>7, UsersKept
  <1>11. Accounts'
    BY <1>3, <1>7, <1>8, AccountsKept DEF HoldsOn, SameFrames
  <1>12. ASSUME Learns(f, p) PROVE Tracked' /\ \A u \in Thread : JobOk(u)'
    <2>1. \A q, g : Knows(q, g) => Knows(q, g)'
      BY <1>5, <1>12 DEF Knows, Learns
    <2>2. \A q, g : Linked(q, g) => Linked(q, g)'
      BY <1>3 DEF Linked
    <2>3. ASSUME NEW g \in DOMAIN alive' PROVE Linked(alive[g].page, g)'
      <3>1. CASE g = f
        <4>1. alive'[g].page = p
          BY <1>12, <3>1 DEF Learns
        <4> QED
          BY <1>2, <1>3, <3>1, <4>1 DEF Linked
      <3>2. CASE g # f
        <4>1. g \in DOMAIN alive /\ alive'[g] = alive[g]
          BY <1>12, <3>2 DEF Learns
        <4>2. alive[g].page \in DOMAIN page_table /\ page_table[alive[g].page] = g
          BY <1>1, <4>1, AliveLinked
        <4> QED
          BY <1>3, <4>1, <4>2 DEF Linked
      <3> QED
        BY <3>1, <3>2
    <2>4. ASSUME NEW q \in DOMAIN page_table'
          PROVE  \/ page_table'[q] \in DOMAIN alive'
                 \/ q \in unsaved' /\ ~frame'[page_table'[q]].dirty
                 \/ \E u \in Thread : /\ pc'[u] \in Evictings \cup {"record_miss"}
                                      /\ job'[u].frame = page_table'[q]
      <3>1. DOMAIN alive' = DOMAIN alive \cup {f}
        BY <1>12 DEF Learns
      <3>2. \/ page_table[q] \in DOMAIN alive
            \/ q \in unsaved /\ ~frame[page_table[q]].dirty
            \/ \E u \in Thread : /\ pc[u] \in Evictings \cup {"record_miss"}
                                 /\ job[u].frame = page_table[q]
        BY <1>1, <1>3 DEF Tracked
      <3>3. ASSUME NEW u \in Thread, pc[u] \in Evictings \cup {"record_miss"},
                   job[u].frame = page_table[q], page_table[q] # f
            PROVE  pc'[u] \in Evictings \cup {"record_miss"} /\ job'[u].frame = page_table[q]
        BY <1>7, <3>3 DEF Others
      <3> QED
        BY <1>3, <3>1, <3>2, <3>3
    <2>5. \A g \in guards' : Knows(g.page, g.frame)'
      BY <1>1, <1>3, <2>1 DEF Tracked
    <2>6. Tracked'
      BY <2>3, <2>4, <2>5 DEF Tracked
    <2>7. JobOk(t)'
      <3>1. f \in DOMAIN alive' /\ alive'[f].page = p
        BY <1>12 DEF Learns
      <3>2. Knows(job[t].page, job[t].frame)'
        BY <1>7, <3>1 DEF Knows
      <3> QED
        BY <1>2, <1>7, <3>2 DEF JobOk, Holding, Evictings, Cleaned, Fetching, Accessing, Guarded, Dropping
    <2> QED
      BY <1>1, <1>7, <2>1, <2>2, <2>6, <2>7, OthersOk
  <1>13. ASSUME serial PROVE Saved'
    <2>1. SameBytes
      BY <1>1, <1>3 DEF SameBytes, Typed, TypeOK, FrameRecord
    <2>2. \A q : ~Writing(t, q)
      BY <1>1 DEF Writing
    <2> QED
      BY <1>1, <1>3, <1>7, <1>13, <2>1, <2>2, SavedKept
  <1>14. undefined' => lost' # {}
    BY <1>3 DEF Inv
  <1> QED
    BY <1>6, <1>9, <1>10, <1>11, <1>12, <1>13, <1>14 DEF Inv, Running

(* Every frame is somewhere: when the free list is empty and no read has   *)
(* failed, every frame has a page.                                         *)
LEMMA PoolIsFull ==
  ASSUME Inv, serial, NEW t \in Thread, Company(t), pc[t] \notin Holding,
         free_frames = <<>>, lost = {}
  PROVE  Cardinality(DOMAIN page_table) = NumFrames
  <1>1. Free = {}
    BY DEF Free, Range
  <1>2. \A f \in Frame : \E p \in DOMAIN page_table : page_table[p] = f
    BY <1>1, OwnedWas DEF Owned
  <1> DEFINE home == [f \in Frame |-> CHOOSE p \in DOMAIN page_table : page_table[p] = f]
  <1>3. \A f \in Frame : home[f] \in DOMAIN page_table /\ page_table[home[f]] = f
    BY <1>2
  <1>4. home \in [Frame -> DOMAIN page_table]
    BY <1>3
  <1>5. \A f, g \in Frame : home[f] = home[g] => f = g
    BY <1>3
  <1>6. \A p \in DOMAIN page_table : page_table[p] \in Frame /\ home[page_table[p]] = p
    BY <1>3, FramesOfPages
  <1> HIDE DEF home
  <1>7. home \in Bijection(Frame, DOMAIN page_table)
    BY <1>4, <1>5, <1>6 DEF Bijection, Injection, Surjection, IsInjective
  <1>8. IsFiniteSet(Frame) /\ Cardinality(Frame) = NumFrames
    <2>1. 0 \in Int /\ NumFrames - 1 \in Int /\ ~(0 > NumFrames - 1)
          /\ (NumFrames - 1) - 0 + 1 = NumFrames
      BY PoolAssumption
    <2> QED
      BY <2>1, FS_Interval DEF Frame, Arc!Frame
  <1> QED
    BY <1>7, <1>8, FS_Bijection DEF ExistsBijection

(* Case 2 takes a free frame; there is one, unless a frame is lost. *)
LEMMA TakeFreeKeeps ==
  ASSUME Inv, NEW t \in Thread, Company(t), TakeFree(t), serial' = serial
  PROVE  Inv'
  <1>1. Running /\ pc[t] = "take" /\ Typed /\ ArcP!Inv /\ JobOk(t)
    BY DEF TakeFree, At, Inv
  <1>2. pc[t] \in Bringing /\ pc[t] \notin Holding /\ pc[t] \notin Evictings
    BY <1>1 DEF Bringing, Holding, Evictings, Cleaned
  <1>3. serial /\ guards = {}
    BY <1>2 DEF Inv, Users
  <1>4. /\ UNCHANGED <<page_table, latch, deleted, disk, frame, guards>>
        /\ UNCHANGED <<failures, lost, unsaved>> /\ UNCHANGED replacer
    BY DEF TakeFree, faults
  <1>5. ArcKept
    BY <1>1, <1>4, Rests
  <1>6. job[t] \in Get /\ job[t].page \notin DOMAIN page_table
        /\ Cardinality(DOMAIN page_table) # NumFrames
    BY <1>1 DEF JobOk
  <1>7. ASSUME free_frames = <<>> PROVE Inv'
    <2>1. undefined' = TRUE /\ UNCHANGED <<free_frames, pc, job>>
      BY <1>7 DEF TakeFree
    <2>2. lost # {}
      BY <1>2, <1>3, <1>6, <1>7, PoolIsFull
    <2>3. Typed' /\ Users'
      BY <1>4, <2>1 DEF Inv, Typed, TypeOK, Users, GuardTyped
    <2>4. Accounts'
      BY <1>4, <2>1 DEF Inv, Accounts, HolderOk, Linked, Free
    <2> QED
      BY <1>4, <1>5, <2>1, <2>2, <2>3, <2>4 DEF Inv, Running, ArcKept
  <1>8. ASSUME free_frames # <<>> PROVE Inv'
    <2> DEFINE f == Head(free_frames)
               j == WithFrame(job[t], f)
    <2>1. /\ free_frames' = Tail(free_frames) /\ UNCHANGED undefined
          /\ Goto(t, "load", j)
      BY <1>8 DEF TakeFree
    <2>2. /\ Free' = Free \ {f} /\ f \in Free
          /\ Tail(free_frames) \in Seq(Frame) /\ IsInjective(Tail(free_frames))
      <3>1. free_frames \in Seq(Frame) /\ IsInjective(free_frames)
        BY <1>1 DEF Typed, TypeOK
      <3>2. f = free_frames[1]
        BY <1>8, <3>1
      <3> QED
        BY <1>8, <2>1, <3>1, <3>2, Rest DEF Free
    <2>3. f \in Frame
      BY <1>1, <2>2 DEF Typed, TypeOK, Free
    <2>4. /\ j.frame = f /\ j.page = job[t].page /\ j.mode = job[t].mode
          /\ job[t].page \in Page /\ job[t].mode \in Mode
      BY <1>6, Extended
    <2> HIDE DEF f, j
    <2>5. /\ pc' \in [Thread -> Labels] /\ DOMAIN job' = Thread
          /\ pc'[t] = "load" /\ job'[t] = j /\ Others(t)
      BY <1>1, <2>1, Going DEF Labels, Bringing, Holding
    <2>6. "load" \in Holding /\ "load" \notin Evictings
      BY DEF Holding, Evictings, Cleaned
    <2>7. Typed'
      <3>1. Range(free_frames') \subseteq Frame
        BY <1>1, <2>2 DEF Typed, TypeOK, Free
      <3>2. TypeOK'
        BY <1>1, <1>4, <2>1, <2>2, <3>1 DEF Typed, TypeOK
      <3>3. \A g \in guards' : GuardTyped(g)
        BY <1>1, <1>4 DEF Typed
      <3> QED
        BY <1>1, <2>1, <2>2, <2>5, <3>2, <3>3 DEF Typed
    <2>8. Accounts'
      <3>1. HolderOk(t)'
        BY <1>4, <2>2, <2>3, <2>4, <2>5, <2>6 DEF Inv, Accounts, HolderOk
      <3>2. ASSUME NEW g \in Frame PROVE Owned(t, g)'
        BY <1>2, <1>3, <1>4, <2>2, <2>4, <2>5, <2>6, OwnedWas DEF Owned
      <3>3. /\ \A p, q \in DOMAIN page_table' : page_table'[p] = page_table'[q] => p = q
            /\ \A p \in DOMAIN page_table' : page_table'[p] \notin Free' /\ page_table'[p] \notin lost'
            /\ Free' \cap lost' = {}
        BY <1>4, <2>2 DEF Inv, Accounts
      <3> QED
        BY <1>3, <2>5, <3>1, <3>2, <3>3, AccountsIf
    <2>9. Tracked'
      <3>1. ASSUME NEW g \in DOMAIN alive' PROVE Linked(alive[g].page, g)'
        BY <1>1, <1>4, <1>5, AliveLinked DEF ArcKept, SamePages, Linked
      <3>2. ASSUME NEW p \in DOMAIN page_table'
            PROVE  page_table'[p] \in DOMAIN alive' \/ Forgotten(t, p)'
        <4>1. page_table[p] \in DOMAIN alive \/ Forgotten(t, p)
          BY <1>1, <1>3, <1>4, ForgottenWas
        <4>2. Forgotten(t, p) => p \in unsaved /\ ~frame[page_table[p]].dirty
          BY <1>1 DEF Forgotten, Evictings, Cleaned
        <4> QED
          BY <1>4, <1>5, <4>1, <4>2 DEF Forgotten, ArcKept, SamePages
      <3> QED
        BY <1>3, <1>4, <3>1, <3>2, TrackedIf DEF GuardsKnown
    <2>10. JobOk(t)'
      BY <1>4, <1>6, <2>3, <2>4, <2>5 DEF JobOk, Holding, Evictings, Cleaned, Fetching, Accessing, Guarded, Dropping
    <2>11. Saved'
      <3>1. SameBytes
        BY <1>1, <1>4 DEF SameBytes, Typed, TypeOK, FrameRecord
      <3>2. \A q : ~Writing(t, q)
        BY <1>1 DEF Writing
      <3> QED
        BY <1>1, <1>3, <1>4, <2>5, <3>1, <3>2, SavedKept
    <2>12. undefined' => lost' # {}
      BY <1>4, <2>1 DEF Inv
    <2> QED
      BY <1>1, <1>3, <1>4, <1>5, <2>5, <2>7, <2>8, <2>9, <2>10, <2>11, <2>12, SerialKeeps DEF ArcKept
  <1> QED
    BY <1>7, <1>8

(* A call that has got its victim. *)
LEMMA ExtendedVictim ==
  ASSUME NEW j \in Get, NEW f, NEW p
  PROVE  LET k == WithVictim(j, f, p)
         IN  /\ k.frame = f /\ k.stale = p /\ k.page = j.page /\ k.mode = j.mode
             /\ j.page \in Page /\ j.mode \in Mode
  BY DEF Get, WithVictim

(* Case 3 takes the victim's frame, whose page is still resident: the      *)
(* only one under which the replacer knew it.                              *)
LEMMA EvictKeeps ==
  ASSUME Inv, NEW t \in Thread, Company(t), Evict(t), serial' = serial
  PROVE  Inv'
  <1> DEFINE f == Arc!Victim
             stale == alive[f].page
             j == WithVictim(job[t], f, stale)
  <1>1. Running /\ pc[t] = "evict" /\ Typed /\ ArcP!Inv /\ JobOk(t)
    BY DEF Evict, At, Inv
  <1>2. pc[t] \in Bringing /\ pc[t] \notin Holding /\ pc[t] \notin Evictings \cup {"record_miss"}
    BY <1>1 DEF Bringing, Holding, Evictings, Cleaned
  <1>3. serial /\ guards = {}
    BY <1>2 DEF Inv, Users
  <1>4. /\ UNCHANGED <<page_table, free_frames, undefined, deleted, disk, frame, guards>>
        /\ UNCHANGED <<failures, lost, unsaved>> /\ latch' = t /\ Arc!Evict
    BY DEF Evict, faults
  <1>5. PICK l \in {"evict_flush", "evict_erase"} :
          Goto(t, l, j) /\ (l = "evict_flush" <=> frame[f].dirty)
    BY DEF Evict
  <1>6. /\ ArcP!Inv' /\ fatal' = fatal /\ f \in DOMAIN alive /\ Forgets(f)
    BY <1>1, <1>4, Evicts
  <1>7. stale \in DOMAIN page_table /\ page_table[stale] = f /\ f \in Frame
    BY <1>1, <1>6, AliveLinked, FramesOfPages
  <1>8. job[t] \in Get /\ job[t].page \notin DOMAIN page_table
    BY <1>1 DEF JobOk
  <1>9. /\ j.frame = f /\ j.stale = stale /\ j.page = job[t].page /\ j.mode = job[t].mode
        /\ job[t].page \in Page /\ job[t].mode \in Mode
    BY <1>8, ExtendedVictim
  <1> HIDE DEF f, stale, j
  <1>10. l \in Evictings /\ l \in Holding /\ l \in Labels
    BY DEF Evictings, Cleaned, Holding, Labels, Bringing
  <1>11. /\ pc' \in [Thread -> Labels] /\ DOMAIN job' = Thread
         /\ pc'[t] = l /\ job'[t] = j /\ Others(t)
    BY <1>1, <1>5, <1>10, Going
  <1>12. Typed'
    <2>1. /\ failures' \in 0..MaxFailures /\ unsaved' \subseteq Page /\ disk' \in [Page -> Data]
          /\ frame' \in [Frame -> FrameRecord]
          /\ latch' \in Thread \cup {NoThread} /\ \A h \in guards' : GuardTyped(h)
      BY <1>1, <1>4 DEF Typed, TypeOK, FrameRecord
    <2> QED
      BY <1>1, <1>4, <1>11, <2>1, TypedKept DEF SameFrames
  <1>13. Accounts'
    <2>1. HolderOk(t)'
      BY <1>4, <1>7, <1>9, <1>10, <1>11 DEF Inv, Accounts, HolderOk, Linked, Free
    <2>2. ASSUME NEW g \in Frame PROVE Owned(t, g)'
      BY <1>2, <1>3, <1>4, OwnedWas DEF Owned, Free
    <2>3. /\ \A p, q \in DOMAIN page_table' : page_table'[p] = page_table'[q] => p = q
          /\ \A p \in DOMAIN page_table' : page_table'[p] \notin Free' /\ page_table'[p] \notin lost'
          /\ Free' \cap lost' = {}
      BY <1>4 DEF Inv, Accounts, Free
    <2> QED
      BY <1>3, <1>11, <2>1, <2>2, <2>3, AccountsIf
  <1>14. Tracked'
    <2>1. ASSUME NEW g \in DOMAIN alive' PROVE Linked(alive[g].page, g)'
      <3>1. g \in DOMAIN alive /\ alive'[g] = alive[g]
        BY <1>6 DEF Forgets
      <3> QED
        BY <1>1, <1>4, <3>1, AliveLinked DEF Linked
    <2>2. ASSUME NEW p \in DOMAIN page_table'
          PROVE  page_table'[p] \in DOMAIN alive' \/ Forgotten(t, p)'
      <3>1. page_table[p] \in DOMAIN alive \/ (p \in unsaved /\ ~frame[page_table[p]].dirty)
        BY <1>1, <1>2, <1>3, <1>4, ForgottenWas DEF Forgotten
      <3>2. page_table[p] = f => Forgotten(t, p)'
        BY <1>4, <1>9, <1>10, <1>11 DEF Forgotten
      <3>3. page_table[p] \in DOMAIN alive /\ page_table[p] # f => page_table'[p] \in DOMAIN alive'
        BY <1>4, <1>6 DEF Forgets
      <3> QED
        BY <1>4, <3>1, <3>2, <3>3 DEF Forgotten
    <2> QED
      BY <1>3, <1>4, <2>1, <2>2, TrackedIf DEF GuardsKnown
  <1>15. JobOk(t)'
    <2>1. f \notin DOMAIN alive'
      BY <1>6 DEF Forgets
    <2> QED
      BY <1>4, <1>5, <1>7, <1>8, <1>9, <1>11, <2>1
      DEF JobOk, Holding, Evictings, Cleaned, Fetching, Accessing, Guarded, Dropping
  <1>16. Saved'
    <2>1. SameBytes
      BY <1>1, <1>4 DEF SameBytes, Typed, TypeOK, FrameRecord
    <2>2. \A q : ~Writing(t, q)
      BY <1>1 DEF Writing
    <2> QED
      BY <1>1, <1>3, <1>4, <1>11, <2>1, <2>2, SavedKept
  <1>17. undefined' => lost' # {}
    BY <1>4 DEF Inv
  <1> QED
    BY <1>1, <1>3, <1>4, <1>6, <1>11, <1>12, <1>13, <1>14, <1>15, <1>16, <1>17, SerialKeeps

(* The victim's page leaves the table, with its bytes on disk. *)
LEMMA EvictEraseKeeps ==
  ASSUME Inv, NEW t \in Thread, Company(t), EvictErase(t), serial' = serial
  PROVE  Inv'
  <1> DEFINE f == job[t].frame
             stale == job[t].stale
  <1>1. Running /\ pc[t] = "evict_erase" /\ Typed /\ ArcP!Inv
    BY DEF EvictErase, At, Inv
  <1>2. pc[t] \in Evictings /\ pc[t] \in Holding
    BY <1>1 DEF Evictings, Cleaned, Holding
  <1>3. /\ serial /\ guards = {} /\ stale \in DOMAIN page_table /\ page_table[stale] = f
        /\ stale \in Page /\ f \in Frame /\ f \notin DOMAIN alive
        /\ job[t].page \in Page /\ job[t].mode \in Mode /\ job[t].page \notin DOMAIN page_table
    BY <1>1, <1>2, EvictingHas
  <1>4. /\ UNCHANGED <<free_frames, undefined, deleted, disk, frame, guards>>
        /\ UNCHANGED <<failures, lost>> /\ UNCHANGED replacer
        /\ latch' = NoThread /\ unsaved' = unsaved \ {stale}
        /\ Goto(t, "load", job[t])
    BY DEF EvictErase, Settle
  <1>5. /\ DOMAIN page_table' = DOMAIN page_table \ {stale}
        /\ \A p \in DOMAIN page_table \ {stale} : page_table'[p] = page_table[p]
    BY DEF EvictErase, Restrict
  <1>6. ArcKept
    BY <1>1, <1>4, Rests
  <1>7. /\ pc' \in [Thread -> Labels] /\ DOMAIN job' = Thread
        /\ pc'[t] = "load" /\ job'[t] = job[t] /\ Others(t)
    BY <1>1, <1>4, Going DEF Labels, Bringing, Holding
  <1>8. "load" \in Holding /\ "load" \notin Evictings
    BY DEF Holding, Evictings, Cleaned
  <1>9. Typed'
    <2>1. DOMAIN page_table' \subseteq Page /\ Range(page_table') \subseteq Frame
      BY <1>1, <1>5 DEF Typed, TypeOK, Range
    <2>2. /\ failures' \in 0..MaxFailures /\ unsaved' \subseteq Page
          /\ latch' \in Thread \cup {NoThread} /\ \A h \in guards' : GuardTyped(h)
      BY <1>1, <1>3, <1>4 DEF Typed, TypeOK
    <2>3. TypeOK'
      BY <1>1, <1>3, <1>4, <2>1, <2>2 DEF Typed, TypeOK
    <2> QED
      BY <1>1, <1>4, <1>7, <2>2, <2>3 DEF Typed
  <1>10. Accounts'
    <2>1. HolderOk(t)
      BY <1>2 DEF Inv, Accounts
    <2>2. HolderOk(t)'
      BY <1>3, <1>4, <1>5, <1>7, <1>8, <2>1, FramesOfPages DEF HolderOk, Free
    <2>3. ASSUME NEW g \in Frame PROVE Owned(t, g)'
      BY <1>3, <1>4, <1>5, <1>7, <1>8, OwnedWas DEF Owned, Free
    <2>4. /\ \A p, q \in DOMAIN page_table' : page_table'[p] = page_table'[q] => p = q
          /\ \A p \in DOMAIN page_table' : page_table'[p] \notin Free' /\ page_table'[p] \notin lost'
          /\ Free' \cap lost' = {}
      BY <1>4, <1>5 DEF Inv, Accounts, Free
    <2> QED
      BY <1>3, <1>7, <2>2, <2>3, <2>4, AccountsIf
  <1>11. Tracked'
    <2>1. ASSUME NEW g \in DOMAIN alive' PROVE Linked(alive[g].page, g)'
      <3>1. /\ g \in DOMAIN alive /\ alive' = alive /\ g # f
            /\ alive[g].page \in DOMAIN page_table /\ page_table[alive[g].page] = g
        BY <1>1, <1>3, <1>4, AliveLinked DEF replacer
      <3> QED
        BY <1>3, <1>5, <3>1 DEF Linked
    <2>2. ASSUME NEW p \in DOMAIN page_table'
          PROVE  page_table'[p] \in DOMAIN alive' \/ Forgotten(t, p)'
      <3>1. /\ p \in DOMAIN page_table /\ p # stale /\ page_table'[p] = page_table[p]
            /\ page_table[p] # f
        BY <1>3, <1>5, FramesOfPages
      <3>2. page_table[p] \in DOMAIN alive \/ (p \in unsaved /\ ~frame[page_table[p]].dirty)
        BY <1>1, <1>3, <3>1, ForgottenWas DEF Forgotten
      <3> QED
        BY <1>4, <1>6, <3>1, <3>2 DEF Forgotten, ArcKept, SamePages
    <2> QED
      BY <1>3, <1>4, <2>1, <2>2, TrackedIf DEF GuardsKnown
  <1>12. JobOk(t)'
    BY <1>3, <1>5, <1>7 DEF JobOk, Holding, Evictings, Cleaned, Fetching, Accessing, Guarded, Dropping
  <1>13. Saved'
    <2>1. ASSUME NEW p \in DOMAIN page_table' PROVE SavedAt(p)'
      <3>1. p \in DOMAIN page_table /\ p # stale /\ page_table'[p] = page_table[p]
        BY <1>5
      <3>2. SavedAt(p)
        BY <1>1, <1>3, <3>1, SavedWas DEF Writing
      <3> QED
        BY <1>4, <3>1, <3>2 DEF SavedAt
    <2> QED
      BY <1>3, <1>7, <2>1, SavedIf
  <1>14. undefined' => lost' # {}
    BY <1>4 DEF Inv
  <1> QED
    BY <1>1, <1>3, <1>4, <1>6, <1>7, <1>9, <1>10, <1>11, <1>12, <1>13, <1>14, SerialKeeps DEF ArcKept

(* A failed write of a victim: the page stays resident and forgotten. *)
LEMMA EvictWriteFailsKeeps ==
  ASSUME Inv, NEW t \in Thread, Company(t), EvictWriteFails(t), serial' = serial
  PROVE  Inv'
  <1> DEFINE f == job[t].frame
             stale == job[t].stale
  <1>1. Running /\ pc[t] = "evict_write" /\ Typed /\ ArcP!Inv /\ JobOk(t)
    BY DEF EvictWriteFails, At, Inv
  <1>2. pc[t] \in Evictings /\ pc[t] \in Holding
    BY <1>1 DEF Evictings, Cleaned, Holding
  <1>3. /\ serial /\ guards = {} /\ stale \in DOMAIN page_table /\ page_table[stale] = f
        /\ stale \in Page /\ f \in Frame /\ ~frame[f].dirty
    BY <1>1, <1>2, EvictingHas DEF JobOk, Cleaned
  <1>4. /\ UNCHANGED <<page_table, free_frames, undefined, deleted, disk, frame, guards>>
        /\ UNCHANGED lost /\ UNCHANGED replacer
        /\ failures < MaxFailures /\ failures' = failures + 1
        /\ latch' = NoThread /\ unsaved' = unsaved \cup {stale}
        /\ Return(t)
    BY DEF EvictWriteFails, RequestFails
  <1>5. ArcKept
    BY <1>1, <1>4, Rests
  <1>6. /\ pc' \in [Thread -> Labels] /\ DOMAIN job' = Thread
        /\ pc'[t] = "idle" /\ Others(t) /\ JobOk(t)'
    BY <1>1, <1>4, Returning, IdleOk
  <1>7. "idle" \notin Holding /\ "idle" \notin Bringing
    BY DEF Bringing, Holding, Evictings, Cleaned
  <1>8. Typed'
    <2>1. /\ failures \in 0..MaxFailures /\ MaxFailures \in Nat
          /\ unsaved' \subseteq Page /\ disk' \in [Page -> Data]
          /\ frame' \in [Frame -> FrameRecord]
          /\ latch' \in Thread \cup {NoThread} /\ \A h \in guards' : GuardTyped(h)
      BY <1>1, <1>3, <1>4, PoolAssumption DEF Typed, TypeOK, FrameRecord
    <2>2. failures' \in 0..MaxFailures
      BY <1>4, <2>1
    <2> QED
      BY <1>1, <1>4, <1>6, <2>1, <2>2, TypedKept DEF SameFrames
  <1>9. Accounts'
    <2>1. ASSUME NEW g \in Frame PROVE Owned(t, g)'
      BY <1>3, <1>4, OwnedWas DEF Owned, Free
    <2>2. /\ \A p, q \in DOMAIN page_table' : page_table'[p] = page_table'[q] => p = q
          /\ \A p \in DOMAIN page_table' : page_table'[p] \notin Free' /\ page_table'[p] \notin lost'
          /\ Free' \cap lost' = {}
      BY <1>4 DEF Inv, Accounts, Free
    <2> QED
      BY <1>3, <1>6, <1>7, <2>1, <2>2, AccountsIf
  <1>10. Tracked'
    <2>1. ASSUME NEW g \in DOMAIN alive' PROVE Linked(alive[g].page, g)'
      BY <1>1, <1>4, AliveLinked DEF Linked, replacer
    <2>2. ASSUME NEW p \in DOMAIN page_table'
          PROVE  page_table'[p] \in DOMAIN alive' \/ Forgotten(t, p)'
      <3>1. \/ page_table[p] \in DOMAIN alive
            \/ p \in unsaved /\ ~frame[page_table[p]].dirty
            \/ page_table[p] = f
        BY <1>1, <1>3, <1>4, ForgottenWas DEF Forgotten
      <3>2. page_table[p] = f => p = stale
        BY <1>3, <1>4, FramesOfPages
      <3> QED
        BY <1>3, <1>4, <1>5, <3>1, <3>2 DEF Forgotten, ArcKept, SamePages
    <2> QED
      BY <1>3, <1>4, <2>1, <2>2, TrackedIf DEF GuardsKnown
  <1>11. Saved'
    <2>1. ASSUME NEW p \in DOMAIN page_table PROVE SavedAt(p)'
      <3>1. SavedAt(p) \/ p = stale
        BY <1>1, <1>3, SavedWas DEF Writing
      <3> QED
        BY <1>4, <3>1 DEF SavedAt
    <2> QED
      BY <1>3, <1>4, <1>6, <2>1, SavedIf
  <1>12. undefined' => lost' # {}
    BY <1>4 DEF Inv
  <1> QED
    BY <1>1, <1>3, <1>5, <1>6, <1>7, <1>8, <1>9, <1>10, <1>11, <1>12, SerialKeeps DEF ArcKept

(* A failed read: the frame is lost. *)
LEMMA LoadFailsKeeps ==
  ASSUME Inv, NEW t \in Thread, Company(t), LoadFails(t), serial' = serial
  PROVE  Inv'
  <1> DEFINE f == job[t].frame
  <1>1. Running /\ pc[t] = "load" /\ Typed /\ ArcP!Inv
    BY DEF LoadFails, At, Inv
  <1>2. pc[t] \in Holding /\ pc[t] \in Bringing /\ pc[t] \notin Evictings \cup {"record_miss"}
    BY <1>1 DEF Holding, Bringing, Evictings, Cleaned
  <1>3. /\ serial /\ guards = {}
        /\ f \in Frame /\ f \notin Free /\ \A q \in DOMAIN page_table : page_table[q] # f
    BY <1>2 DEF Inv, Users, Accounts, HolderOk
  <1>4. /\ UNCHANGED <<page_table, free_frames, undefined, latch, deleted, disk, frame, guards>>
        /\ UNCHANGED replacer /\ lost' = lost \cup {f}
        /\ failures < MaxFailures /\ failures' = failures + 1 /\ unsaved' = unsaved
        /\ Return(t)
    BY DEF LoadFails, RequestFails
  <1>5. ArcKept
    BY <1>1, <1>4, Rests
  <1>6. /\ pc' \in [Thread -> Labels] /\ DOMAIN job' = Thread
        /\ pc'[t] = "idle" /\ Others(t) /\ JobOk(t)'
    BY <1>1, <1>4, Returning, IdleOk
  <1>7. "idle" \notin Holding /\ "idle" \notin Bringing
    BY DEF Bringing, Holding, Evictings, Cleaned
  <1>8. Typed'
    <2>1. failures \in 0..MaxFailures /\ MaxFailures \in Nat
      BY <1>1, PoolAssumption DEF Typed, TypeOK
    <2>2. failures' \in 0..MaxFailures
      BY <1>4, <2>1
    <2>3. lost' \subseteq Frame
      BY <1>1, <1>3, <1>4 DEF Typed, TypeOK
    <2>4. TypeOK'
      BY <1>1, <1>4, <2>2, <2>3 DEF Typed, TypeOK
    <2>5. \A g \in guards' : GuardTyped(g)
      BY <1>1, <1>4 DEF Typed
    <2> QED
      BY <1>1, <1>4, <1>6, <2>4, <2>5 DEF Typed
  <1>9. Accounts'
    <2>1. ASSUME NEW g \in Frame PROVE Owned(t, g)'
      BY <1>3, <1>4, OwnedWas DEF Owned, Free
    <2>2. /\ \A p, q \in DOMAIN page_table' : page_table'[p] = page_table'[q] => p = q
          /\ \A p \in DOMAIN page_table' : page_table'[p] \notin Free' /\ page_table'[p] \notin lost'
          /\ Free' \cap lost' = {}
      BY <1>3, <1>4 DEF Inv, Accounts, Free
    <2> QED
      BY <1>3, <1>6, <1>7, <2>1, <2>2, AccountsIf
  <1>10. Tracked'
    <2>1. ASSUME NEW g \in DOMAIN alive' PROVE Linked(alive[g].page, g)'
      BY <1>1, <1>4, AliveLinked DEF Linked, replacer
    <2>2. ASSUME NEW p \in DOMAIN page_table'
          PROVE  page_table'[p] \in DOMAIN alive' \/ Forgotten(t, p)'
      <3>1. page_table[p] \in DOMAIN alive \/ (p \in unsaved /\ ~frame[page_table[p]].dirty)
        BY <1>1, <1>2, <1>3, <1>4, ForgottenWas DEF Forgotten
      <3> QED
        BY <1>4, <1>5, <3>1 DEF Forgotten, ArcKept, SamePages
    <2> QED
      BY <1>3, <1>4, <2>1, <2>2, TrackedIf DEF GuardsKnown
  <1>11. Saved'
    <2>1. SameBytes
      BY <1>1, <1>4 DEF SameBytes, Typed, TypeOK, FrameRecord
    <2>2. \A q : ~Writing(t, q)
      BY <1>1 DEF Writing
    <2> QED
      BY <1>1, <1>3, <1>4, <1>6, <2>1, <2>2, SavedKept
  <1>12. undefined' => lost' # {}
    BY <1>4 DEF Inv
  <1> QED
    BY <1>1, <1>3, <1>5, <1>6, <1>7, <1>8, <1>9, <1>10, <1>11, <1>12, SerialKeeps DEF ArcKept

(* The page's entry is made: its frame is nobody else's. *)
LEMMA LinkKeeps ==
  ASSUME Inv, NEW t \in Thread, Company(t), Link(t), serial' = serial
  PROVE  Inv'
  <1> DEFINE f == job[t].frame
             p == job[t].page
  <1>1. Running /\ pc[t] = "link" /\ Typed /\ ArcP!Inv /\ JobOk(t)
    BY DEF Link, At, Inv
  <1>2. pc[t] \in Holding /\ pc[t] \in Bringing /\ pc[t] \notin Evictings \cup {"record_miss"}
    BY <1>1 DEF Holding, Bringing, Evictings, Cleaned
  <1>3. /\ serial /\ guards = {}
        /\ f \in Frame /\ f \notin Free /\ f \notin lost
        /\ \A q \in DOMAIN page_table : page_table[q] # f
    BY <1>2 DEF Inv, Users, Accounts, HolderOk
  <1>4. p \in Page /\ job[t].mode \in Mode /\ p \notin DOMAIN page_table
    BY <1>1, <1>2 DEF JobOk
  <1>5. /\ UNCHANGED <<free_frames, undefined, latch, deleted, disk, frame, guards>>
        /\ UNCHANGED <<failures, lost, unsaved>> /\ UNCHANGED replacer
        /\ Goto(t, "record_miss", job[t])
    BY DEF Link, faults
  <1>6. /\ DOMAIN page_table' = DOMAIN page_table \cup {p} /\ page_table'[p] = f
        /\ \A q \in DOMAIN page_table : page_table'[q] = page_table[q]
    BY <1>4 DEF Link, Arc!Enter
  <1>7. ArcKept
    BY <1>1, <1>5, Rests
  <1>8. /\ pc' \in [Thread -> Labels] /\ DOMAIN job' = Thread
        /\ pc'[t] = "record_miss" /\ job'[t] = job[t] /\ Others(t)
    BY <1>1, <1>5, Going DEF Labels, Bringing
  <1>9. "record_miss" \notin Holding
    BY DEF Holding, Evictings, Cleaned
  <1>10. Typed'
    <2>1. DOMAIN page_table' \subseteq Page /\ Range(page_table') \subseteq Frame
      BY <1>1, <1>3, <1>4, <1>6 DEF Typed, TypeOK, Range
    <2>2. TypeOK'
      BY <1>1, <1>5, <2>1 DEF Typed, TypeOK
    <2>3. \A g \in guards' : GuardTyped(g)
      BY <1>1, <1>5 DEF Typed
    <2> QED
      BY <1>1, <1>5, <1>8, <2>2, <2>3 DEF Typed
  <1>11. Accounts'
    <2>1. ASSUME NEW g \in Frame PROVE Owned(t, g)'
      BY <1>3, <1>5, <1>6, OwnedWas DEF Owned, Free
    <2>2. /\ \A q, r \in DOMAIN page_table' : page_table'[q] = page_table'[r] => q = r
          /\ \A q \in DOMAIN page_table' : page_table'[q] \notin Free' /\ page_table'[q] \notin lost'
          /\ Free' \cap lost' = {}
      BY <1>3, <1>5, <1>6 DEF Inv, Accounts, Free
    <2> QED
      BY <1>3, <1>8, <1>9, <2>1, <2>2, AccountsIf
  <1>12. Tracked'
    <2>1. ASSUME NEW g \in DOMAIN alive' PROVE Linked(alive[g].page, g)'
      BY <1>1, <1>5, <1>6, AliveLinked DEF Linked, replacer
    <2>2. ASSUME NEW q \in DOMAIN page_table'
          PROVE  page_table'[q] \in DOMAIN alive' \/ Forgotten(t, q)'
      <3>1. CASE q = p
        BY <1>6, <1>8, <3>1 DEF Forgotten
      <3>2. CASE q # p
        <4>1. q \in DOMAIN page_table /\ page_table'[q] = page_table[q]
          BY <1>6, <3>2
        <4>2. page_table[q] \in DOMAIN alive \/ (q \in unsaved /\ ~frame[page_table[q]].dirty)
          BY <1>1, <1>2, <1>3, <4>1, ForgottenWas DEF Forgotten
        <4> QED
          BY <1>5, <1>7, <4>1, <4>2 DEF Forgotten, ArcKept, SamePages
      <3> QED
        BY <3>1, <3>2
    <2> QED
      BY <1>3, <1>5, <2>1, <2>2, TrackedIf DEF GuardsKnown
  <1>13. JobOk(t)'
    <2>1. Linked(job[t].page, job[t].frame)'
      BY <1>6, <1>8 DEF Linked
    <2> QED
      BY <1>3, <1>4, <1>8, <2>1 DEF JobOk, Holding, Evictings, Cleaned, Fetching, Accessing, Guarded, Dropping
  <1>14. Saved'
    <2>1. ASSUME NEW q \in DOMAIN page_table' PROVE SavedAt(q)'
      <3>1. CASE q = p
        <4>1. frame[f].data = disk[p]
          BY <1>1, <1>3 DEF Inv, Saved
        <4> QED
          BY <1>5, <1>6, <3>1, <4>1 DEF SavedAt
      <3>2. CASE q # p
        <4>1. q \in DOMAIN page_table /\ page_table'[q] = page_table[q]
          BY <1>6, <3>2
        <4>2. SavedAt(q)
          BY <1>1, <1>3, <4>1, SavedWas DEF Writing
        <4> QED
          BY <1>5, <4>1, <4>2 DEF SavedAt
      <3> QED
        BY <3>1, <3>2
    <2> QED
      BY <1>3, <1>8, <2>1, SavedIf
  <1>15. undefined' => lost' # {}
    BY <1>5 DEF Inv
  <1> QED
    BY <1>1, <1>3, <1>5, <1>7, <1>8, <1>10, <1>11, <1>12, <1>13, <1>14, <1>15, SerialKeeps DEF ArcKept

(* A step that changes no more than the count of calls. *)
LEMMA StutterKeeps ==
  ASSUME Inv, UNCHANGED <<page_table, free_frames, frame, guards, latch, disk, deleted, undefined>>,
         UNCHANGED faults, UNCHANGED replacer, UNCHANGED <<pc, job>>, serial' = serial
  PROVE  Inv'
  <1>1. ArcKept
    BY Rests DEF Inv
  <1>2. UNCHANGED <<failures, lost, unsaved>> /\ alive' = alive
    BY DEF faults, replacer
  <1>3. Typed' /\ Users'
    BY <1>2 DEF Inv, Typed, TypeOK, Users, GuardTyped
  <1>4. Accounts'
    BY <1>2 DEF Inv, Accounts, HolderOk, Linked, Free
  <1>5. ASSUME Running' PROVE Tracked' /\ (\A t \in Thread : JobOk(t)') /\ (serial => Saved')
    <2>1. Running
      BY <1>1, <1>5 DEF Running, ArcKept
    <2>2. Tracked'
      BY <1>2, <2>1 DEF Inv, Tracked, Linked, Knows
    <2>3. ASSUME NEW t \in Thread PROVE JobOk(t)'
      <3>1. JobOk(t)
        BY <2>1 DEF Inv
      <3> QED
        BY <1>2, <3>1 DEF JobOk, Linked, Knows, GuardKnown, GuardTyped
    <2>4. serial => Saved'
      BY <1>2, <2>1 DEF Inv, Saved, Writing
    <2> QED
      BY <2>2, <2>3, <2>4
  <1> QED
    BY <1>1, <1>2, <1>3, <1>4, <1>5 DEF Inv, ArcKept

(* DeletePage frees the frame of a page that nobody guards. *)
LEMMA DeletePageKeeps ==
  ASSUME Inv, NEW t \in Thread, Company(t), serial, NEW p \in Page, \A g \in guards : g.page # p,
         DeletePage(t, p), serial' = serial
  PROVE  Inv'
  <1> DEFINE f == page_table[p]
  <1>1. Running /\ pc[t] = "idle" /\ Typed /\ ArcP!Inv /\ Tracked
    BY DEF DeletePage, At, Inv
  <1>2. UNCHANGED <<guards, latch, disk, undefined, pc, job>>
    BY DEF DeletePage
  <1>3. CASE p \notin DOMAIN page_table \/ frame[f].pin # 0
    <2>1. UNCHANGED <<page_table, free_frames, frame, faults, deleted, replacer>>
      BY <1>3 DEF DeletePage
    <2> QED
      BY <1>2, <2>1, StutterKeeps
  <1>4. CASE ~(p \notin DOMAIN page_table \/ frame[f].pin # 0)
    <2>1. /\ page_table' = Restrict(page_table, DOMAIN page_table \ {p})
          /\ Arc!RemoveFrame(f) /\ frame' = [frame EXCEPT ![f] = Reset]
          /\ free_frames' = Append(free_frames, f)
          /\ unsaved' = unsaved \ {p} /\ lost' = lost
          /\ deleted' = deleted \cup {p}
          /\ failures' = failures \/ (failures < MaxFailures /\ failures' = failures + 1)
      BY <1>4 DEF DeletePage, Settle, DeletionFails
    <2>2. p \in DOMAIN page_table /\ f \in Frame
      BY <1>4, FramesOfPages
    <2>3. /\ DOMAIN page_table' = DOMAIN page_table \ {p}
          /\ \A q \in DOMAIN page_table \ {p} : page_table'[q] = page_table[q] /\ page_table[q] # f
      BY <2>1, <2>2, FramesOfPages DEF Restrict
    <2>4. ArcP!Inv' /\ (fatal' \/ (fatal' = fatal /\ Forgets(f)))
      BY <1>1, <2>1, <2>2, Removes
    <2>5. f \notin Free /\ f \notin lost
      BY <2>2 DEF Inv, Accounts
    <2>6. /\ free_frames' \in Seq(Frame) /\ Free' = Free \cup {f} /\ IsInjective(free_frames')
      <3>1. free_frames \in Seq(Frame) /\ IsInjective(free_frames)
        BY <1>1 DEF Typed, TypeOK
      <3> QED
        BY <2>1, <2>2, <2>5, <3>1, Appended DEF Free
    <2>7. /\ frame' \in [Frame -> FrameRecord]
          /\ \A g \in Frame \ {f} : frame'[g] = frame[g]
      <3>1. frame \in [Frame -> FrameRecord]
        BY <1>1 DEF Typed, TypeOK, FrameRecord
      <3>2. Zero \in Data
        BY PoolAssumption DEF Zero
      <3>3. Reset \in FrameRecord
        BY <3>2 DEF Reset, FrameRecord
      <3> QED
        BY <2>1, <2>2, <3>1, <3>3
    <2>8. Typed'
      <3>1. DOMAIN page_table' \subseteq Page /\ Range(page_table') \subseteq Frame
        BY <1>1, <2>3 DEF Typed, TypeOK, Range
      <3>2. Range(free_frames') \subseteq Frame
        BY <1>1, <2>2, <2>6 DEF Typed, TypeOK, Free
      <3>3. failures' \in 0..MaxFailures /\ deleted' \subseteq Page /\ unsaved' \subseteq Page
        BY <1>1, <2>1, PoolAssumption DEF Typed, TypeOK
      <3>4. TypeOK'
        BY <1>1, <1>2, <2>1, <2>6, <2>7, <3>1, <3>2, <3>3 DEF Typed, TypeOK, FrameRecord
      <3>5. \A g \in guards' : GuardTyped(g)
        BY <1>1, <1>2 DEF Typed
      <3> QED
        BY <1>1, <1>2, <2>6, <3>4, <3>5 DEF Typed
    <2>9. Others(t) /\ pc'[t] = "idle" /\ "idle" \notin Holding /\ "idle" \notin Bringing
      BY <1>1, <1>2 DEF Others, Bringing, Holding, Evictings, Cleaned
    <2>10. Accounts'
      <3>1. ASSUME NEW g \in Frame PROVE Owned(t, g)'
        BY <1>1, <2>1, <2>3, <2>6, <2>9, OwnedWas DEF Owned
      <3>2. /\ \A q, r \in DOMAIN page_table' : page_table'[q] = page_table'[r] => q = r
            /\ \A q \in DOMAIN page_table' : page_table'[q] \notin Free' /\ page_table'[q] \notin lost'
            /\ Free' \cap lost' = {}
        <4>1. /\ \A q \in DOMAIN page_table : page_table[q] \notin Free /\ page_table[q] \notin lost
              /\ Free \cap lost = {}
          BY DEF Inv, Accounts
        <4>2. lost' = lost
          BY <2>1
        <4>3. \A q \in DOMAIN page_table' : /\ q \in DOMAIN page_table
                                           /\ page_table'[q] = page_table[q] /\ page_table[q] # f
          BY <2>3
        <4> QED
          BY <2>5, <2>6, <4>1, <4>2, <4>3, FramesOfPages
      <3> QED
        BY <2>9, <3>1, <3>2, AccountsIf
    <2>11. ASSUME Forgets(f) PROVE Tracked'
      <3>1. ASSUME NEW g \in DOMAIN alive' PROVE Linked(alive[g].page, g)'
        <4>1. g \in DOMAIN alive /\ g # f /\ alive'[g] = alive[g]
          BY <2>11 DEF Forgets
        <4>2. alive[g].page \in DOMAIN page_table /\ page_table[alive[g].page] = g
          BY <1>1, <4>1, AliveLinked
        <4> QED
          BY <2>3, <4>1, <4>2 DEF Linked
      <3>2. ASSUME NEW q \in DOMAIN page_table'
            PROVE  page_table'[q] \in DOMAIN alive' \/ Forgotten(t, q)'
        <4>1. /\ q \in DOMAIN page_table /\ q # p /\ page_table'[q] = page_table[q]
              /\ page_table[q] \in Frame \ {f}
          BY <2>3, FramesOfPages
        <4>2. page_table[q] \in DOMAIN alive \/ (q \in unsaved /\ ~frame[page_table[q]].dirty)
          BY <1>1, <4>1, ForgottenWas DEF Forgotten, Evictings, Cleaned
        <4> QED
          BY <2>1, <2>7, <2>11, <4>1, <4>2 DEF Forgotten, Forgets
      <3>3. GuardsKnown'
        <4>1. ASSUME NEW g \in guards PROVE Knows(g.page, g.frame)'
          <5>1. g.frame \in DOMAIN alive /\ alive[g.frame].page = g.page
            BY <1>1 DEF Tracked, Knows
          <5>2. g.page \in DOMAIN page_table /\ page_table[g.page] = g.frame
            BY <1>1, <5>1, AliveLinked
          <5>3. g.frame # f
            BY <2>3, <5>2
          <5> QED
            BY <2>11, <5>1, <5>3 DEF Forgets, Knows
        <4> QED
          BY <1>2, <4>1 DEF GuardsKnown
      <3> QED
        BY <3>1, <3>2, <3>3, TrackedIf
    <2>12. JobOk(t)'
      BY <2>9 DEF JobOk, Holding, Evictings, Cleaned, Fetching, Accessing, Guarded, Dropping
    <2>13. Saved'
      <3>1. ASSUME NEW q \in DOMAIN page_table' PROVE SavedAt(q)'
        <4>1. /\ q \in DOMAIN page_table /\ q # p /\ page_table'[q] = page_table[q]
              /\ page_table[q] \in Frame \ {f}
          BY <2>3, FramesOfPages
        <4>2. SavedAt(q)
          BY <1>1, <4>1, SavedWas DEF Writing
        <4> QED
          BY <1>2, <2>1, <2>7, <4>1, <4>2 DEF SavedAt
      <3> QED
        BY <2>9, <3>1, SavedIf
    <2>14. undefined' => lost' # {}
      BY <1>2, <2>1 DEF Inv
    <2> QED
      BY <1>1, <2>4, <2>8, <2>9, <2>10, <2>11, <2>12, <2>13, <2>14, SerialKeeps DEF Running
  <1> QED
    BY <1>3, <1>4

-----------------------------------------------------------------------------
(* The initial states. *)
Downward == [i \in 1..NumFrames |-> NumFrames - i]

(* The lists of a warm replacer hold each frame once. *)
LEMMA DownwardLists ==
  /\ Downward \in Seq(Frame) /\ Len(Downward) = NumFrames
  /\ IsInjective(Downward) /\ Range(Downward) = Frame
  <1>1. NumFrames \in Nat /\ Frame = 0..(NumFrames - 1)
    BY PoolAssumption DEF Frame, Arc!Frame
  <1>2. \A i \in 1..NumFrames : NumFrames - i \in 0..(NumFrames - 1)
    BY <1>1
  <1>3. Downward \in Seq(Frame) /\ Len(Downward) = NumFrames
    BY <1>1, <1>2 DEF Downward
  <1>4. IsInjective(Downward)
    BY <1>1 DEF Downward, IsInjective
  <1>5. ASSUME NEW f \in Frame PROVE f \in Range(Downward)
    <2>1. NumFrames - f \in 1..NumFrames /\ Downward[NumFrames - f] = f
      BY <1>1 DEF Downward
    <2> QED
      BY <2>1 DEF Range, Downward
  <1>6. Range(Downward) \subseteq Frame
    BY <1>1, <1>2 DEF Range, Downward
  <1> QED
    BY <1>3, <1>4, <1>5, <1>6

(* There are num_frames_ frames. *)
LEMMA FramesCounted == IsFiniteSet(Frame) /\ Cardinality(Frame) = NumFrames
  <1>1. /\ 0 \in Int /\ NumFrames - 1 \in Int /\ ~(0 > NumFrames - 1)
        /\ (NumFrames - 1) - 0 + 1 = NumFrames
    BY PoolAssumption
  <1> QED
    BY <1>1, FS_Interval DEF Frame, Arc!Frame

(* The first pages have the numbers of the frames. *)
LEMMA FirstFrames == Frame = FirstPages /\ \A f \in Frame : f \in Page
  BY UserAssumption DEF Frame, Arc!Frame, FirstPages

(* A replacer that knows each frame by one access, or by two. *)
LEMMA ArcFilled ==
  ASSUME NEW e \in BOOLEAN, NEW s \in {"mru", "mfu"},
         alive = [f \in Frame |-> [page |-> f, evictable |-> e, status |-> s]],
         \/ s = "mru" /\ mru = Downward /\ mfu = <<>>
         \/ s = "mfu" /\ mfu = Downward /\ mru = <<>>,
         mru_ghost = <<>>, mfu_ghost = <<>>, ghost = <<>>,
         target = 0, curr_size = IF e THEN NumFrames ELSE 0, fatal = FALSE
  PROVE  ArcP!Inv
  <1>1. /\ Frame = ArcP!Frame /\ NumFrames \in Nat /\ MaxTarget \in Nat
        /\ Range(<<>>) = {} /\ IsInjective(<<>>) /\ <<>> \in Seq(Frame) /\ <<>> \in Seq(Page)
        /\ Len(<<>>) = 0 /\ DOMAIN <<>> = {}
    BY SameHelpers, PoolAssumption DEF Frame, Range, IsInjective
  <1>2. /\ DOMAIN alive = Frame
        /\ \A f \in Frame : alive[f].page = f /\ alive[f].evictable = e /\ alive[f].status = s
        /\ \A f \in Frame : alive[f] \in [page : Page, evictable : BOOLEAN, status : {"mru", "mfu"}]
    BY FirstFrames
  <1>3. /\ mru \in Seq(Frame) /\ mfu \in Seq(Frame) /\ IsInjective(mru) /\ IsInjective(mfu)
        /\ Range(mru) = {f \in DOMAIN alive : alive[f].status = "mru"}
        /\ Range(mfu) = {f \in DOMAIN alive : alive[f].status = "mfu"}
        /\ Len(mru) <= NumFrames /\ Len(mru) + Len(mfu) <= 2 * NumFrames
    <2>1. CASE s = "mru" /\ mru = Downward /\ mfu = <<>>
      BY <1>1, <1>2, <2>1, DownwardLists
    <2>2. CASE s = "mfu" /\ mfu = Downward /\ mru = <<>>
      BY <1>1, <1>2, <2>2, DownwardLists
    <2> QED
      BY <2>1, <2>2
  <1>4. ArcP!TypeOK
    <2>1. 0 \in 0..MaxTarget /\ curr_size \in Int
      BY <1>1
    <2> QED
      BY <1>1, <1>2, <1>3, <2>1 DEF ArcP!TypeOK
  <1>5. ArcP!Placed /\ ArcP!Remembered
    BY <1>1, <1>3 DEF ArcP!Placed, ArcP!Remembered, ArcP!Range, ArcP!IsInjective, Range, IsInjective
  <1>6. ArcP!OnePlace
    BY <1>1, <1>2 DEF ArcP!OnePlace, ArcP!Range, Range
  <1>7. ArcP!ArcLimits
    <2>1. Len(mru) \in Nat /\ Len(mfu) \in Nat
      BY <1>3
    <2> QED
      BY <1>1, <1>3, <2>1 DEF ArcP!ArcLimits
  <1>8. ArcP!Counted
    <2>1. ArcP!Evictables = IF e THEN Frame ELSE {}
      BY <1>2 DEF ArcP!Evictables
    <2>2. ArcP!Cardinality(ArcP!Evictables) = Cardinality(ArcP!Evictables)
      BY DEF ArcP!Cardinality, Cardinality
    <2> QED
      BY <2>1, <2>2, FramesCounted, FS_EmptySet DEF ArcP!Counted
  <1> QED
    BY <1>4, <1>5, <1>6, <1>7, <1>8 DEF ArcP!Inv

(* The invariant holds of an empty pool and of a warm one. *)
LEMMA InitInv == MCInit => Inv
  <1> SUFFICES ASSUME MCInit PROVE Inv
    OBVIOUS
  <1>1. Quiet /\ serial \in BOOLEAN /\ disk = [p \in Page |-> IF p = 1 THEN d2 ELSE d1]
    BY DEF MCInit
  <1>2. /\ guards = {} /\ latch = NoThread /\ undefined = FALSE /\ failures = 0
        /\ lost = {} /\ unsaved = {} /\ deleted = {} /\ DOMAIN job = Thread
        /\ pc \in [Thread -> Labels] /\ \A t \in Thread : pc[t] = "idle"
    BY <1>1 DEF Quiet, Labels
  <1>3. "idle" \notin Bringing /\ "idle" \notin Holding
    BY DEF Bringing, Holding, Evictings, Cleaned
  <1>4. disk \in [Page -> Data]
    BY <1>1, UserAssumption
  <1>5. failures \in 0..MaxFailures
    BY <1>2, PoolAssumption
  <1>6. \A t \in Thread : JobOk(t)
    BY <1>2 DEF JobOk, Holding, Evictings, Cleaned, Fetching, Accessing, Guarded, Dropping
  <1>7. \A t \in Thread : pc[t] # "store" /\ pc[t] # "link"
    BY <1>2
  <1>8. CASE serial /\ Cold
    <2>1. /\ page_table = <<>> /\ DOMAIN page_table = {} /\ Range(page_table) = {}
          /\ free_frames = [i \in 1..NumFrames |-> i - 1]
          /\ frame = [f \in Frame |-> Reset] /\ Arc!Init
      BY <1>8 DEF Cold, Range
    <2>2. free_frames \in Seq(Frame) /\ IsInjective(free_frames) /\ Range(free_frames) = Frame
      <3>1. NumFrames \in Nat /\ Frame = 0..(NumFrames - 1)
        BY PoolAssumption DEF Frame, Arc!Frame
      <3>2. free_frames \in Seq(Frame) /\ IsInjective(free_frames)
        BY <2>1, <3>1 DEF IsInjective
      <3>3. ASSUME NEW f \in Frame PROVE f \in Range(free_frames)
        <4>1. f + 1 \in DOMAIN free_frames /\ free_frames[f + 1] = f
          BY <2>1, <3>1
        <4> QED
          BY <4>1 DEF Range
      <3>4. Range(free_frames) \subseteq Frame
        BY <2>1, <3>1 DEF Range
      <3> QED
        BY <3>2, <3>3, <3>4
    <2>3. frame \in [Frame -> FrameRecord]
      <3>1. Reset \in FrameRecord
        BY PoolAssumption DEF Reset, Zero, FrameRecord
      <3> QED
        BY <2>1, <3>1
    <2>4. Typed
      BY <1>1, <1>2, <1>4, <1>5, <2>1, <2>2, <2>3 DEF Typed, TypeOK, FrameRecord
    <2>5. ArcP!Inv
      BY <2>1, SameOperations, ArcP!InitInv, PoolAssumption DEF ArcP!ArcAssumption
    <2>6. Users
      BY <1>2, <1>3, <1>8 DEF Users
    <2>7. Accounts
      BY <1>2, <1>3, <2>1, <2>2 DEF Accounts, Free
    <2>8. Tracked
      <3>1. DOMAIN alive = {}
        BY <2>1 DEF Arc!Init
      <3> QED
        BY <1>2, <2>1, <3>1 DEF Tracked
    <2>9. Saved
      BY <1>7, <2>1 DEF Saved
    <2> QED
      BY <1>2, <1>6, <2>4, <2>5, <2>6, <2>7, <2>8, <2>9 DEF Inv
  <1>9. CASE (serial /\ Shared) \/ (~serial /\ Warm)
    <2>1. /\ page_table = [p \in FirstPages |-> p] /\ free_frames = <<>>
          /\ frame = [f \in Frame |-> [pin |-> -1, dirty |-> FALSE, data |-> disk[f]]]
          /\ \E e \in BOOLEAN, s \in {"mru", "mfu"} :
               alive = [f \in Frame |-> [page |-> f, evictable |-> e, status |-> s]]
      BY <1>9 DEF Shared, Warm
    <2>2. /\ DOMAIN page_table = Frame /\ \A f \in Frame : page_table[f] = f /\ f \in Page
          /\ Frame = FirstPages /\ DOMAIN alive = Frame /\ \A f \in Frame : alive[f].page = f
      BY <2>1, FirstFrames
    <2>3. /\ frame \in [Frame -> FrameRecord]
          /\ \A f \in Frame : frame[f].data = disk[f]
      <3>1. \A f \in Frame : [pin |-> -1, dirty |-> FALSE, data |-> disk[f]] \in FrameRecord
        BY <1>4, <2>2 DEF FrameRecord
      <3> QED
        BY <2>1, <3>1
    <2>4. Typed
      <3>1. /\ free_frames \in Seq(Frame) /\ IsInjective(free_frames) /\ Range(free_frames) = {}
        BY <2>1 DEF IsInjective, Range
      <3>2. DOMAIN page_table \subseteq Page /\ Range(page_table) \subseteq Frame
        BY <2>2 DEF Range
      <3> QED
        BY <1>1, <1>2, <1>4, <1>5, <2>3, <3>1, <3>2 DEF Typed, TypeOK, FrameRecord
    <2>5. ArcP!Inv
      <3>1. CASE Shared
        BY <3>1, ArcFilled DEF Shared, Downward
      <3>2. CASE Warm
        BY <3>2, ArcFilled DEF Warm, Downward
      <3> QED
        BY <1>9, <3>1, <3>2
    <2>6. Users
      BY <1>2, <1>3, <2>2 DEF Users
    <2>7. Accounts
      <3>1. Free = {}
        BY <2>1 DEF Free, Range
      <3> QED
        BY <1>2, <1>3, <2>2, <3>1 DEF Accounts
    <2>8. Tracked
      BY <1>2, <2>2 DEF Tracked, Linked
    <2>9. Saved
      BY <1>7, <2>2, <2>3 DEF Saved
    <2> QED
      BY <1>2, <1>6, <2>4, <2>5, <2>6, <2>7, <2>8, <2>9 DEF Inv
  <1> QED
    BY <1>8, <1>9 DEF MCInit

-----------------------------------------------------------------------------
(* A step of a call that was made. *)
LEMMA ContinueKeeps ==
  ASSUME Inv, NEW t \in Thread, Company(t), Continue(t), serial' = serial
  PROVE  Inv'
  BY HitKeeps, RecordAccessKeeps, PinKeeps, SetUnevictableKeeps, LockFrameKeeps,
     TakeFreeKeeps, NothingToEvictKeeps,
     EvictKeeps, EvictFlushKeeps, EvictWriteKeeps, EvictUnpinKeeps, EvictEraseKeeps,
     LoadKeeps, LinkKeeps,
     StoreKeeps, FlushKeeps, FlushWriteKeeps,
     UnpinKeeps, DropEvictableKeeps, UnlockKeeps, AssignKeeps,
     FlushAllWriteKeeps, FlushAllUnpinKeeps, FlushAllThrowsKeeps
  DEF Continue

(* A request that fails. *)
LEMMA FaultKeeps ==
  ASSUME Inv, NEW t \in Thread, Company(t), serial, Fault(t), serial' = serial
  PROVE  Inv'
  BY LoadFailsKeeps, EvictWriteFailsKeeps, FlushWriteFailsKeeps, FlushAllWriteFailsKeeps DEF Fault

(* Every step of supported users. *)
LEMMA NextKeeps == Inv /\ MCNext => Inv'
  <1> SUFFICES ASSUME Inv, MCNext PROVE Inv'
    OBVIOUS
  <1>1. serial' = serial
    BY DEF MCNext
  <1>2. PICK t \in Thread :
          /\ Company(t)
          /\ \/ Continue(t) \/ DropGuard(t) \/ UseGuard(t) \/ FlushAll(t)
             \/ serial /\ Fault(t)
             \/ \E g \in Mine(t), id \in Variables : MoveGuard(t, g, id)
             \/ UseInvalid(t)
             \/ \E p \in Page : \/ MayAsk(t, p, "read") /\ CheckedReadPage(t, p)
                                \/ MayAsk(t, p, "write") /\ (CheckedWritePage(t, p) \/ FlushPage(t, p))
             \/ \E p \in Page : serial /\ (\A g \in guards : g.page # p) /\ DeletePage(t, p)
    BY DEF MCNext, Company
  <1>3. CASE Continue(t)
    BY <1>1, <1>2, <1>3, ContinueKeeps
  <1>4. CASE DropGuard(t)
    BY <1>1, <1>2, <1>4, CallDropKeeps DEF DropGuard
  <1>5. CASE UseGuard(t)
    BY <1>1, <1>2, <1>5, GetDataMutKeeps, CallFlushKeeps DEF UseGuard
  <1>6. CASE FlushAll(t)
    BY <1>1, <1>2, <1>6, FlushAllKeeps
  <1>7. CASE serial /\ Fault(t)
    BY <1>1, <1>2, <1>7, FaultKeeps
  <1>8. CASE \E g \in Mine(t), id \in Variables : MoveGuard(t, g, id)
    BY <1>1, <1>2, <1>8, MoveGuardKeeps
  <1>9. CASE UseInvalid(t)
    BY <1>1, <1>9, UseInvalidKeeps
  <1>10. CASE \E p \in Page : \/ MayAsk(t, p, "read") /\ CheckedReadPage(t, p)
                              \/ MayAsk(t, p, "write") /\ (CheckedWritePage(t, p) \/ FlushPage(t, p))
    <2>1. PICK p \in Page, mode \in Mode, op \in {"get", "flush"} :
            MayAsk(t, p, mode) /\ GetPage(t, op, p, mode)
      BY <1>10 DEF CheckedReadPage, CheckedWritePage, FlushPage, Mode
    <2> QED
      BY <1>1, <1>2, <2>1, GetPageKeeps
  <1>11. CASE \E p \in Page : serial /\ (\A g \in guards : g.page # p) /\ DeletePage(t, p)
    BY <1>1, <1>2, <1>11, DeletePageKeeps
  <1> QED
    BY <1>2, <1>3, <1>4, <1>5, <1>6, <1>7, <1>8, <1>9, <1>10, <1>11

(* The pool's invariant holds for any threads, pages, frames and bytes.    *)
THEOREM Invariance == MCSpec => []Inv
  <1>1. Inv /\ [MCNext \/ (Over /\ UNCHANGED serial)]_MCVars => Inv'
    <2> SUFFICES ASSUME Inv, [MCNext \/ (Over /\ UNCHANGED serial)]_MCVars PROVE Inv'
      OBVIOUS
    <2>1. CASE MCNext
      BY <2>1, NextKeeps
    <2>2. CASE UNCHANGED vars /\ UNCHANGED serial
      BY <2>2, StutterKeeps DEF vars, pool
    <2> QED
      BY <2>1, <2>2 DEF Over, MCVars
  <1> QED
    BY InitInv, <1>1, PTL DEF MCSpec

-----------------------------------------------------------------------------
(* Every variable of the pool keeps its type. *)
THEOREM TypesHold == MCSpec => []TypeOK
  BY Invariance, PTL DEF Inv, Typed


(* A set with at most one member. *)
LEMMA CountOne ==
  ASSUME NEW S, \A x, y \in S : x = y
  PROVE  Cardinality(S) = IF S = {} THEN 0 ELSE 1
  <1>1. CASE S = {}
    BY <1>1, FS_EmptySet
  <1>2. CASE S # {}
    <2>1. PICK x \in S : TRUE
      BY <1>2
    <2>2. S = {x}
      BY <2>1
    <2> QED
      BY <1>2, <2>2, FS_Singleton
  <1> QED
    BY <1>1, <1>2

(* Two calls never hold frames at once. *)
LEMMA OneHolder ==
  ASSUME Inv, NEW t \in Thread, NEW u \in Thread, pc[t] \in Holding, pc[u] \in Holding
  PROVE  t = u
  <1>1. pc[t] \in Bringing /\ pc[t] # "idle" /\ pc[u] # "idle"
    BY DEF Bringing, Holding, Evictings, Cleaned
  <1>2. Users
    BY DEF Inv
  <1> QED
    BY <1>1, <1>2 DEF Users

(* No frame is handed out twice, and none is lost but by a read that has   *)
(* failed; between calls the replacer knows the resident pages.            *)
THEOREM NoFrameLostOrShared == MCSpec => []FramesAccounted
  <1>1. ASSUME Inv, NEW f \in Frame
        PROVE  LET entries == {e \in Entries : e[2] = f}
                   holding == {t \in Thread : f \in Held(t)}
               IN IF \E t \in holding : Evicting(t)
                  THEN /\ Cardinality(entries) = 1 /\ Cardinality(holding) = 1
                       /\ f \notin Range(free_frames)
                  ELSE Cardinality(entries) + Cardinality(holding)
                         + Cardinality({i \in DOMAIN free_frames : free_frames[i] = f})
                         = IF f \in lost THEN 0 ELSE 1
    <2> DEFINE entries == {e \in Entries : e[2] = f}
               holding == {t \in Thread : f \in Held(t)}
               places == {i \in DOMAIN free_frames : free_frames[i] = f}
    <2>1. Accounts /\ TypeOK
      BY <1>1 DEF Inv, Typed
    <2>2. \A t \in Thread : f \in Held(t) <=> pc[t] \in Holding /\ job[t].frame = f
      BY DEF Held, Holding, Evictings, Cleaned
    <2>3. \A t \in Thread : Evicting(t) <=> pc[t] \in Evictings
      BY DEF Evicting, Evictings, Cleaned
    <2>4. /\ Cardinality(entries) = IF entries = {} THEN 0 ELSE 1
          /\ entries = {} <=> \A p \in DOMAIN page_table : page_table[p] # f
      <3>1. \A d, e \in entries : d = e
        BY <2>1 DEF Entries, Accounts
      <3>2. ASSUME NEW p \in DOMAIN page_table, page_table[p] = f PROVE <<p, f>> \in entries
        BY <3>2 DEF Entries
      <3>3. \A e \in entries : \E p \in DOMAIN page_table : page_table[p] = f
        BY DEF Entries
      <3> HIDE DEF entries
      <3> QED
        BY <3>1, <3>2, <3>3, CountOne
    <2>5. Cardinality(holding) = IF holding = {} THEN 0 ELSE 1
      <3>1. \A t, u \in holding : t = u
        BY <1>1, <2>2, OneHolder
      <3> HIDE DEF holding
      <3> QED
        BY <3>1, CountOne
    <2>6. /\ Cardinality(places) = IF places = {} THEN 0 ELSE 1
          /\ places = {} <=> f \notin Free
      <3>1. \A i, j \in places : i = j
        BY <2>1 DEF TypeOK, IsInjective
      <3>2. places = {} <=> f \notin Free
        BY DEF Free, Range
      <3> HIDE DEF places
      <3> QED
        BY <3>1, <3>2, CountOne
    <2>7. ASSUME NEW t \in holding
          PROVE  /\ f \notin Free /\ f \notin lost
                 /\ Evicting(t) => entries # {}
                 /\ ~Evicting(t) => entries = {}
      <3>1. pc[t] \in Holding /\ job[t].frame = f /\ HolderOk(t)
        BY <2>1, <2>2 DEF Accounts
      <3> HIDE DEF entries
      <3> QED
        BY <2>3, <2>4, <3>1 DEF HolderOk, Linked
    <2>8. \/ f \in Free \/ f \in lost \/ entries # {} \/ holding # {}
      <3>1. \/ f \in Free \/ f \in lost
            \/ \E p \in DOMAIN page_table : page_table[p] = f
            \/ \E t \in Thread : pc[t] \in Holding /\ job[t].frame = f
        BY <2>1 DEF Accounts
      <3>2. (\E t \in Thread : pc[t] \in Holding /\ job[t].frame = f) => holding # {}
        BY <2>2
      <3> HIDE DEF entries, holding
      <3> QED
        BY <2>4, <3>1, <3>2
    <2>9. /\ entries # {} => f \notin Free /\ f \notin lost
          /\ f \in Free => f \notin lost
      <3> HIDE DEF entries
      <3> QED
        BY <2>1, <2>4 DEF Accounts
    <2> HIDE DEF entries, holding, places
    <2>10. CASE \E t \in holding : Evicting(t)
      <3>1. entries # {} /\ holding # {} /\ f \notin Free
        BY <2>7, <2>10
      <3>2. Cardinality(entries) = 1 /\ Cardinality(holding) = 1 /\ f \notin Range(free_frames)
        BY <2>4, <2>5, <3>1 DEF Free
      <3> QED
        BY <2>10, <3>2 DEF entries, holding
    <2>11. CASE ~(\E t \in holding : Evicting(t))
      <3>1. Cardinality(entries) + Cardinality(holding) + Cardinality(places)
              = IF f \in lost THEN 0 ELSE 1
        <4>1. CASE holding # {}
          <5>1. f \notin Free /\ f \notin lost /\ entries = {}
            BY <2>7, <2>11, <4>1
          <5> QED
            BY <2>4, <2>5, <2>6, <4>1, <5>1
        <4>2. CASE holding = {}
          BY <2>4, <2>5, <2>6, <2>8, <2>9, <4>2
        <4> QED
          BY <4>1, <4>2
      <3> QED
        BY <2>11, <3>1 DEF entries, holding, places
    <2> QED
      BY <2>10, <2>11
  <1>2. ASSUME Inv, Resting
        PROVE  LET known == {<<alive[f].page, f>> : f \in DOMAIN alive} IN
               /\ known \subseteq Entries
               /\ \A e \in Entries \ known : e[1] \in unsaved /\ ~frame[e[2]].dirty
    <2> DEFINE known == {<<alive[f].page, f>> : f \in DOMAIN alive}
    <2>1. Running /\ Tracked /\ \A t \in Thread : pc[t] = "idle"
      BY <1>2 DEF Resting, Inv
    <2>2. known \subseteq Entries
      <3>1. ASSUME NEW f \in DOMAIN alive PROVE <<alive[f].page, f>> \in Entries
        BY <1>2, <2>1, AliveLinked DEF Entries
      <3> QED
        BY <3>1
    <2>3. ASSUME NEW p \in DOMAIN page_table, <<p, page_table[p]>> \notin known
          PROVE  p \in unsaved /\ ~frame[page_table[p]].dirty
      <3>1. page_table[p] \notin DOMAIN alive
        <4>1. SUFFICES ASSUME page_table[p] \in DOMAIN alive PROVE FALSE
          OBVIOUS
        <4>2. alive[page_table[p]].page = p
          BY <1>2, <2>1, <4>1, AliveLinked, FramesOfPages
        <4> QED
          BY <2>3, <4>1, <4>2
      <3> QED
        BY <2>1, <3>1 DEF Tracked, Evictings, Cleaned
    <2>4. ASSUME NEW e \in Entries \ known PROVE e[1] \in unsaved /\ ~frame[e[2]].dirty
      <3>1. PICK p \in DOMAIN page_table : e = <<p, page_table[p]>>
        BY DEF Entries
      <3> QED
        BY <2>3, <3>1
    <2> QED
      BY <2>2, <2>4
  <1>3. Inv => FramesAccounted
    BY <1>1, <1>2 DEF FramesAccounted
  <1> QED
    BY <1>3, Invariance, PTL

(* Between the calls of serial users a clean resident page is on disk,     *)
(* unless a write of it has failed.                                        *)
THEOREM CleanIsSaved == MCSpec => []CleanPagesSaved
  <1>1. ASSUME Inv, serial, Resting, NEW p \in DOMAIN page_table
        PROVE  \/ frame[page_table[p]].dirty /\ \A g \in guards : g.page = p => IsDirty(g)
               \/ frame[page_table[p]].data = disk[p] \/ p \in unsaved
    <2>1. Running /\ Saved /\ \A t \in Thread : pc[t] = "idle"
      BY <1>1 DEF Resting, Inv
    <2>2. \/ frame[page_table[p]].dirty
          \/ frame[page_table[p]].data = disk[p] \/ p \in unsaved
      BY <2>1 DEF Saved, Writing
    <2>3. \A g \in guards : g.page = p => g.frame = page_table[p]
      BY <1>1, <2>1, MineKnown, GuardLinked
    <2> QED
      BY <2>2, <2>3 DEF IsDirty
  <1>2. Inv => CleanPagesSaved
    BY <1>1 DEF CleanPagesSaved
  <1> QED
    BY <1>2, Invariance, PTL
-----------------------------------------------------------------------------
(***************************************************************************)
(* The pool under its users implements PageCells.                          *)
(***************************************************************************)

(* What the refinement needs beside the pool's invariant.                  *)

(* Nobody is bringing in a page that was deleted. *)
Asking == {"hit"} \cup Fetching \cup Bringing
Asks(t) == pc[t] \in Asking => job[t].page \notin deleted

(* A call goes through guards of its own thread, which are alive until it  *)
(* drops them; an assignment drops another guard than the one it moves.    *)
Assigning(t) == pc[t] \in Dropping \cup {"assign"} /\ job[t].op = "assign"
Owns(t) ==
  /\ pc[t] \in Guarded => job[t].guard \in Mine(t)
  /\ Assigning(t) => job[t].from \in Mine(t) /\ job[t].from # job[t].guard
  /\ pc[t] = "store" => job[t].guard.mode = "write"

Owners == \A t \in Thread : Asks(t) /\ Owns(t)

(* Where a step of thread t leaves the guards of the others. *)
OthersKeep(t) == \A g \in guards : g.thread # t => g \in guards'

(* The guards of the others, and what they ask for, are not t's to take.   *)
LEMMA OwnersKept ==
  ASSUME Owners, NEW t \in Thread, Others(t), OthersKeep(t), deleted' = deleted,
         Asks(t)', Owns(t)'
  PROVE  Owners'
  <1>1. ASSUME NEW u \in Thread \ {t} PROVE Asks(u)' /\ Owns(u)'
    <2>1. pc'[u] = pc[u] /\ job'[u] = job[u] /\ Asks(u) /\ Owns(u)
      BY DEF Others, Owners
    <2>2. Asks(u)'
      BY <2>1 DEF Asks
    <2>3. \A g \in Mine(u) : g \in Mine(u)'
      BY DEF OthersKeep, Mine
    <2> QED
      BY <2>1, <2>2, <2>3 DEF Owns, Assigning
  <1> QED
    BY <1>1 DEF Owners

(* A step that goes to a label where the call needs no more than it did. *)
LEMMA CallGoesOn ==
  ASSUME Owners, NEW t \in Thread, NEW l \in Labels \ {"store"}, Typed, Goto(t, l, job[t]),
         guards' = guards, deleted' = deleted,
         l \in Asking => pc[t] \in Asking,
         l \in Guarded => pc[t] \in Guarded,
         l \in Dropping \cup {"assign"} /\ job[t].op = "assign" => Assigning(t)
  PROVE  Owners'
  <1>1. pc'[t] = l /\ job'[t] = job[t] /\ Others(t)
    BY Going
  <1>2. Asks(t) /\ Owns(t)
    BY DEF Owners
  <1>3. Asks(t)' /\ Owns(t)'
    BY <1>1, <1>2 DEF Asks, Owns, Assigning, Mine
  <1>4. OthersKeep(t)
    BY DEF OthersKeep
  <1> QED
    BY <1>1, <1>3, <1>4, OwnersKept

(* The labels at which a call needs neither a page nor a guard. *)
LEMMA Unneeding ==
  /\ {"idle", "flush_all"} \subseteq Labels
  /\ {"idle", "flush_all"} \cap (Asking \cup Guarded \cup Dropping \cup {"assign"}) = {}
  /\ Asking \subseteq Labels /\ Asking \cap (Guarded \cup Dropping \cup {"assign"}) = {}
  /\ Dropping \subseteq Guarded /\ "store" \in Guarded \ Dropping /\ "store" \notin Asking
  /\ Guarded \subseteq Labels /\ "assign" \in Labels \ (Guarded \cup Asking)
  BY DEF Labels, Asking, Fetching, Accessing, Bringing, Holding, Evictings, Cleaned, Guarded, Dropping

(* A step that ends a call, or leads to the writes of a batch. *)
LEMMA CallNeedsNothing ==
  ASSUME Owners, NEW t \in Thread, NEW l \in {"idle", "flush_all"}, NEW j, Typed, Goto(t, l, j),
         OthersKeep(t), deleted' = deleted
  PROVE  Owners'
  <1>1. pc'[t] = l /\ Others(t)
    BY Going, Unneeding
  <1>2. Asks(t)' /\ Owns(t)'
    BY <1>1, Unneeding DEF Asks, Owns, Assigning
  <1> QED
    BY <1>1, <1>2, OwnersKept

(* A step of a call that asks for a page and keeps asking for it. *)
LEMMA CallAsks ==
  ASSUME Owners, NEW t \in Thread, NEW l \in Asking, NEW j, Typed, Goto(t, l, j),
         guards' = guards, deleted' = deleted, j.page \notin deleted
  PROVE  Owners'
  <1>1. pc'[t] = l /\ job'[t] = j /\ Others(t)
    BY Going, Unneeding
  <1>2. Asks(t)' /\ Owns(t)' /\ OthersKeep(t)
    BY <1>1, Unneeding DEF Asks, Owns, Assigning, OthersKeep
  <1> QED
    BY <1>1, <1>2, OwnersKept

(* A step into a call of one of the thread's guards. *)
LEMMA CallGuards ==
  ASSUME Owners, NEW t \in Thread, NEW l \in Guarded, NEW j, Typed, Goto(t, l, j),
         guards \subseteq guards', deleted' = deleted,
         j.guard \in guards', j.guard.thread = t,
         l = "store" => j.guard.mode = "write",
         j.op # "assign" \/ (j.from \in Mine(t) /\ j.from # j.guard)
  PROVE  Owners'
  <1>1. pc'[t] = l /\ job'[t] = j /\ Others(t)
    BY Going, Unneeding
  <1>2. Asks(t)' /\ OthersKeep(t)
    BY <1>1, Unneeding DEF Asks, OthersKeep
  <1>3. Owns(t)'
    BY <1>1 DEF Owns, Assigning, Mine
  <1> QED
    BY <1>1, <1>2, <1>3, OwnersKept

(* The guard that a call drops is gone, and an assignment goes on. *)
LEMMA GuardDropped ==
  ASSUME Owners, NEW t \in Thread, Typed, pc[t] \in Dropping, Dropped(t),
         guards' = guards \ {job[t].guard}, deleted' = deleted
  PROVE  Owners'
  <1>1. Asks(t) /\ Owns(t)
    BY DEF Owners
  <1>2. job[t].guard \in Mine(t)
    BY <1>1, Unneeding DEF Owns
  <1>3. OthersKeep(t)
    BY <1>2 DEF OthersKeep, Mine
  <1>4. CASE job[t].op = "assign"
    <2>1. pc'[t] = "assign" /\ job'[t] = job[t] /\ Others(t)
      BY <1>4, Unneeding, Going DEF Dropped
    <2>2. job[t].from \in Mine(t) /\ job[t].from # job[t].guard
      BY <1>1, <1>4 DEF Owns, Assigning
    <2>3. Asks(t)' /\ Owns(t)'
      BY <2>1, <2>2, Unneeding DEF Asks, Owns, Assigning, Mine
    <2> QED
      BY <1>3, <2>1, <2>3, OwnersKept
  <1>5. CASE job[t].op # "assign"
    BY <1>3, <1>5, CallNeedsNothing DEF Dropped, Return
  <1> QED
    BY <1>4, <1>5

(* Nothing that a call needs is changed. *)
LEMMA OwnersStay == Owners /\ UNCHANGED <<pc, job, guards, deleted>> => Owners'
  BY DEF Owners, Asks, Owns, Assigning, Mine

-----------------------------------------------------------------------------
(* Owners is an invariant: one lemma for the steps of a call that fetches  *)
(* a page, one for those through guards, one for those of the whole pool.  *)

(* A new call asks for a page that was not deleted. *)
LEMMA GetPageOwns ==
  ASSUME Inv, Owners, NEW t \in Thread, NEW p, NEW op, NEW mode,
         MayAsk(t, p, mode), GetPage(t, op, p, mode)
  PROVE  Owners'
  <1> DEFINE j == [op |-> op, page |-> p, mode |-> mode]
  <1>1. PICK l \in {"hit", "take", "evict"} : Goto(t, l, j)
    BY DEF GetPage
  <1>2. l \in Asking
    BY DEF Asking, Bringing
  <1>3. p \notin deleted /\ guards' = guards /\ deleted' = deleted
    BY DEF MayAsk, GetPage
  <1> QED
    BY <1>1, <1>2, <1>3, CallAsks DEF Inv

(* A call goes on asking for its page until it has a guard on it. *)
LEMMA FetchingOwns ==
  ASSUME Inv, Owners, NEW t \in Thread,
         \/ Hit(t) \/ RecordAccess(t) \/ Pin(t) \/ SetUnevictable(t)
         \/ TakeFree(t) \/ NothingToEvict(t) \/ Evict(t) \/ EvictFlush(t) \/ EvictWrite(t)
         \/ EvictUnpin(t) \/ EvictErase(t) \/ Load(t) \/ Link(t)
         \/ LoadFails(t) \/ EvictWriteFails(t)
  PROVE  Owners'
  <1>1. Typed /\ Asks(t)
    BY DEF Inv, Owners
  <1>2. guards' = guards /\ deleted' = deleted
    BY DEF Hit, RecordAccess, Pin, SetUnevictable, TakeFree, NothingToEvict, Evict, EvictFlush,
           EvictWrite, EvictUnpin, EvictErase, Load, Link, LoadFails, EvictWriteFails, pool
  <1>3. OthersKeep(t)
    BY <1>2 DEF OthersKeep
  <1>4. CASE \E l \in Asking : Goto(t, l, job[t]) /\ pc[t] \in Asking
    BY <1>1, <1>2, <1>4, CallAsks DEF Asks
  <1>5. CASE Return(t)
    BY <1>1, <1>2, <1>3, <1>5, CallNeedsNothing DEF Return
  <1>6. CASE UNCHANGED <<pc, job>>
    BY <1>2, <1>6, OwnersStay
  <1>7. CASE /\ pc[t] \in Asking
             /\ \E l \in Asking : \E f : Goto(t, l, WithFrame(job[t], f))
    BY <1>1, <1>2, <1>7, CallAsks DEF Asks, WithFrame
  <1>8. CASE /\ pc[t] \in Asking
             /\ \E l \in Asking : \E f, p : Goto(t, l, WithVictim(job[t], f, p))
    BY <1>1, <1>2, <1>8, CallAsks DEF Asks, WithVictim
  <1>9. /\ {"hit", "record_hit", "record_miss", "pin", "unevict_latched", "unevict", "rwlatch"} \subseteq Asking
        /\ {"take", "evict", "load", "link"} \cup Evictings \subseteq Asking
        /\ Evictings = {"evict_flush", "evict_write", "evict_unpin", "evict_erase"}
    BY DEF Asking, Fetching, Accessing, Bringing, Holding, Evictings, Cleaned
  <1>10. CASE Hit(t) \/ TakeFree(t)
    <2>1. CASE Hit(t)
      BY <1>6, <1>7, <1>9, <2>1 DEF Hit, At
    <2>2. CASE TakeFree(t)
      BY <1>6, <1>7, <1>9, <2>2 DEF TakeFree, At
    <2> QED
      BY <1>10, <2>1, <2>2
  <1>11. CASE RecordAccess(t) \/ Pin(t) \/ SetUnevictable(t)
    <2>1. CASE RecordAccess(t)
      BY <1>4, <1>9, <2>1 DEF RecordAccess
    <2>2. CASE Pin(t)
      BY <1>4, <1>9, <2>2 DEF Pin, At
    <2>3. CASE SetUnevictable(t)
      BY <1>4, <1>9, <2>3 DEF SetUnevictable, At
    <2> QED
      BY <1>11, <2>1, <2>2, <2>3
  <1>12. CASE NothingToEvict(t) \/ Evict(t)
    <2>1. CASE NothingToEvict(t)
      BY <1>5, <1>6, <2>1 DEF NothingToEvict
    <2>2. CASE Evict(t)
      BY <1>8, <1>9, <2>2 DEF Evict, At
    <2> QED
      BY <1>12, <2>1, <2>2
  <1>13. CASE EvictFlush(t) \/ EvictWrite(t) \/ EvictUnpin(t) \/ EvictErase(t) \/ Load(t) \/ Link(t)
    BY <1>4, <1>9, <1>13 DEF EvictFlush, EvictWrite, EvictUnpin, EvictErase, Load, Link, At
  <1>14. CASE LoadFails(t) \/ EvictWriteFails(t)
    BY <1>5, <1>14 DEF LoadFails, EvictWriteFails
  <1> QED
    BY <1>10, <1>11, <1>12, <1>13, <1>14

(* A new guard is its thread's; FlushPage goes on with it. *)
LEMMA LockFrameOwns ==
  ASSUME Inv, Owners, NEW t \in Thread, LockFrame(t)
  PROVE  Owners'
  <1> DEFINE g == [thread |-> t, page |-> job[t].page, frame |-> job[t].frame, mode |-> job[t].mode,
                   id |-> CHOOSE n \in Variables : \A h \in Mine(t) : h.id # n]
             j == [op |-> "flush", guard |-> g]
  <1>1. guards' = guards \cup {g} /\ deleted' = deleted /\ Typed
    BY DEF LockFrame, Inv
  <1>2. Goto(t, "flush", j) \/ Return(t)
    BY DEF LockFrame
  <1>3. CASE Goto(t, "flush", j)
    <2>1. j.guard \in guards' /\ j.guard.thread = t /\ j.op # "assign"
      BY <1>1
    <2>2. "flush" \in Guarded /\ guards \subseteq guards'
      BY <1>1 DEF Guarded
    <2> HIDE DEF j
    <2> QED
      BY <1>1, <1>3, <2>1, <2>2, CallGuards
  <1>4. CASE Return(t)
    BY <1>1, <1>4, CallNeedsNothing DEF Return, OthersKeep
  <1> QED
    BY <1>2, <1>3, <1>4

(* A thread begins a call of one of its guards. *)
LEMMA UseGuardOwns ==
  ASSUME Inv, Owners, NEW t \in Thread, NEW g,
         GetDataMut(t, g) \/ CallFlush(t, g) \/ CallDrop(t, g)
  PROVE  Owners'
  <1>1. guards' = guards /\ deleted' = deleted /\ g \in Mine(t) /\ Typed
    BY DEF GetDataMut, CallFlush, CallDrop, pool, Inv
  <1>2. g \in guards' /\ g.thread = t
    BY <1>1 DEF Mine
  <1>3. {"store", "flush", "drop"} \subseteq Guarded
    BY DEF Guarded, Dropping
  <1>4. CASE GetDataMut(t, g)
    <2> DEFINE j == [op |-> "store", guard |-> g]
    <2>1. Goto(t, "store", j) /\ g.mode = "write"
      BY <1>4 DEF GetDataMut
    <2> QED
      BY <1>1, <1>2, <1>3, <2>1, CallGuards
  <1>5. CASE CallFlush(t, g)
    <2> DEFINE j == [op |-> "guard_flush", guard |-> g]
    <2>1. Goto(t, "flush", j)
      BY <1>5 DEF CallFlush
    <2> QED
      BY <1>1, <1>2, <1>3, <2>1, CallGuards
  <1>6. CASE CallDrop(t, g)
    <2> DEFINE j == [op |-> "drop", guard |-> g]
    <2>1. Goto(t, "drop", j)
      BY <1>6 DEF CallDrop
    <2> QED
      BY <1>1, <1>2, <1>3, <2>1, CallGuards
  <1> QED
    BY <1>4, <1>5, <1>6

(* A call through a guard goes on, or returns. *)
LEMMA GuardedOwns ==
  ASSUME Inv, Owners, NEW t \in Thread,
         \/ Store(t) \/ Flush(t) \/ FlushWrite(t) \/ FlushWriteFails(t) \/ Unpin(t)
  PROVE  Owners'
  <1>1. Typed /\ guards' = guards /\ deleted' = deleted /\ OthersKeep(t)
    BY DEF Inv, Store, Flush, FlushWrite, FlushWriteFails, Unpin, OthersKeep
  <1>2. /\ {"store", "flush", "flush_write", "drop", "drop_evictable", "unlock"} \subseteq Guarded
        /\ {"drop", "drop_evictable", "unlock"} \subseteq Dropping
        /\ "flush_write" \notin Dropping \cup {"assign"}
    BY DEF Guarded, Dropping
  <1>3. CASE Return(t)
    BY <1>1, <1>3, CallNeedsNothing DEF Return
  <1>4. CASE \E l \in Guarded \ {"store"} :
               /\ Goto(t, l, job[t]) /\ pc[t] \in Guarded
               /\ l \in Dropping /\ job[t].op = "assign" => Assigning(t)
    BY <1>1, <1>4, CallGoesOn, Unneeding
  <1>5. CASE Store(t)
    BY <1>3, <1>5 DEF Store
  <1>6. CASE Flush(t)
    BY <1>2, <1>4, <1>6 DEF Flush, At
  <1>7. CASE FlushWrite(t) \/ FlushWriteFails(t)
    <2>1. pc[t] = "flush_write" /\ (Return(t) \/ (job[t].op = "flush" /\ Goto(t, "drop", job[t])))
      BY <1>7 DEF FlushWrite, FlushWriteFails, At
    <2> QED
      BY <1>2, <1>3, <1>4, <2>1
  <1>8. CASE Unpin(t)
    <2>1. pc[t] = "drop" /\ \E l \in {"drop_evictable", "unlock"} : Goto(t, l, job[t])
      BY <1>8 DEF Unpin, At
    <2> QED
      BY <1>2, <1>4, <2>1 DEF Assigning
  <1> QED
    BY <1>5, <1>6, <1>7, <1>8

(* The end of a drop. *)
LEMMA DropOwns ==
  ASSUME Inv, Owners, NEW t \in Thread, DropEvictable(t) \/ Unlock(t)
  PROVE  Owners'
  <1>1. /\ Typed /\ deleted' = deleted
        /\ pc[t] \in {"drop_evictable", "unlock"}
        /\ \/ guards' = guards \ {job[t].guard} /\ Dropped(t)
           \/ guards' = guards /\ Goto(t, "unlock", job[t])
    BY DEF DropEvictable, Unlock, At, Inv
  <1>2. {"drop_evictable", "unlock"} \subseteq Dropping \cap (Guarded \ {"store"})
    BY DEF Guarded, Dropping
  <1>3. CASE guards' = guards \ {job[t].guard} /\ Dropped(t)
    BY <1>1, <1>2, <1>3, GuardDropped
  <1>4. CASE guards' = guards /\ Goto(t, "unlock", job[t])
    BY <1>1, <1>2, <1>4, CallGoesOn, Unneeding DEF Assigning
  <1> QED
    BY <1>1, <1>3, <1>4

(* A move takes one of the thread's guards, and drops another one first if *)
(* it must.                                                                *)
LEMMA MoveGuardOwns ==
  ASSUME Inv, Owners, NEW t \in Thread, NEW g, NEW id, MoveGuard(t, g, id)
  PROVE  Owners'
  <1>1. Typed /\ deleted' = deleted /\ g \in Mine(t) /\ id # g.id /\ pc[t] = "idle"
    BY DEF MoveGuard, At, Inv
  <1>2. CASE guards' = Moved(g, id) /\ UNCHANGED <<pc, job>>
    <2>1. OthersKeep(t) /\ Others(t)
      BY <1>1, <1>2 DEF OthersKeep, Moved, Mine, Others
    <2>2. Asks(t)' /\ Owns(t)'
      BY <1>1, <1>2, Unneeding DEF Asks, Owns, Assigning
    <2> QED
      BY <1>1, <2>1, <2>2, OwnersKept
  <1>3. ASSUME NEW h \in Mine(t), h.id = id, guards' = guards,
               Goto(t, "drop", [op |-> "assign", guard |-> h, from |-> g])
        PROVE  Owners'
    <2> DEFINE j == [op |-> "assign", guard |-> h, from |-> g]
    <2>1. j.guard = h /\ j.from = g /\ g # h /\ "drop" \in Guarded
      BY <1>1, <1>3 DEF Guarded, Dropping
    <2>2. h \in guards' /\ h.thread = t
      BY <1>3 DEF Mine
    <2> HIDE DEF j
    <2>3. Goto(t, "drop", j)
      BY <1>3 DEF j
    <2> QED
      BY <1>1, <1>3, <2>1, <2>2, <2>3, CallGuards
  <1> QED
    BY <1>2, <1>3 DEF MoveGuard

(* The guard is in its variable, and the call returns. *)
LEMMA AssignOwns ==
  ASSUME Inv, Owners, NEW t \in Thread, Assign(t)
  PROVE  Owners'
  <1>1. /\ Typed /\ deleted' = deleted /\ Return(t) /\ pc[t] = "assign" /\ JobOk(t) /\ Owns(t)
        /\ guards' = Moved(job[t].from, job[t].guard.id)
    BY DEF Assign, At, Inv, Owners
  <1>2. job[t].op = "assign"
    BY <1>1 DEF JobOk
  <1>3. job[t].from \in Mine(t)
    BY <1>1, <1>2 DEF Owns, Assigning
  <1>4. OthersKeep(t)
    BY <1>1, <1>3 DEF OthersKeep, Moved, Mine
  <1> QED
    BY <1>1, <1>4, CallNeedsNothing DEF Return

(* A flush of all pages goes through no guard. *)
LEMMA FlushAllOwns ==
  ASSUME Inv, Owners, NEW t \in Thread,
         \/ FlushAll(t) \/ FlushAllWrite(t) \/ FlushAllWriteFails(t)
         \/ FlushAllUnpin(t) \/ FlushAllThrows(t)
  PROVE  Owners'
  <1>1. Typed /\ guards' = guards /\ deleted' = deleted /\ OthersKeep(t)
    BY DEF Inv, FlushAll, FlushAllWrite, FlushAllWriteFails, FlushAllUnpin, FlushAllThrows, OthersKeep, pool
  <1>2. \E l \in {"idle", "flush_all"} : \E j : Goto(t, l, j)
    BY DEF FlushAll, FlushAllWrite, FlushAllWriteFails, FlushAllUnpin, FlushAllThrows, Return
  <1> QED
    BY <1>1, <1>2, CallNeedsNothing

(* A page is deleted when nobody asks for one. *)
LEMMA DeletePageOwns ==
  ASSUME Inv, Owners, serial, NEW t \in Thread, NEW p, Company(t), DeletePage(t, p)
  PROVE  Owners'
  <1>1. \A u \in Thread : pc'[u] = "idle"
    BY DEF DeletePage, At, Company, Alone
  <1> QED
    BY <1>1, Unneeding DEF Owners, Asks, Owns, Assigning

(* No step of supported users takes a guard or a page from a call that     *)
(* needs it.                                                               *)
LEMMA OwnersNext == Inv /\ Owners /\ MCNext => Owners'
  <1> SUFFICES ASSUME Inv, Owners, MCNext PROVE Owners'
    OBVIOUS
  <1>1. PICK t \in Thread :
          /\ serial => Alone(t)
          /\ \/ Continue(t) \/ DropGuard(t)
             \/ UseGuard(t) \/ FlushAll(t)
             \/ Fault(t)
             \/ \E g \in Mine(t), id \in Variables : MoveGuard(t, g, id)
             \/ UseInvalid(t)
             \/ \E p \in Page, mode \in {"read", "write"}, op \in {"get", "flush"} :
                  MayAsk(t, p, mode) /\ GetPage(t, op, p, mode)
             \/ serial /\ \E p \in Page : DeletePage(t, p)
    BY DEF MCNext, CheckedReadPage, CheckedWritePage, FlushPage
  <1>2. CASE Continue(t)
    BY <1>2, FetchingOwns, LockFrameOwns, GuardedOwns, DropOwns, AssignOwns, FlushAllOwns DEF Continue
  <1>3. CASE DropGuard(t) \/ UseGuard(t)
    BY <1>3, UseGuardOwns DEF DropGuard, UseGuard
  <1>4. CASE FlushAll(t)
    BY <1>4, FlushAllOwns
  <1>5. CASE Fault(t)
    BY <1>5, FetchingOwns, GuardedOwns, FlushAllOwns DEF Fault
  <1>6. CASE \E g \in Mine(t), id \in Variables : MoveGuard(t, g, id)
    BY <1>6, MoveGuardOwns
  <1>7. CASE UseInvalid(t)
    BY <1>7, OwnersStay DEF UseInvalid, pool
  <1>8. CASE \E p \in Page, mode \in {"read", "write"}, op \in {"get", "flush"} :
               MayAsk(t, p, mode) /\ GetPage(t, op, p, mode)
    BY <1>8, GetPageOwns
  <1>9. CASE serial /\ \E p \in Page : DeletePage(t, p)
    BY <1>1, <1>9, DeletePageOwns DEF Company
  <1> QED
    BY <1>1, <1>2, <1>3, <1>4, <1>5, <1>6, <1>7, <1>8, <1>9

(* Guards stay with the threads that hold them, for any constants. *)
THEOREM Ownership == MCSpec => []Owners
  <1>1. MCInit => Owners
    BY Unneeding DEF MCInit, Quiet, Owners, Asks, Owns, Assigning
  <1>2. Owners /\ Inv /\ [MCNext \/ (Over /\ UNCHANGED serial)]_MCVars => Owners'
    <2>1. UNCHANGED vars => UNCHANGED <<pc, job, guards, deleted>>
      BY DEF vars, pool
    <2> QED
      BY <2>1, OwnersNext, OwnersStay DEF Over, MCVars
  <1> QED
    BY <1>1, <1>2, Invariance, PTL DEF MCSpec

-----------------------------------------------------------------------------
(* The refinement mapping.                                                 *)

(* A guard is a record of five fields. *)
Record(g) == [thread |-> g.thread, page |-> g.page, frame |-> g.frame, mode |-> g.mode, id |-> g.id]
Shaped == \A g \in guards : g = Record(g)

Holders == {Holder(g) : g \in guards}

(* The bytes of a page, wherever they are; a guard on it sees them.        *)
PageBytes(p) == IF p \in DOMAIN page_table THEN frame[page_table[p]].data ELSE disk[p]
SeenByAll == Content = [p \in Page |-> PageBytes(p)]

(* What the cells show of a page is in its frame, or on disk if it has none. *)
LEMMA Seen == Inv /\ Running => SeenByAll
  <1> SUFFICES ASSUME Inv, Running PROVE SeenByAll
    OBVIOUS
  <1>1. ASSUME NEW p \in Page, NEW g \in guards, g.page = p PROVE GetData(g) = PageBytes(p)
    BY <1>1, MineKnown, GuardLinked DEF GetData, PageBytes
  <1>2. ASSUME NEW p \in Page, \E g \in guards : g.page = p
        PROVE  GetData(CHOOSE g \in guards : g.page = p) = PageBytes(p)
    BY <1>1, <1>2
  <1> QED
    BY <1>2 DEF SeenByAll, Content, PageBytes

(* What a step does to the cells.                                          *)
Refines == Cells!Next \/ UNCHANGED Cells!vars

(* The same before and after a step. *)
LEMMA SeenBoth ==
  ASSUME Inv, Running, Inv', Running'
  PROVE  /\ Content = [p \in Page |-> PageBytes(p)]
         /\ Content' = [p \in Page |-> PageBytes(p)']
  <1>1. Inv' /\ Running' => SeenByAll'
    BY Seen, PTL
  <1> QED
    BY <1>1, Seen DEF SeenByAll

(* A step that touches neither guards nor bytes. *)
LEMMA Untouched ==
  ASSUME UNCHANGED <<guards, frame, page_table, disk, unsaved, deleted>>
  PROVE  Refines
  <1>1. Content' = Content
    BY DEF Content, GetData
  <1> QED
    BY <1>1 DEF Refines, Cells!vars

(* The bytes in the frames are what they were. *)
SameData == \A f \in Frame : frame'[f].data = frame[f].data

(* No byte of a page changes. *)
LEMMA ContentStays ==
  ASSUME Inv, Running, Inv', Running', page_table' = page_table, SameData,
         \A p \in Page \ DOMAIN page_table : disk'[p] = disk[p]
  PROVE  Content' = Content
  <1>1. \A p \in DOMAIN page_table : page_table[p] \in Frame
    BY FramesOfPages
  <1>2. \A p \in Page : PageBytes(p)' = PageBytes(p)
    BY <1>1 DEF PageBytes, SameData
  <1> QED
    BY <1>2, SeenBoth

(* Only pins and marks of frames change. *)
LEMMA Unseen ==
  ASSUME Inv, Running, Inv', Running', SameData,
         UNCHANGED <<guards, page_table, disk, unsaved, deleted>>
  PROVE  Refines
  <1>1. Content' = Content
    BY ContentStays
  <1> QED
    BY <1>1 DEF Refines, Cells!vars

(* A write of page p. *)
LEMMA Saves ==
  ASSUME Inv, Running, Inv', Running', NEW p \in DOMAIN page_table,
         disk' = [disk EXCEPT ![p] = frame[page_table[p]].data],
         unsaved' = unsaved \ {p},
         UNCHANGED <<guards, frame, page_table, deleted>>
  PROVE  Refines
  <1>1. p \in Page
    BY FramesOfPages
  <1>2. Content' = Content
    BY ContentStays DEF SameData, Inv, Typed, TypeOK
  <1>3. Content[p] = frame[page_table[p]].data
    BY <1>1, SeenBoth DEF PageBytes
  <1>4. Cells!Save(p)
    BY <1>2, <1>3 DEF Cells!Save
  <1> QED
    BY <1>1, <1>4 DEF Refines, Cells!Next

(* A write of page p that fails. *)
LEMMA FailsToSave ==
  ASSUME NEW p \in Page, unsaved' = unsaved \cup {p},
         UNCHANGED <<guards, frame, page_table, disk, deleted>>
  PROVE  Refines
  <1>1. Content' = Content
    BY DEF Content, GetData
  <1>2. Cells!SaveFails(p)
    BY <1>1 DEF Cells!SaveFails
  <1> QED
    BY <1>2 DEF Refines, Cells!Next

-----------------------------------------------------------------------------
(* Each step is a step of the cells, or none.                              *)

(* Nothing that the cells show is written. *)
LEMMA UntouchedSteps ==
  ASSUME Inv, NEW t \in Thread,
         \/ \E p, op, mode : GetPage(t, op, p, mode)
         \/ Hit(t) \/ RecordAccess(t) \/ SetUnevictable(t) \/ TakeFree(t) \/ NothingToEvict(t)
         \/ Evict(t) \/ LoadFails(t) \/ UseInvalid(t) \/ FlushAllThrows(t)
         \/ \E g : CallFlush(t, g) \/ CallDrop(t, g)
  PROVE  Refines
  <1>1. UNCHANGED <<guards, frame, page_table, disk, deleted>>
    BY DEF GetPage, Hit, RecordAccess, SetUnevictable, TakeFree, NothingToEvict, Evict, LoadFails,
           UseInvalid, FlushAllThrows, CallFlush, CallDrop, pool
  <1>2. unsaved' = unsaved
    BY DEF GetPage, Hit, RecordAccess, SetUnevictable, TakeFree, NothingToEvict, Evict, LoadFails,
           RequestFails, UseInvalid, FlushAllThrows, CallFlush, CallDrop, pool, faults
  <1> QED
    BY <1>1, <1>2, Untouched

(* Pins and marks change, and no bytes. *)
LEMMA UnseenSteps ==
  ASSUME Inv, Inv', NEW t \in Thread,
         \/ Pin(t) \/ EvictFlush(t) \/ EvictUnpin(t) \/ Flush(t) \/ Unpin(t)
         \/ FlushAll(t) \/ FlushAllUnpin(t)
  PROVE  Refines
  <1>1. Running /\ ArcP!Inv /\ frame \in [Frame -> FrameRecord]
    BY DEF Pin, EvictFlush, EvictUnpin, Flush, Unpin, FlushAll, FlushAllUnpin, At,
           Inv, Typed, TypeOK, FrameRecord
  <1>2. UNCHANGED <<guards, page_table, disk, deleted, undefined, unsaved>>
    BY DEF Pin, EvictFlush, EvictUnpin, Flush, Unpin, FlushAll, FlushAllUnpin, faults
  <1>3. fatal' = fatal
    <2>1. CASE UNCHANGED replacer
      BY <1>1, <2>1, Rests DEF ArcKept
    <2>2. ASSUME NEW F, NEW e \in BOOLEAN, Arc!SetEvictables(F, e) PROVE fatal' = fatal
      BY <1>1, <2>2, Sets DEF ArcKept
    <2>3. Pin(t) \/ Flush(t) \/ Unpin(t) => UNCHANGED replacer
      BY DEF Pin, Flush, Unpin
    <2>4. EvictFlush(t) => \E f : Arc!SetEvictable(f, FALSE)
      BY DEF EvictFlush
    <2>5. EvictUnpin(t) => UNCHANGED replacer \/ \E f : Arc!SetEvictable(f, TRUE)
      BY DEF EvictUnpin
    <2>6. FlushAll(t) => \E F : Arc!SetEvictables(F, FALSE)
      BY DEF FlushAll
    <2>7. FlushAllUnpin(t) => \E F : Arc!SetEvictables(F, TRUE)
      BY DEF FlushAllUnpin
    <2>8. ASSUME NEW f, NEW e \in BOOLEAN, Arc!SetEvictable(f, e) PROVE fatal' = fatal
      BY <1>1, <2>8, SetsOne DEF ArcKept
    <2>9. CASE Pin(t) \/ Flush(t) \/ Unpin(t)
      BY <2>1, <2>3, <2>9
    <2>10. CASE EvictFlush(t) \/ EvictUnpin(t)
      BY <2>1, <2>4, <2>5, <2>8, <2>10
    <2>11. CASE FlushAll(t) \/ FlushAllUnpin(t)
      BY <2>2, <2>6, <2>7, <2>11
    <2> QED
      BY <2>9, <2>10, <2>11
  <1>4. Running'
    BY <1>1, <1>2, <1>3 DEF Running
  <1>5. SameData
    <2>1. CASE FlushAll(t) \/ FlushAllUnpin(t)
      <3>1. ASSUME NEW f \in Frame, NEW F,
                   \/ frame'[f] = IF f \in F THEN CleanAndPinned(f) ELSE frame[f]
                   \/ frame'[f] = IF f \in F THEN [frame[f] EXCEPT !.pin = @ - 1] ELSE frame[f]
            PROVE  frame'[f].data = frame[f].data
        BY <1>1, <3>1 DEF CleanAndPinned, FrameRecord
      <3>2. \/ \E F : frame' = [f \in Frame |-> IF f \in F THEN CleanAndPinned(f) ELSE frame[f]]
            \/ \E F : frame' = [f \in Frame |-> IF f \in F THEN [frame[f] EXCEPT !.pin = @ - 1] ELSE frame[f]]
        BY <2>1 DEF FlushAll, FlushAllUnpin
      <3> QED
        BY <3>1, <3>2 DEF SameData
    <2>2. CASE Pin(t) \/ EvictUnpin(t) \/ Unpin(t)
      <3>1. \E g, k : frame' = [frame EXCEPT ![g].pin = k]
        BY <2>2 DEF Pin, EvictUnpin, Unpin
      <3> QED
        BY <1>1, <3>1 DEF SameData, FrameRecord
    <2>3. CASE EvictFlush(t)
      <3>1. \E g : frame' = [frame EXCEPT ![g] = CleanAndPinned(g)]
        BY <2>3 DEF EvictFlush
      <3> QED
        BY <1>1, <3>1 DEF CleanAndPinned, SameData, FrameRecord
    <2>4. CASE Flush(t)
      <3>1. \E g : frame' = [frame EXCEPT ![g].dirty = FALSE]
        BY <2>4 DEF Flush
      <3> QED
        BY <1>1, <3>1 DEF SameData, FrameRecord
    <2> QED
      BY <2>1, <2>2, <2>3, <2>4
  <1> QED
    BY <1>1, <1>2, <1>4, <1>5, Unseen

(* A page comes into a frame that nobody sees, and into the table with the *)
(* bytes that the disk has.                                                *)
LEMMA LoadSteps ==
  ASSUME Inv, Inv', NEW t \in Thread, Company(t), Load(t) \/ Link(t)
  PROVE  Refines
  <1>1. Running /\ serial /\ HolderOk(t) /\ frame \in [Frame -> FrameRecord]
    BY DEF Load, Link, At, Inv, Accounts, Users, Bringing, Holding, Typed, TypeOK, FrameRecord
  <1>2. UNCHANGED <<guards, disk, deleted, undefined, unsaved>> /\ fatal' = fatal
    BY DEF Load, Link, faults, replacer
  <1>3. Running'
    BY <1>1, <1>2 DEF Running
  <1>4. ASSUME NEW p \in Page PROVE PageBytes(p)' = PageBytes(p)
    <2>1. CASE Load(t)
      <3>1. /\ page_table' = page_table
            /\ \A q \in DOMAIN page_table : page_table[q] # job[t].frame
        BY <1>1, <2>1 DEF Load, At, HolderOk, Evictings, Cleaned
      <3>2. \A f \in Frame \ {job[t].frame} : frame'[f] = frame[f]
        BY <1>1, <2>1 DEF Load
      <3> QED
        BY <1>2, <3>1, <3>2, FramesOfPages DEF PageBytes
    <2>2. CASE Link(t)
      <3>1. /\ frame' = frame /\ page_table' = Arc!Enter(page_table, job[t].page, job[t].frame)
            /\ pc[t] = "link"
        BY <2>2 DEF Link, At
      <3>2. job[t].page \notin DOMAIN page_table /\ frame[job[t].frame].data = disk[job[t].page]
        BY <1>1, <3>1 DEF Inv, JobOk, Holding, Saved
      <3> QED
        BY <1>2, <3>1, <3>2 DEF PageBytes, Arc!Enter
    <2> QED
      BY <2>1, <2>2
  <1>5. Content' = Content
    BY <1>1, <1>3, <1>4, SeenBoth
  <1> QED
    BY <1>2, <1>5 DEF Refines, Cells!vars

(* The pool, a guard or a batch writes a page. *)
LEMMA WriteSteps ==
  ASSUME Inv, Inv', NEW t \in Thread, EvictWrite(t) \/ FlushWrite(t) \/ FlushAllWrite(t)
  PROVE  Refines
  <1>1. Running /\ JobOk(t)
    BY DEF EvictWrite, FlushWrite, FlushAllWrite, At, Inv
  <1>2. UNCHANGED <<guards, frame, page_table, deleted, undefined>> /\ fatal' = fatal
    BY DEF EvictWrite, FlushWrite, FlushAllWrite, replacer
  <1>3. Running'
    BY <1>1, <1>2 DEF Running
  <1>4. \E p \in DOMAIN page_table :
          disk' = [disk EXCEPT ![p] = frame[page_table[p]].data] /\ unsaved' = unsaved \ {p}
    <2>1. CASE EvictWrite(t)
      <3>1. job[t].stale \in DOMAIN page_table
        BY <1>1, <2>1, EvictingHas DEF EvictWrite, At, Evictings, Cleaned
      <3> QED
        BY <2>1, <3>1 DEF EvictWrite, Settle
    <2>2. CASE FlushWrite(t)
      <3>1. GuardKnown(job[t].guard)
        BY <1>1, <2>2 DEF FlushWrite, At, JobOk, Guarded
      <3> QED
        BY <1>1, <2>2, <3>1, GuardLinked DEF FlushWrite, Settle
    <2>3. CASE FlushAllWrite(t)
      <3>1. PICK w \in job[t].writes : disk' = [disk EXCEPT ![w[1]] = frame[w[2]].data] /\ Settle(w[1])
        BY <2>3 DEF FlushAllWrite
      <3>2. Knows(w[1], w[2])
        BY <1>1, <2>3 DEF FlushAllWrite, At, JobOk
      <3>3. w[1] \in DOMAIN page_table /\ page_table[w[1]] = w[2]
        BY <1>1, <3>2 DEF Inv, Tracked, Knows, Linked
      <3> QED
        BY <3>1, <3>3 DEF Settle
    <2> QED
      BY <2>1, <2>2, <2>3
  <1> QED
    BY <1>1, <1>2, <1>3, <1>4, Saves

(* Such a write fails. *)
LEMMA FailingSteps ==
  ASSUME Inv, NEW t \in Thread, EvictWriteFails(t) \/ FlushWriteFails(t) \/ FlushAllWriteFails(t)
  PROVE  Refines
  <1>1. Running /\ JobOk(t)
    BY DEF EvictWriteFails, FlushWriteFails, FlushAllWriteFails, At, Inv
  <1>2. UNCHANGED <<guards, frame, page_table, disk, deleted>>
    BY DEF EvictWriteFails, FlushWriteFails, FlushAllWriteFails
  <1>3. \E p \in Page : unsaved' = unsaved \cup {p}
    <2>1. CASE EvictWriteFails(t)
      <3>1. job[t].stale \in Page
        BY <1>1, <2>1, EvictingHas DEF EvictWriteFails, At, Evictings, Cleaned
      <3> QED
        BY <2>1, <3>1 DEF EvictWriteFails, RequestFails
    <2>2. CASE FlushWriteFails(t)
      <3>1. job[t].guard.page \in Page
        BY <1>1, <2>2 DEF FlushWriteFails, At, JobOk, Guarded, GuardKnown, GuardTyped
      <3> QED
        BY <2>2, <3>1 DEF FlushWriteFails, RequestFails
    <2>3. CASE FlushAllWriteFails(t)
      <3>1. PICK w \in job[t].writes : unsaved' = unsaved \cup {w[1]}
        BY <2>3 DEF FlushAllWriteFails, RequestFails
      <3>2. w[1] \in Page
        BY <1>1, <2>3 DEF FlushAllWriteFails, At, JobOk, FlushJob
      <3> QED
        BY <3>1, <3>2
    <2> QED
      BY <2>1, <2>2, <2>3
  <1> QED
    BY <1>2, <1>3, FailsToSave

(* A holder of a write guard says that it will write. *)
LEMMA GetDataMutRefines ==
  ASSUME Inv, Inv', NEW t \in Thread, NEW g, GetDataMut(t, g)
  PROVE  Refines
  <1>1. Running /\ g \in guards /\ g.mode = "write" /\ frame \in [Frame -> FrameRecord]
    BY DEF GetDataMut, At, Mine, Inv, Typed, TypeOK, FrameRecord
  <1>2. /\ UNCHANGED <<guards, page_table, disk, deleted, undefined>> /\ fatal' = fatal
        /\ unsaved' = unsaved \ {g.page} /\ frame' = [frame EXCEPT ![g.frame].dirty = TRUE]
    BY DEF GetDataMut, Settle, replacer
  <1>3. Running' /\ SameData
    BY <1>1, <1>2 DEF Running, SameData, FrameRecord
  <1>4. Content' = Content
    BY <1>1, <1>2, <1>3, ContentStays
  <1>5. Cells!Mark(Holder(g))
    BY <1>1, <1>2, <1>4 DEF Cells!Mark, Holder
  <1> QED
    BY <1>1, <1>5 DEF Refines, Cells!Next

(* The caller's store shows on the page of its guard, and on no other.     *)
LEMMA StoreRefines ==
  ASSUME Inv, Inv', Owners, NEW t \in Thread, Store(t)
  PROVE  Refines
  <1> DEFINE g == job[t].guard
  <1>1. Running /\ pc[t] = "store" /\ frame \in [Frame -> FrameRecord]
    BY DEF Store, At, Inv, Typed, TypeOK, FrameRecord
  <1>2. UNCHANGED <<guards, page_table, disk, deleted, undefined, unsaved>> /\ fatal' = fatal
    BY DEF Store, replacer, faults
  <1>3. Running'
    BY <1>1, <1>2 DEF Running
  <1>4. PICK d \in Data : frame' = [frame EXCEPT ![g.frame].data = d]
    BY DEF Store
  <1>5. g \in guards /\ g.mode = "write"
    BY <1>1, Unneeding DEF Owners, Owns, Mine
  <1>6. /\ g.page \in Page /\ g.page \in DOMAIN page_table /\ g.frame \in Frame
        /\ page_table[g.page] = g.frame
    BY <1>1, <1>5, MineKnown, GuardLinked
  <1> HIDE DEF g
  <1>7. ASSUME NEW p \in Page PROVE PageBytes(p)' = IF p = g.page THEN d ELSE PageBytes(p)
    <2>1. \A f \in Frame : frame'[f].data = IF f = g.frame THEN d ELSE frame[f].data
      BY <1>1, <1>4, <1>6 DEF FrameRecord
    <2> QED
      BY <1>2, <1>6, <2>1, FramesOfPages DEF PageBytes
  <1>8. Content' = [Content EXCEPT ![g.page] = d]
    BY <1>1, <1>3, <1>7, SeenBoth
  <1>9. Cells!Write(Holder(g))
    BY <1>2, <1>5, <1>8 DEF Cells!Write, Holder
  <1> QED
    BY <1>5, <1>9 DEF Refines, Cells!Next

(* The frame of a page is given to another one: the page's bytes are those *)
(* on disk, unless its last write has failed and they are lost.            *)
LEMMA EvictEraseRefines ==
  ASSUME Inv, Inv', NEW t \in Thread, Company(t), EvictErase(t)
  PROVE  Refines
  <1> DEFINE p == job[t].stale
  <1>1. Running /\ pc[t] = "evict_erase" /\ pc[t] \in Cleaned /\ pc[t] \in Evictings
    BY DEF EvictErase, At, Evictings, Cleaned
  <1>2. /\ UNCHANGED <<guards, frame, disk, deleted, undefined>> /\ fatal' = fatal
        /\ unsaved' = unsaved \ {p}
        /\ page_table' = Restrict(page_table, DOMAIN page_table \ {p})
    BY DEF EvictErase, Settle, replacer
  <1>3. /\ serial /\ guards = {} /\ p \in DOMAIN page_table /\ p \in Page
        /\ ~frame[page_table[p]].dirty
    BY <1>1, EvictingHas
  <1>4. Running'
    BY <1>1, <1>2 DEF Running
  <1>5. frame[page_table[p]].data = disk[p] \/ p \in unsaved
    <2>1. ~Writing(t, p)
      BY <1>1 DEF Writing
    <2> QED
      BY <1>1, <1>3, <2>1, SavedWas DEF SavedAt
  <1> HIDE DEF p
  <1>6. \A q \in Page : PageBytes(q)' = IF q = p THEN disk[p] ELSE PageBytes(q)
    BY <1>2, <1>3 DEF PageBytes, Restrict
  <1>7. Content' = [Content EXCEPT ![p] = disk[p]]
    BY <1>1, <1>3, <1>4, <1>6, SeenBoth
  <1>8. CASE p \in unsaved
    <2>1. Cells!Lose(p)
      BY <1>2, <1>3, <1>7, <1>8 DEF Cells!Lose
    <2> QED
      BY <1>3, <2>1 DEF Refines, Cells!Next
  <1>9. CASE p \notin unsaved
    <2>1. Content[p] = disk[p]
      BY <1>1, <1>3, <1>4, <1>5, <1>9, SeenBoth DEF PageBytes
    <2>2. Content' = Content
      BY <1>1, <1>4, <1>7, <2>1, SeenBoth
    <2> QED
      BY <1>2, <1>9, <2>2 DEF Refines, Cells!vars
  <1> QED
    BY <1>8, <1>9

(* A page that is deleted is what the disk has of it; the others keep      *)
(* their frames, even when the replacer ends the process.                  *)
LEMMA DeletePageRefines ==
  ASSUME Inv, NEW t \in Thread, NEW p \in Page, \A g \in guards : g.page # p, DeletePage(t, p)
  PROVE  Refines
  <1>1. Running /\ guards' = guards /\ disk' = disk
    BY DEF DeletePage, At
  <1>2. CASE p \notin DOMAIN page_table \/ frame[page_table[p]].pin # 0
    <2>1. UNCHANGED <<frame, page_table, unsaved, deleted>>
      BY <1>2 DEF DeletePage, faults
    <2> QED
      BY <1>1, <2>1, Untouched
  <1>3. CASE p \in DOMAIN page_table /\ frame[page_table[p]].pin = 0
    <2>1. /\ page_table' = Restrict(page_table, DOMAIN page_table \ {p})
          /\ frame' = [frame EXCEPT ![page_table[p]] = Reset]
          /\ unsaved' = unsaved \ {p} /\ deleted' = deleted \cup {p}
      BY <1>3 DEF DeletePage, Settle, DeletionFails
    <2>2. ASSUME NEW q \in Page
          PROVE  PageBytes(q)' = IF q = p THEN disk[p] ELSE PageBytes(q)
      <3>1. q # p /\ q \in DOMAIN page_table =>
              q \in DOMAIN page_table' /\ page_table'[q] = page_table[q] /\ page_table[q] # page_table[p]
        BY <1>3, <2>1, FramesOfPages DEF Restrict
      <3>2. frame'[page_table[q]] = frame[page_table[q]] \/ page_table[q] = page_table[p]
            \/ q \notin DOMAIN page_table
        BY <2>1, FramesOfPages DEF Inv, Typed, TypeOK
      <3> QED
        BY <1>1, <2>1, <3>1, <3>2 DEF PageBytes, Restrict
    <2>3. ASSUME NEW g \in guards' PROVE frame'[g.frame].data = PageBytes(g.page)'
      <3>1. /\ g \in guards /\ g.page # p /\ g.page \in Page
            /\ g.page \in DOMAIN page_table /\ page_table[g.page] = g.frame
        BY <1>1, MineKnown, GuardLinked
      <3>2. g.frame # page_table[p] /\ g.frame \in Frame
        BY <1>3, <3>1, FramesOfPages
      <3>3. frame'[g.frame] = frame[g.frame]
        BY <2>1, <3>2 DEF Inv, Typed, TypeOK
      <3>4. PageBytes(g.page)' = PageBytes(g.page)
        BY <2>2, <3>1
      <3> QED
        BY <3>1, <3>3, <3>4 DEF PageBytes
    <2>4. Content' = [q \in Page |-> PageBytes(q)']
      <3>1. ASSUME NEW q \in Page, \E g \in guards' : g.page = q
            PROVE  frame'[(CHOOSE g \in guards' : g.page = q).frame].data = PageBytes(q)'
        BY <2>3, <3>1
      <3> QED
        BY <3>1 DEF Content, GetData, PageBytes
    <2>5. Content = [q \in Page |-> PageBytes(q)]
      BY <1>1, Seen DEF SeenByAll
    <2>6. Content' = [Content EXCEPT ![p] = disk[p]]
      BY <2>2, <2>4, <2>5
    <2>7. Cells!Delete(p)
      BY <1>1, <2>1, <2>6 DEF Cells!Delete, Holder
    <2> QED
      BY <2>7 DEF Refines, Cells!Next
  <1> QED
    BY <1>2, <1>3

(* Two guards on a page are on one frame, so what the cells show of them   *)
(* tells them apart.                                                       *)
LEMMA HoldersDiffer ==
  ASSUME Inv, Running, Shaped, NEW g \in guards, NEW h \in guards, Holder(g) = Holder(h)
  PROVE  g = h
  <1>1. g.thread = h.thread /\ g.page = h.page /\ g.mode = h.mode /\ g.id = h.id
    BY DEF Holder
  <1>2. g.frame = h.frame
    BY <1>1, MineKnown, GuardLinked
  <1>3. g = Record(g) /\ h = Record(h)
    BY DEF Shaped
  <1> QED
    BY <1>1, <1>2, <1>3 DEF Record

(* A guard in another variable is a guard, and a holder in that variable. *)
LEMMA MovedGuard ==
  ASSUME NEW g, NEW id, g = Record(g)
  PROVE  /\ [g EXCEPT !.id = id] = Record([g EXCEPT !.id = id])
         /\ Holder([g EXCEPT !.id = id]) = [Holder(g) EXCEPT !.id = id]
         /\ Holder(g).id = g.id /\ [Holder(g) EXCEPT !.id = id].id = id
  <1>1. DOMAIN g = {"thread", "page", "frame", "mode", "id"}
    BY DEF Record
  <1>2. [g EXCEPT !.id = id] =
          [thread |-> g.thread, page |-> g.page, frame |-> g.frame, mode |-> g.mode, id |-> id]
    BY <1>1 DEF Record
  <1>3. [Holder(g) EXCEPT !.id = id] =
          [thread |-> g.thread, page |-> g.page, mode |-> g.mode, id |-> id]
    BY DEF Holder
  <1> QED
    BY <1>2, <1>3 DEF Record, Holder

(* Guards come and go. *)
SameStore == UNCHANGED <<frame, page_table, disk, unsaved, deleted>>

(* Guards alone do not change what a page holds. *)
LEMMA Shows ==
  ASSUME Inv, Running, Inv', Running', SameStore
  PROVE  Content' = Content
  BY ContentStays DEF SameStore, SameData, Inv, Typed, TypeOK

(* A guard goes. *)
LEMMA Releases ==
  ASSUME Inv, Running, Inv', Running', Shaped, SameStore, NEW g \in guards, guards' = guards \ {g}
  PROVE  Refines
  <1>1. {Holder(h) : h \in guards'} = {Holder(h) : h \in guards} \ {Holder(g)}
    BY HoldersDiffer
  <1>2. Cells!Release(Holder(g))
    BY <1>1, Shows DEF Cells!Release, SameStore
  <1> QED
    BY <1>2 DEF Refines, Cells!Next

(* A guard goes into another variable, over one that is no more. *)
LEMMA Moves ==
  ASSUME Inv, Running, Inv', Running', Shaped, SameStore,
         NEW g \in guards, NEW id, guards' = Moved(g, id)
  PROVE  Refines
  <1> DEFINE old == Holder(g)
             new == Holder([g EXCEPT !.id = id])
             holders == {Holder(h) : h \in guards}
  <1>1. new = [old EXCEPT !.id = id] /\ new.id = id
    <2>1. g = Record(g)
      BY DEF Shaped
    <2>2. Holder([g EXCEPT !.id = id]) = [Holder(g) EXCEPT !.id = id]
      BY <2>1, MovedGuard, Zenon
    <2>3. [Holder(g) EXCEPT !.id = id].id = id
      BY <2>1, MovedGuard, Zenon
    <2> QED
      BY <2>2, <2>3
  <1>2. {Holder(h) : h \in guards'} = (holders \ {old}) \cup {new}
    BY HoldersDiffer DEF Moved
  <1>3. old \in holders
    OBVIOUS
  <1> HIDE DEF old, new
  <1>4. CASE new \notin holders
    <2>1. Cells!Move(old, new)
      BY <1>1, <1>2, <1>4, Shows DEF Cells!Move, SameStore
    <2> QED
      BY <1>2, <1>3, <1>4, <2>1 DEF Refines, Cells!Next
  <1>5. CASE new \in holders /\ new # old
    <2>1. Cells!Release(old)
      BY <1>2, <1>5, Shows DEF Cells!Release, SameStore
    <2> QED
      BY <1>3, <2>1 DEF Refines, Cells!Next
  <1>6. CASE new = old
    BY <1>2, <1>3, <1>6, Shows DEF Refines, Cells!vars, SameStore
  <1> QED
    BY <1>4, <1>5, <1>6

(* A guard is made when its frame's latch allows it: on a page that is not *)
(* deleted, with no writer beside it.                                      *)
LEMMA LockFrameRefines ==
  ASSUME Inv, Inv', Owners, NEW t \in Thread, LockFrame(t)
  PROVE  Refines
  <1> DEFINE g == [thread |-> t, page |-> job[t].page, frame |-> job[t].frame, mode |-> job[t].mode,
                   id |-> CHOOSE n \in Variables : \A h \in Mine(t) : h.id # n]
             holders == {Holder(h) : h \in guards}
  <1>1. /\ Running /\ pc[t] = "rwlatch" /\ JobOk(t) /\ Asks(t)
        /\ guards' = guards \cup {g}
        /\ \A h \in OnFrame(job[t].frame) : job[t].mode = "read" /\ h.mode = "read"
    BY DEF LockFrame, At, Inv, Owners
  <1>2. SameStore /\ fatal' = fatal /\ undefined' = undefined
    BY DEF LockFrame, SameStore, faults, replacer
  <1>3. Running'
    BY <1>1, <1>2 DEF Running
  <1>4. {Holder(h) : h \in guards'} = holders \cup {Holder(g)}
    BY <1>1
  <1>5. /\ job[t].page \in Page /\ job[t].mode \in Mode /\ job[t].page \notin deleted
        /\ Knows(job[t].page, job[t].frame)
    BY <1>1 DEF JobOk, Asks, Asking, Fetching, Accessing
  <1>6. ASSUME NEW h \in guards, h.page = job[t].page
        PROVE  job[t].mode = "read" /\ h.mode = "read"
    <2>1. h.frame = job[t].frame
      BY <1>1, <1>5, <1>6, MineKnown, GuardLinked DEF Inv, Tracked, Knows, Linked
    <2> QED
      BY <1>1, <2>1 DEF OnFrame
  <1>7. Holder(g).page = job[t].page /\ Holder(g).thread = t /\ Holder(g).mode = job[t].mode
    BY DEF Holder
  <1> HIDE DEF g
  <1>8. CASE Holder(g) \notin holders
    <2>1. \A k \in holders : k.page = job[t].page => job[t].mode = "read" /\ k.mode = "read"
      BY <1>6 DEF Holder
    <2>2. Cells!Acquire(Holder(g))
      BY <1>1, <1>2, <1>3, <1>4, <1>5, <1>7, <2>1, Shows DEF Cells!Acquire, SameStore
    <2> QED
      BY <1>4, <1>8, <2>2 DEF Refines, Cells!Next
  <1>9. CASE Holder(g) \in holders
    BY <1>1, <1>2, <1>3, <1>4, <1>9, Shows DEF Refines, Cells!vars, SameStore
  <1> QED
    BY <1>8, <1>9

(* The end of a drop takes the guard's lock off the page. *)
LEMMA DropRefines ==
  ASSUME Inv, Inv', Owners, Shaped, NEW t \in Thread, DropEvictable(t) \/ Unlock(t)
  PROVE  Refines
  <1>1. /\ Running /\ ArcP!Inv /\ Owns(t) /\ pc[t] \in {"drop_evictable", "unlock"}
        /\ SameStore /\ undefined' = undefined
        /\ guards' = guards \/ guards' = guards \ {job[t].guard}
    BY DEF DropEvictable, Unlock, At, Inv, Owners, SameStore, faults
  <1>2. fatal' = fatal
    <2>1. CASE Unlock(t)
      BY <2>1 DEF Unlock, replacer
    <2>2. CASE DropEvictable(t)
      <3>1. Arc!SetEvictable(job[t].guard.frame, TRUE)
        BY <2>2 DEF DropEvictable
      <3> QED
        BY <1>1, <3>1, SetsOne DEF ArcKept
    <2> QED
      BY <2>1, <2>2
  <1>3. Running'
    BY <1>1, <1>2 DEF Running
  <1>4. job[t].guard \in guards
    BY <1>1, Unneeding DEF Owns, Mine, Guarded, Dropping
  <1>5. CASE guards' = guards
    BY <1>1, <1>5, Untouched DEF SameStore
  <1>6. CASE guards' = guards \ {job[t].guard}
    BY <1>1, <1>3, <1>4, <1>6, Releases
  <1> QED
    BY <1>1, <1>5, <1>6

(* A guard that is moved into another variable is a holder under another   *)
(* name.                                                                   *)
LEMMA MoveRefines ==
  ASSUME Inv, Inv', Owners, Shaped, NEW t \in Thread,
         Assign(t) \/ \E g, id : MoveGuard(t, g, id)
  PROVE  Refines
  <1>1. Running /\ SameStore /\ fatal' = fatal /\ undefined' = undefined
    BY DEF Assign, MoveGuard, At, SameStore, faults, replacer
  <1>2. Running'
    BY <1>1 DEF Running
  <1>3. CASE guards' = guards
    BY <1>1, <1>3, Untouched DEF SameStore
  <1>4. CASE \E g \in guards : \E id : guards' = Moved(g, id)
    BY <1>1, <1>2, <1>4, Moves
  <1>5. CASE Assign(t)
    <2>1. job[t].op = "assign" /\ pc[t] = "assign" /\ Owns(t)
      BY <1>1, <1>5 DEF Assign, At, Inv, JobOk, Owners
    <2>2. job[t].from \in guards
      BY <2>1 DEF Owns, Assigning, Mine
    <2> QED
      BY <1>4, <1>5, <2>2 DEF Assign
  <1>6. CASE \E g, id : MoveGuard(t, g, id)
    BY <1>3, <1>4, <1>6 DEF MoveGuard, Mine
  <1> QED
    BY <1>5, <1>6

-----------------------------------------------------------------------------
(* Every step of supported users is a step of the cells, or none. *)
LEMMA StepRefines == Inv /\ Inv' /\ Owners /\ Shaped /\ MCNext => Refines
  <1> SUFFICES ASSUME Inv, Inv', Owners, Shaped, MCNext PROVE Refines
    OBVIOUS
  <1>1. PICK t \in Thread :
          /\ serial => Alone(t)
          /\ \/ Continue(t) \/ DropGuard(t)
             \/ UseGuard(t) \/ FlushAll(t)
             \/ Fault(t)
             \/ \E g \in Mine(t), id \in Variables : MoveGuard(t, g, id)
             \/ UseInvalid(t)
             \/ \E p, op, mode : GetPage(t, op, p, mode)
             \/ \E p \in Page : (\A g \in guards : g.page # p) /\ DeletePage(t, p)
    BY DEF MCNext, CheckedReadPage, CheckedWritePage, FlushPage
  <1>2. CASE Continue(t)
    BY <1>1, <1>2, UntouchedSteps, UnseenSteps, LoadSteps, WriteSteps, StoreRefines, EvictEraseRefines,
       LockFrameRefines, DropRefines, MoveRefines DEF Continue, Company
  <1>3. CASE DropGuard(t) \/ UseGuard(t)
    BY <1>3, UntouchedSteps, GetDataMutRefines DEF DropGuard, UseGuard
  <1>4. CASE FlushAll(t)
    BY <1>4, UnseenSteps
  <1>5. CASE Fault(t)
    BY <1>5, UntouchedSteps, FailingSteps DEF Fault
  <1>6. CASE \E g \in Mine(t), id \in Variables : MoveGuard(t, g, id)
    BY <1>6, MoveRefines
  <1>7. CASE UseInvalid(t)
    BY <1>7, UntouchedSteps
  <1>8. CASE \E p, op, mode : GetPage(t, op, p, mode)
    BY <1>8, UntouchedSteps
  <1>9. CASE \E p \in Page : (\A g \in guards : g.page # p) /\ DeletePage(t, p)
    BY <1>9, DeletePageRefines
  <1> QED
    BY <1>1, <1>2, <1>3, <1>4, <1>5, <1>6, <1>7, <1>8, <1>9

(* A step makes a guard of five fields, or moves one, or none. *)
LEMMA ShapedNext == Inv /\ Owners /\ Shaped /\ MCNext => Shaped'
  <1> SUFFICES ASSUME Inv, Owners, Shaped, MCNext PROVE Shaped'
    OBVIOUS
  <1>1. CASE guards' \subseteq guards
    BY <1>1 DEF Shaped
  <1>2. ASSUME NEW g \in guards, NEW id, guards' = Moved(g, id) PROVE Shaped'
    BY <1>2, MovedGuard DEF Shaped, Moved
  <1>3. PICK t \in Thread :
          \/ Continue(t) \/ DropGuard(t) \/ UseGuard(t) \/ FlushAll(t) \/ Fault(t)
          \/ \E g \in Mine(t), id \in Variables : MoveGuard(t, g, id)
          \/ UseInvalid(t)
          \/ \E p, op, mode : GetPage(t, op, p, mode)
          \/ \E p \in Page : DeletePage(t, p)
    BY DEF MCNext, CheckedReadPage, CheckedWritePage, FlushPage
  <1>4. CASE LockFrame(t)
    <2>1. \E p, f, m, i : guards' = guards \cup {[thread |-> t, page |-> p, frame |-> f, mode |-> m, id |-> i]}
      BY <1>4 DEF LockFrame
    <2>2. \A p, f, m, i :
            LET g == [thread |-> t, page |-> p, frame |-> f, mode |-> m, id |-> i] IN g = Record(g)
      BY DEF Record
    <2> QED
      BY <2>1, <2>2 DEF Shaped
  <1>5. CASE Assign(t)
    <2>1. job[t].op = "assign" /\ pc[t] = "assign" /\ Owns(t)
      BY <1>5 DEF Assign, At, Inv, JobOk, Owners
    <2>2. job[t].from \in guards
      BY <2>1 DEF Owns, Assigning, Mine
    <2> QED
      BY <1>2, <1>5, <2>2 DEF Assign
  <1>6. CASE \E g \in Mine(t), id \in Variables : MoveGuard(t, g, id)
    BY <1>1, <1>2, <1>6 DEF MoveGuard, Mine
  <1>7. CASE Continue(t) /\ ~LockFrame(t) /\ ~Assign(t)
    BY <1>1, <1>7
    DEF Continue, Hit, RecordAccess, Pin, SetUnevictable, TakeFree, NothingToEvict, Evict, EvictFlush,
        EvictWrite, EvictUnpin, EvictErase, Load, Link, Store, Flush, FlushWrite, Unpin,
        DropEvictable, Unlock, FlushAllWrite, FlushAllUnpin, FlushAllThrows, pool
  <1>8. CASE \/ DropGuard(t) \/ UseGuard(t) \/ FlushAll(t) \/ Fault(t) \/ UseInvalid(t)
             \/ \E p, op, mode : GetPage(t, op, p, mode)
             \/ \E p \in Page : DeletePage(t, p)
    BY <1>1, <1>8
    DEF DropGuard, CallDrop, UseGuard, GetDataMut, CallFlush, FlushAll, UseInvalid, GetPage, DeletePage,
        Fault, LoadFails, EvictWriteFails, FlushWriteFails, FlushAllWriteFails, pool
  <1> QED
    BY <1>3, <1>4, <1>5, <1>6, <1>7, <1>8

(* The pool starts as cells that hold what the disk holds. *)
LEMMA InitRefines == MCInit => Cells!Init
  <1> SUFFICES ASSUME MCInit PROVE Cells!Init
    OBVIOUS
  <1>1. /\ guards = {} /\ unsaved = {} /\ deleted = {} /\ disk \in [Page -> Data]
    BY UserAssumption DEF MCInit, Quiet
  <1>2. \A p \in DOMAIN page_table : frame[page_table[p]].data = disk[p]
    <2>1. CASE Cold
      BY <2>1 DEF Cold
    <2>2. CASE Warm \/ Shared
      BY <2>2, FirstFrames DEF Warm, Shared
    <2> QED
      BY <2>1, <2>2 DEF MCInit
  <1>3. Content = disk
    BY <1>1, <1>2 DEF Content
  <1> QED
    BY <1>1, <1>3 DEF Cells!Init

(* The pool implements the cells: no eviction, load, flush or move ever    *)
(* changes what a guard reads, and what reaches the disk image of a page   *)
(* is that page's present content.                                         *)
THEOREM Implements == MCSpec => ImplementsPageCells
  <1>1. MCInit => Cells!Init /\ Shaped
    BY InitRefines DEF MCInit, Quiet, Shaped
  <1>2. Inv /\ Owners /\ Shaped /\ [MCNext \/ (Over /\ UNCHANGED serial)]_MCVars => Shaped'
    <2>1. UNCHANGED vars => guards' = guards
      BY DEF vars, pool
    <2> QED
      BY <2>1, ShapedNext DEF Over, MCVars, Shaped
  <1>3. Inv /\ Inv' /\ Owners /\ Shaped /\ [MCNext \/ (Over /\ UNCHANGED serial)]_MCVars
          => [Cells!Next]_(Cells!vars)
    <2>1. UNCHANGED vars => UNCHANGED <<guards, frame, page_table, disk, unsaved, deleted>>
      BY DEF vars, pool, faults
    <2> QED
      BY <2>1, Untouched, StepRefines DEF Over, MCVars, Refines
  <1> QED
    BY <1>1, <1>2, <1>3, Invariance, Ownership, PTL DEF MCSpec, ImplementsPageCells, Cells!Spec
=============================================================================
