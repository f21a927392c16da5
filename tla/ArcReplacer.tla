----------------------------- MODULE ArcReplacer -----------------------------
(***************************************************************************)
(* buffer/arc_replacer.{h,cpp}: the ARC replacement policy of the buffer   *)
(* pool.  Resident pages are named by frame in mru and mfu, evicted ones   *)
(* by page in the two ghost lists; index 1 of a list is its front.  The    *)
(* size counters of the code change with each push and pop, so they are    *)
(* the lengths of the lists here.  The class does not use its latch_: each *)
(* call is one step.                                                       *)
(***************************************************************************)
EXTENDS Integers, Sequences, FiniteSets, Functions, SequencesExt

CONSTANTS
  NumFrames,   \* replacer_size_
  Page,        \* page ids
  MaxTarget    \* bound on mru_target_size_, which the code lets grow

ASSUME ArcAssumption == NumFrames \in Nat \ {0} /\ MaxTarget \in Nat

Frame == 0..(NumFrames - 1)
NoFrame == -1

VARIABLES
  mru, mfu,              \* frames seen once / more than once since they came in
  mru_ghost, mfu_ghost,  \* pages evicted from mru / mfu
  alive,                 \* alive_map_: frame -> [page, evictable, status]
  ghost,                 \* ghost_map_: page -> status
  target,                \* mru_target_size_
  curr_size,             \* curr_size_
  fatal                  \* LogFatalStream aborted the process

arc == <<mru, mfu, mru_ghost, mfu_ghost, alive, ghost, target, curr_size, fatal>>

(* list.erase of the one place where x is. *)
Without(list, x) ==
  LET at == {i \in DOMAIN list : list[i] = x}
  IN  IF at = {} THEN list ELSE RemoveAt(list, CHOOSE i \in at : TRUE)

Drop(map, k) == Restrict(map, DOMAIN map \ {k})
Enter(map, k, v) == [j \in DOMAIN map \cup {k} |-> IF j = k THEN v ELSE map[j]]
Status(p, e, s) == [page |-> p, evictable |-> e, status |-> s]

Init ==
  /\ mru = <<>> /\ mfu = <<>> /\ mru_ghost = <<>> /\ mfu_ghost = <<>>
  /\ alive = <<>> /\ ghost = <<>>
  /\ target = 0 /\ curr_size = 0
  /\ fatal = FALSE

(* Mutant: the list is scanned from its front. *)
FirstEvictable(list) ==
  LET e == {i \in DOMAIN list : alive[list[i]].evictable}
  IN  IF e = {} THEN NoFrame ELSE list[Min(e)]

(* EvictFrom: the evictable frame nearest the back of the list. *)
LastEvictable(list) ==
  LET e == {i \in DOMAIN list : alive[list[i]].evictable}
  IN  IF e = {} THEN NoFrame ELSE list[Max(e)]

(* The side the target size prefers; the other one when it is all pinned.  *)
Victim ==
  LET first == IF Len(mru) >= target THEN mru ELSE mfu
      other == IF Len(mru) >= target THEN mfu ELSE mru
  IN IF LastEvictable(first) # NoFrame THEN LastEvictable(first)
                                       ELSE LastEvictable(other)

(* Evict, when it finds a victim.  (It changes nothing when it does not.)  *)
Evict ==
  LET f == Victim
      p == alive[f].page
  IN
  /\ f # NoFrame
  /\ alive' = Drop(alive, f)
  /\ curr_size' = curr_size - 1
  /\ \/ /\ f \in Range(mru)
        /\ mru' = Without(mru, f)
        /\ mru_ghost' = <<p>> \o mru_ghost
        /\ ghost' = Enter(ghost, p, "mru_ghost")
        /\ UNCHANGED <<mfu, mfu_ghost>>
     \/ /\ f \in Range(mfu)
        /\ mfu' = Without(mfu, f)
        /\ mfu_ghost' = <<p>> \o mfu_ghost
        /\ ghost' = Enter(ghost, p, "mfu_ghost")
        /\ UNCHANGED <<mru, mru_ghost>>
  /\ UNCHANGED <<target, fatal>>

(* Mutant: arc_status_ is not updated. *)
HitAliveKeepsStatus(f) ==
  /\ f \in DOMAIN alive
  /\ mru' = Without(mru, f)
  /\ mfu' = <<f>> \o Without(mfu, f)
  /\ UNCHANGED <<mru_ghost, mfu_ghost, alive, ghost, target, curr_size, fatal>>

(* RecordAccess of a frame that is in mru or mfu: to the front of mfu.  The *)
(* page id passed in is not looked at.                                     *)
HitAlive(f) ==
  /\ f \in DOMAIN alive
  /\ mru' = Without(mru, f)
  /\ mfu' = <<f>> \o Without(mfu, f)
  /\ alive' = [alive EXCEPT ![f].status = "mfu"]
  /\ UNCHANGED <<mru_ghost, mfu_ghost, ghost, target, curr_size, fatal>>

(* How far a ghost hit moves the target: the ratio of the other ghost list *)
(* to the one that was hit, at least 1.  Division by an empty list stops   *)
(* the process; the page would not be found in that list either.           *)
Step(hit, other) ==
  IF Len(hit) >= Len(other) \/ hit = <<>> THEN 1 ELSE Len(other) \div Len(hit)

(* The page comes back to life in f, at the front of mfu. *)
Revive(f, p) ==
  /\ mfu' = <<f>> \o mfu
  /\ alive' = Enter(alive, f, Status(p, FALSE, "mfu"))
  /\ ghost' = Drop(ghost, p)
  /\ UNCHANGED <<mru, curr_size, fatal>>

HitMruGhost(f, p) ==
  /\ f \notin DOMAIN alive
  /\ p \in DOMAIN ghost /\ ghost[p] = "mru_ghost" /\ p \in Range(mru_ghost)
  /\ target + Step(mru_ghost, mfu_ghost) <= MaxTarget       \* bound
  /\ target' = target + Step(mru_ghost, mfu_ghost)
  /\ mru_ghost' = Without(mru_ghost, p)
  /\ Revive(f, p)
  /\ UNCHANGED mfu_ghost

(* Mutant: the decrease is not compared with the target first. *)
HitMfuGhostUnderflows(f, p) ==
  /\ f \notin DOMAIN alive
  /\ p \in DOMAIN ghost /\ ghost[p] = "mfu_ghost" /\ p \in Range(mfu_ghost)
  /\ target' = target - Step(mfu_ghost, mru_ghost)
  /\ mfu_ghost' = Without(mfu_ghost, p)
  /\ Revive(f, p)
  /\ UNCHANGED mru_ghost

HitMfuGhost(f, p) ==
  LET decrease == Step(mfu_ghost, mru_ghost) IN
  /\ f \notin DOMAIN alive
  /\ p \in DOMAIN ghost /\ ghost[p] = "mfu_ghost" /\ p \in Range(mfu_ghost)
  /\ target' = IF target >= decrease THEN target - decrease ELSE target
  /\ mfu_ghost' = Without(mfu_ghost, p)
  /\ Revive(f, p)
  /\ UNCHANGED mru_ghost

(* ghost_map_ knows a page that its ghost list has dropped: abort. *)
HitForgotten(f, p) ==
  /\ f \notin DOMAIN alive
  /\ p \in DOMAIN ghost
  /\ p \notin Range(IF ghost[p] = "mru_ghost" THEN mru_ghost ELSE mfu_ghost)
  /\ fatal' = TRUE
  /\ UNCHANGED <<mru, mfu, mru_ghost, mfu_ghost, alive, ghost, target, curr_size>>

(* Mutant: the limit of mru and its ghosts is off by one. *)
MissTrimsLate(f, p) ==
  /\ f \notin DOMAIN alive /\ p \notin DOMAIN ghost
  /\ mru_ghost' = IF Len(mru) + Len(mru_ghost) > NumFrames THEN Front(mru_ghost) ELSE mru_ghost
  /\ mru' = <<f>> \o mru
  /\ alive' = Enter(alive, f, Status(p, FALSE, "mru"))
  /\ UNCHANGED <<mfu, mfu_ghost, ghost, target, curr_size, fatal>>

(* Neither map knows it: to the front of mru, after a ghost list at its    *)
(* limit has lost its back.  ghost_map_ keeps the page that was dropped.   *)
Miss(f, p) ==
  LET l1 == Len(mru) + Len(mru_ghost)
      l2 == Len(mfu) + Len(mfu_ghost)
  IN
  /\ f \notin DOMAIN alive /\ p \notin DOMAIN ghost
  /\ l1 <= NumFrames                      \* else LogFatal
  /\ mru_ghost' = IF l1 = NumFrames THEN Front(mru_ghost) ELSE mru_ghost
  /\ mfu_ghost' = IF l1 # NumFrames /\ l1 + l2 = 2 * NumFrames
                  THEN Front(mfu_ghost) ELSE mfu_ghost
  /\ mru' = <<f>> \o mru
  /\ alive' = Enter(alive, f, Status(p, FALSE, "mru"))
  /\ UNCHANGED <<mfu, ghost, target, curr_size, fatal>>

RecordAccess(f, p) ==
  \/ HitAlive(f)
  \/ HitMruGhost(f, p) \/ HitMfuGhost(f, p) \/ HitForgotten(f, p)
  \/ Miss(f, p)

(* Frames the replacer does not know, or that are so already, stay as they *)
(* are.  (A set of frames: FlushAllPagesUnsafe does many at a time.)       *)
SetEvictables(F, evictable) ==
  LET changed == {f \in F \cap DOMAIN alive : alive[f].evictable # evictable} IN
  /\ alive' = [f \in DOMAIN alive |->
                 IF f \in changed THEN [alive[f] EXCEPT !.evictable = evictable] ELSE alive[f]]
  /\ curr_size' = IF evictable THEN curr_size + Cardinality(changed)
                               ELSE curr_size - Cardinality(changed)
  /\ UNCHANGED <<mru, mfu, mru_ghost, mfu_ghost, ghost, target, fatal>>

SetEvictable(f, evictable) == SetEvictables({f}, evictable)

(* Mutant: Remove forgets curr_size_. *)
RemoveFrameKeepsSize(f) ==
  /\ f \in DOMAIN alive /\ alive[f].evictable
  /\ mru' = Without(mru, f) /\ mfu' = Without(mfu, f)
  /\ alive' = Drop(alive, f)
  /\ UNCHANGED <<mru_ghost, mfu_ghost, ghost, target, curr_size, fatal>>

(* Remove: aborts on a pinned frame, ignores an unknown one. *)
RemoveFrame(f) ==
  \/ /\ f \notin DOMAIN alive
     /\ UNCHANGED arc
  \/ /\ f \in DOMAIN alive /\ ~alive[f].evictable
     /\ fatal' = TRUE
     /\ UNCHANGED <<mru, mfu, mru_ghost, mfu_ghost, alive, ghost, target, curr_size>>
  \/ /\ f \in DOMAIN alive /\ alive[f].evictable
     /\ mru' = Without(mru, f) /\ mfu' = Without(mfu, f)
     /\ alive' = Drop(alive, f)
     /\ curr_size' = curr_size - 1
     /\ UNCHANGED <<mru_ghost, mfu_ghost, ghost, target, fatal>>

(* The pool's use of it: a frame holds one page at a time, an access names *)
(* the page of its frame, or brings a page that is nowhere into a frame    *)
(* that is nobody's; only evictable frames are removed.                    *)
AlivePages == {alive[f].page : f \in DOMAIN alive}

Access(f, p) ==
  /\ \/ f \in DOMAIN alive /\ alive[f].page = p
     \/ f \notin DOMAIN alive /\ p \notin AlivePages
  /\ RecordAccess(f, p)

Delete(f) == f \in DOMAIN alive /\ alive[f].evictable /\ RemoveFrame(f)

Next ==
  \/ ~fatal /\ \E f \in Frame :
       \/ \E p \in Page : Access(f, p)
       \/ \E e \in BOOLEAN : f \in DOMAIN alive /\ SetEvictable(f, e)
       \/ Delete(f)
  \/ ~fatal /\ Evict
  \/ fatal /\ UNCHANGED arc      \* the process is gone

Spec == Init /\ [][Next]_arc
-----------------------------------------------------------------------------
(* Every variable keeps its type. *)
TypeOK ==
  /\ mru \in Seq(Frame) /\ mfu \in Seq(Frame)
  /\ mru_ghost \in Seq(Page) /\ mfu_ghost \in Seq(Page)
  /\ DOMAIN alive \subseteq Frame
  /\ \A f \in DOMAIN alive : alive[f] \in [page : Page, evictable : BOOLEAN, status : {"mru", "mfu"}]
  /\ DOMAIN ghost \subseteq Page
  /\ \A p \in DOMAIN ghost : ghost[p] \in {"mru_ghost", "mfu_ghost"}
  /\ target \in 0..MaxTarget /\ curr_size \in Int /\ fatal \in BOOLEAN

(* The lists and the maps tell the same story: a frame is alive iff it is  *)
(* in the list its status names, once; a page on a ghost list has the      *)
(* ghost_map_ entry that sends its next access to that list; and no page   *)
(* is on two of the four lists, nor twice on one.                          *)
ListsMatchMaps ==
  LET pages(list) == [i \in DOMAIN list |-> alive[list[i]].page]
  IN  /\ IsInjective(pages(mru) \o pages(mfu) \o mru_ghost \o mfu_ghost)
      /\ IsInjective(mru \o mfu)
      /\ Range(mru) = {f \in DOMAIN alive : alive[f].status = "mru"}
      /\ Range(mfu) = {f \in DOMAIN alive : alive[f].status = "mfu"}
      /\ \A p \in Range(mru_ghost) : p \in DOMAIN ghost /\ ghost[p] = "mru_ghost"
      /\ \A p \in Range(mfu_ghost) : p \in DOMAIN ghost /\ ghost[p] = "mfu_ghost"

(* The directory limits of ARC, which the code maintains only indirectly   *)
(* (Evict moves pages to the ghost lists without looking at a limit, and   *)
(* pop_back of an empty list is undefined).                                *)
ArcLimits ==
  /\ Len(mru) + Len(mru_ghost) <= NumFrames
  /\ Len(mru) + Len(mru_ghost) + Len(mfu) + Len(mfu_ghost) <= 2 * NumFrames

(* Size() is the number of frames Evict could take, and Evict finds one    *)
(* exactly when it is not zero.                                            *)
SizeCountsVictims ==
  /\ curr_size = Cardinality({f \in DOMAIN alive : alive[f].evictable})
  /\ curr_size > 0 <=> Victim # NoFrame
=============================================================================
