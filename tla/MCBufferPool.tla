---------------------------- MODULE MCBufferPool ----------------------------
(***************************************************************************)
(* BufferPool with users that keep to what its code supports:              *)
(*   serial: one call at a time, from an empty pool or from one whose      *)
(*     pages may be evicted, with requests that fail; and as long as guards *)
(*     are alive only their page is asked for, in a compatible mode, and   *)
(*     it is not deleted, and nobody asks for a page that was, or for one  *)
(*     whose deletion has thrown;                                          *)
(*   not serial: the pages in use are resident, threads run side by side,  *)
(*     and each takes its guards in the order of the page ids.             *)
(* The calls of the replacer are atomic (BufferPool!Race is left out).     *)
(***************************************************************************)
EXTENDS BufferPool

CONSTANTS d1, d2
MCData == {d1, d2}
MCPage == 0..2

VARIABLE serial

MCVars == <<vars, serial>>

FirstPages == 0..(NumFrames - 1)

ASSUME UserAssumption == d1 \in Data /\ d2 \in Data /\ FirstPages \subseteq Page

(* The first pages have been brought in and each guard dropped once. *)
Warm ==
  /\ page_table = [p \in FirstPages |-> p]
  /\ free_frames = <<>>
  /\ frame = [f \in Frame |-> [pin |-> -1, dirty |-> FALSE, data |-> disk[f]]]
  /\ mru = [i \in 1..NumFrames |-> NumFrames - i]
  /\ alive = [f \in Frame |-> [page |-> f, evictable |-> FALSE, status |-> "mru"]]
  /\ mfu = <<>> /\ mru_ghost = <<>> /\ mfu_ghost = <<>> /\ ghost = <<>>
  /\ target = 0 /\ curr_size = 0 /\ fatal = FALSE

(* The first pages have been brought in and each was read by two threads   *)
(* at once.                                                                *)
Shared ==
  /\ page_table = [p \in FirstPages |-> p]
  /\ free_frames = <<>>
  /\ frame = [f \in Frame |-> [pin |-> -1, dirty |-> FALSE, data |-> disk[f]]]
  /\ mfu = [i \in 1..NumFrames |-> NumFrames - i]
  /\ alive = [f \in Frame |-> [page |-> f, evictable |-> TRUE, status |-> "mfu"]]
  /\ mru = <<>> /\ mru_ghost = <<>> /\ mfu_ghost = <<>> /\ ghost = <<>>
  /\ target = 0 /\ curr_size = NumFrames /\ fatal = FALSE

MCInit ==
  /\ Quiet
  /\ serial \in BOOLEAN
  /\ disk = [p \in Page |-> IF p = 1 THEN d2 ELSE d1]
  /\ \/ serial /\ (Cold \/ Shared) /\ calls = [t \in Thread |-> 0]
     \/ ~serial /\ Warm /\ calls = [t \in Thread |-> 1]   \* bound: fewer calls side by side

Alone(t) == \A u \in Thread \ {t} : pc[u] = "idle"

(* Calls made so far. *)
Made == FoldFunction(+, 0, calls)

(* Bound: the calls of serial users together. *)
MayCall == serial => Made < MaxCalls + 1

MayAsk(t, p, mode) ==
  /\ MayCall /\ p \notin deleted
  /\ IF serial
     THEN \A g \in guards : g.page = p /\ mode = "read" /\ g.mode = "read" /\ g.thread # t
     ELSE p \in FirstPages /\ \A g \in Mine(t) : g.page < p

(* Bound: users side by side move guards, into the last variable or over   *)
(* another guard.                                                          *)
MayMove(g, id) ==
  /\ ~serial /\ Cardinality(Mine(g.thread)) = 2
  /\ id = MaxGuards + 1 \/ \E h \in Mine(g.thread) : h.id = id

MCNext ==
  /\ \E t \in Thread :
       /\ serial => Alone(t)
       /\ \/ Continue(t) \/ DropGuard(t)
          \/ MayCall /\ (UseGuard(t) \/ FlushAll(t))
          \/ serial /\ Fault(t)
          \/ \E g \in Mine(t), id \in Variables : MayMove(g, id) /\ MoveGuard(t, g, id)
          \/ serial /\ calls[t] = 0 /\ UseInvalid(t)                      \* bound
          \/ \E p \in Page : \/ MayAsk(t, p, "read") /\ CheckedReadPage(t, p)
                             \/ MayAsk(t, p, "write") /\ (CheckedWritePage(t, p) \/ FlushPage(t, p))
          \/ \E p \in Page : MayCall /\ serial /\ (\A g \in guards : g.page # p) /\ DeletePage(t, p)
  /\ UNCHANGED serial

(* A thread in a call goes on, and a thread out of one drops its guards in *)
(* the end (they are scoped objects of its caller).                        *)
MCSpec ==
  /\ MCInit /\ [][MCNext \/ (Over /\ UNCHANGED serial)]_MCVars
  /\ \A t \in Thread : WF_MCVars(Continue(t) /\ UNCHANGED serial)
                       /\ WF_MCVars(DropGuard(t) /\ UNCHANGED serial)
-----------------------------------------------------------------------------
(* A resident page whose frame is clean, or whose guard says that it is,   *)
(* has its bytes on disk, so it may be evicted without a write, unless a   *)
(* write of it has failed and it was not touched since; it holds between   *)
(* the calls of serial users.                                              *)
CleanPagesSaved ==
  serial /\ Resting =>
    \A p \in DOMAIN page_table :
      \/ frame[page_table[p]].dirty /\ \A g \in guards : g.page = p => IsDirty(g)
      \/ frame[page_table[p]].data = disk[p] \/ p \in unsaved

(* What a guard on the page reads, or would read.                          *)
Content ==
  [p \in Page |->
     IF \E g \in guards : g.page = p THEN GetData(CHOOSE g \in guards : g.page = p)
     ELSE IF p \in DOMAIN page_table THEN frame[page_table[p]].data ELSE disk[p]]

(* A guard without the frame it knows. *)
Holder(g) == [thread |-> g.thread, page |-> g.page, mode |-> g.mode, id |-> g.id]

(* The pool is a set of page cells under readers-writer locks: evictions,  *)
(* loads, flushes and moves never change what a guard reads, what is       *)
(* written to a page on disk is that page's present content, and a request *)
(* that fails costs no page but the one that it could not write.           *)
Cells == INSTANCE PageCells WITH
  content <- Content, saved <- disk, holders <- {Holder(g) : g \in guards}

ImplementsPageCells == Cells!Spec

(* Every call returns: nobody waits for ever for the pool's latch or for a *)
(* frame, and every flush and load gets to its end; unless the replacer    *)
(* or a caller of it aborts the process.                                   *)
CallsReturn == \A t \in Thread : pc[t] # "idle" ~> pc[t] = "idle" \/ ~Running
=============================================================================
