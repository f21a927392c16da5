------------------------------ MODULE PageCells ------------------------------
(***************************************************************************)
(* What the buffer pool promises to its users: every page is a cell of     *)
(* memory under a readers-writer lock, whose holders are the live guards.  *)
(* Frames, eviction, loading and flushing are invisible, and the only      *)
(* bytes that reach the disk image of a page are the page's own.  A page   *)
(* whose write failed is lost, as of its last write, unless it is written  *)
(* to or flushed again before its frame is taken from it.                  *)
(***************************************************************************)
CONSTANTS Thread, Page, Data

VARIABLES
  content,   \* content[p]: what a guard on p reads
  saved,     \* saved[p]: the page on disk
  holders,   \* live guards: records with a thread, a page, a mode and a variable
  unsaved,   \* pages whose write failed
  deleted

vars == <<content, saved, holders, unsaved, deleted>>

Init ==
  /\ content \in [Page -> Data]
  /\ saved = content
  /\ holders = {} /\ unsaved = {} /\ deleted = {}

Acquire(g) ==
  /\ g.page \in Page \ deleted /\ g.thread \in Thread
  /\ g.mode = "read" => \A h \in holders : h.page = g.page => h.mode = "read"
  /\ g.mode = "write" => \A h \in holders : h.page # g.page
  /\ holders' = holders \cup {g}
  /\ UNCHANGED <<content, saved, unsaved, deleted>>

Release(g) ==
  /\ holders' = holders \ {g}
  /\ UNCHANGED <<content, saved, unsaved, deleted>>

Move(g, h) ==
  /\ h \notin holders /\ h = [g EXCEPT !.id = h.id]
  /\ holders' = (holders \ {g}) \cup {h}
  /\ UNCHANGED <<content, saved, unsaved, deleted>>

(* A holder says that it will write. *)
Mark(g) ==
  /\ g.mode = "write"
  /\ unsaved' = unsaved \ {g.page}
  /\ UNCHANGED <<content, saved, holders, deleted>>

Write(g) ==
  /\ g.mode = "write"
  /\ \E d \in Data : content' = [content EXCEPT ![g.page] = d]
  /\ UNCHANGED <<saved, holders, unsaved, deleted>>

Save(p) ==
  /\ saved' = [saved EXCEPT ![p] = content[p]]
  /\ unsaved' = unsaved \ {p}
  /\ UNCHANGED <<content, holders, deleted>>

SaveFails(p) ==
  /\ unsaved' = unsaved \cup {p}
  /\ UNCHANGED <<content, saved, holders, deleted>>

Lose(p) ==
  /\ p \in unsaved /\ \A h \in holders : h.page # p
  /\ content' = [content EXCEPT ![p] = saved[p]]
  /\ unsaved' = unsaved \ {p}
  /\ UNCHANGED <<saved, holders, deleted>>

(* The page is given up, also when the disk does not deallocate it. *)
Delete(p) ==
  /\ \A h \in holders : h.page # p
  /\ deleted' = deleted \cup {p}
  /\ content' = [content EXCEPT ![p] = saved[p]]
  /\ unsaved' = unsaved \ {p}
  /\ UNCHANGED <<saved, holders>>

Next ==
  \/ \E g \in holders' \ holders : Acquire(g) \/ \E h \in holders : Move(h, g)
  \/ \E g \in holders : Release(g) \/ Mark(g) \/ Write(g)
  \/ \E p \in Page : Save(p) \/ SaveFails(p) \/ Lose(p) \/ Delete(p)

Spec == Init /\ [][Next]_vars
=============================================================================
