---------------------------- MODULE MCArcReplacer ----------------------------
(* ArcReplacer with a record of the order in which frames were used.       *)
EXTENDS ArcReplacer

VARIABLE used    \* frames, the most recently used first

MCVars == <<arc, used>>

MCInit == Init /\ used = <<>>

MCNext ==
  \/ ~fatal /\ \E f \in Frame, p \in Page : Access(f, p) /\ used' = <<f>> \o Without(used, f)
  \/ ~fatal /\ \E f \in Frame : Delete(f) /\ UNCHANGED used
  \/ ~fatal /\ \E f \in DOMAIN alive, e \in BOOLEAN : SetEvictable(f, e) /\ UNCHANGED used
  \/ ~fatal /\ Evict /\ UNCHANGED used
  \/ fatal /\ UNCHANGED MCVars

MCSpec == MCInit /\ [][MCNext]_MCVars

(* A frame that Evict takes is evictable, and every other evictable frame  *)
(* of its class (once or more than once seen) has been used since: each    *)
(* side of ARC is a least-recently-used list, pinned frames excepted.      *)
LeastRecentlyUsedFirst ==
  [][\A f \in DOMAIN alive \ DOMAIN alive' :
       alive[f].page \in DOMAIN ghost' =>
         /\ alive[f].evictable
         /\ \A i, j \in DOMAIN used :
              /\ used[i] = f /\ i < j
              /\ used[j] \in DOMAIN alive /\ alive[used[j]].status = alive[f].status
              => ~alive[used[j]].evictable]_MCVars
=============================================================================
