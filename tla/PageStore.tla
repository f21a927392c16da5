------------------------------ MODULE PageStore ------------------------------
(***************************************************************************)
(* What the disk layer promises to the buffer pool: a set of pages, each   *)
(* held by at most one owner at a time.  A held page keeps the bytes its   *)
(* owner last wrote, whatever happens to the other pages.  A write that    *)
(* fails spoils the page it was for; a power cut takes a page back to the  *)
(* bytes of the last sync or spoils it, and only if it was written since.  *)
(***************************************************************************)
CONSTANTS
  Page,     \* the page ids that can be handed out
  Content,  \* what a page can be made to hold
  Broken    \* what it holds after a part of a write

VARIABLES
  held,     \* pages handed out and not yet given back
  vol,      \* vol[p]: what a read of the held page p returns
  stable    \* stable[p]: what a power cut may leave of the held page p

vars == <<held, vol, stable>>


Init ==
  /\ held = {}
  /\ vol = [p \in held |-> {}]
  /\ stable = [p \in held |-> {}]

(* A page nobody holds is handed out with unspecified bytes. *)
Acquire(p) ==
  /\ p \notin held
  /\ held' = held \cup {p}
  /\ DOMAIN vol' = held'
  /\ DOMAIN stable' = held'
  /\ \A q \in held : vol'[q] = vol[q] /\ stable'[q] = stable[q]

Release(p) ==
  /\ p \in held
  /\ held' = held \ {p}
  /\ vol' = [q \in held' |-> vol[q]]
  /\ stable' = [q \in held' |-> stable[q]]

Write(p) ==
  /\ p \in held
  /\ \E c \in Content \cup {Broken} : vol' = [vol EXCEPT ![p] = c]
  /\ UNCHANGED <<held, stable>>

Sync ==
  /\ stable' = vol
  /\ UNCHANGED <<held, vol>>

(* Each page comes back as last written, as last synced or, if these       *)
(* differ, as neither.                                                     *)
PowerCut ==
  /\ held' = held
  /\ DOMAIN vol' = held
  /\ \A p \in held : \/ vol'[p] \in {vol[p], stable[p]}
                     \/ vol[p] # stable[p] /\ vol'[p] = Broken
  /\ stable' = vol'

Next ==
  \/ \E p \in Page : Acquire(p) \/ Release(p) \/ Write(p)
  \/ Sync
  \/ PowerCut

Spec == Init /\ [][Next]_vars
=============================================================================
