------------------------------ MODULE AtomicDisk ------------------------------
(***************************************************************************)
(* What DiskScheduler promises its callers: the disk executes the requests *)
(* of each caller once, in the order they were scheduled, one at a time    *)
(* over all callers; a failing request changes nothing but the page it may *)
(* have half written; and every scheduled request is executed in the end.  *)
(***************************************************************************)
EXTENDS Naturals, Sequences

CONSTANTS
  Client,    \* threads that schedule requests
  MaxPage,   \* page ids are 1..MaxPage
  Data       \* what a page or a buffer holds

Request == [op : {"read", "write", "deallocate"}, page : 1..MaxPage]
             \cup [op : {"allocate"}]

VARIABLES
  submitted,  \* submitted[c]: requests of c that are not executed yet
  file,       \* file[p]: bytes of page p
  next,       \* pages below next have been allocated once
  freed,      \* freed[p]: how often page p is on the freelist
  buf         \* buf[c]: the caller's buffer, which its requests point to

vars == <<submitted, file, next, freed, buf>>

Init ==
  /\ submitted = [c \in Client |-> <<>>]
  /\ file \in [1..MaxPage -> Data]
  /\ next \in 1..(MaxPage + 1)
  /\ freed = [p \in 1..MaxPage |-> 0]
  /\ buf \in [Client -> Data]

(* Effect of request r, scheduled by c, on the disk and on c's buffer. *)
Read(c, r) ==
  /\ r.op = "read" /\ r.page < next
  /\ buf' = [buf EXCEPT ![c] = file[r.page]]
  /\ UNCHANGED <<file, next, freed>>

Write(c, r) ==
  /\ r.op = "write" /\ r.page < next
  /\ file' = [file EXCEPT ![r.page] = buf[c]]
  /\ UNCHANGED <<next, freed, buf>>

(* The freelist is kept in the pages that are on it. *)
Listed == {p \in 1..MaxPage : freed[p] > 0}

Changes(pages) ==
  UNCHANGED file \/ \E p \in pages, d \in Data : file' = [file EXCEPT ![p] = d]

Allocate(p, r) ==
  /\ r.op = "allocate"
  /\ \/ p = next /\ Listed = {} /\ next' = next + 1 /\ UNCHANGED freed
     \/ p \in Listed /\ freed' = [freed EXCEPT ![p] = @ - 1] /\ UNCHANGED next
  /\ Changes(Listed) /\ UNCHANGED buf

(* Whether the page is in use is not tested, nor whether it is free. *)
Deallocate(r) ==
  /\ r.op = "deallocate"
  /\ freed' = [freed EXCEPT ![r.page] = @ + 1]
  /\ Changes(Listed \cup {r.page})
  /\ UNCHANGED <<next, buf>>

(* The disk manager throws: a page out of range, an input/output error,    *)
(* which may leave any bytes in the page that was written.                 *)
Fail(r) ==
  /\ Changes((IF r.op \in {"write", "deallocate"} THEN {r.page} ELSE {})
               \cup (IF r.op \in {"allocate", "deallocate"} THEN Listed ELSE {}))
  /\ UNCHANGED <<next, freed, buf>>

Apply(c, r) ==
  \/ Read(c, r) \/ Write(c, r) \/ Deallocate(r) \/ Fail(r)
  \/ \E p \in 1..MaxPage : Allocate(p, r)

Fill(c) ==
  /\ submitted[c] = <<>>
  /\ \E d \in Data : buf' = [buf EXCEPT ![c] = d]
  /\ UNCHANGED <<submitted, file, next, freed>>

Submit(c) ==
  /\ \E r \in Request : submitted' = [submitted EXCEPT ![c] = Append(@, r)]
  /\ UNCHANGED <<file, next, freed, buf>>

Execute(c) ==
  /\ submitted[c] # <<>>
  /\ Apply(c, Head(submitted[c]))
  /\ submitted' = [submitted EXCEPT ![c] = Tail(@)]

Next == \E c \in Client : Fill(c) \/ Submit(c) \/ Execute(c)

Spec ==
  /\ Init /\ [][Next]_vars
  /\ \A c \in Client : WF_vars(Execute(c))
=============================================================================
