--------------------------- MODULE MCDiskScheduler ---------------------------
(* DiskScheduler with the request vectors its callers pass: the single     *)
(* requests of the buffer pool, and a batch that writes a page and reads   *)
(* it back through the same buffer (tests/storage/disk_scheduler.cpp).     *)
EXTENDS DiskScheduler

CONSTANTS d1, d2

MCData == {d1, d2}
MCWorkload ==
  {<<[op |-> "write", page |-> 1], [op |-> "read", page |-> 1]>>,
   <<[op |-> "read", page |-> 1]>>,
   <<[op |-> "allocate"]>>,
   <<[op |-> "deallocate", page |-> 1]>>}
=============================================================================
