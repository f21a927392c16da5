------------------------------ MODULE LogManager ------------------------------
(***************************************************************************)
(* logging/log_manager.{h,cpp}: threads append log records to a buffer and *)
(* ask for them to be made durable; the first to ask leads and writes the  *)
(* whole buffer, the others wait for it on flush_cv_.  A step is a         *)
(* critical section of mtx or flush_mtx_, or one system call on the file.  *)
(* A record's number says all the properties need: appending ones of the   *)
(* eight log_* functions differ in the size they ask for.                  *)
(***************************************************************************)
EXTENDS Integers, Sequences

CONSTANTS
  Thread,
  Size,        \* sizes of records
  BufferSize,  \* APPEND_BUFFER_SIZE
  MaxLSN       \* bound on currentLSN

ASSUME LogAssumption ==
  /\ Size \subseteq Nat \ {0} /\ BufferSize \in Nat /\ MaxLSN \in Nat

VARIABLES
  append_buffer,  \* records [lsn, by]
  fill_offset,    \* append_buffer_fill_offset: their bytes
  currentLSN,
  fill_buffer,    \* what of the batch is still to be written
  flushedLSN,
  flushing,       \* flushing_
  pc, target,     \* pc[t]: where t is in flush_to(target[t])
  batch_end,      \* the leader's batch_end_LSN
  created,        \* the leader's created
  path_set,       \* absolute_log_file_path names a file
  exists, linked, \* the file exists; its directory entry is on disk
  file,           \* records in the file, the page cache included
  synced,         \* how many of them fsync has put on disk
  torn,           \* the file ends with a part of a record
  crashed

buffers == <<append_buffer, fill_offset, currentLSN>>
leading == <<fill_buffer, batch_end, created>>
disk == <<exists, linked, file, synced, torn>>
vars == <<buffers, leading, disk, flushedLSN, flushing, pc, target, path_set, crashed>>

(* The members have no initialisers, but an object of this size comes from *)
(* zero-filled memory.  path_set: the constructor drops its argument       *)
(* (FALSE: open("") fails); TRUE: the member's invariant "exists prior"    *)
(* has been established.                                                   *)
Init ==
  /\ append_buffer = <<>> /\ fill_offset = 0 /\ currentLSN = 0
  /\ fill_buffer = <<>> /\ batch_end = 0 /\ created = FALSE
  /\ flushedLSN = 0 /\ flushing = FALSE
  /\ pc = [t \in Thread |-> "idle"] /\ target = [t \in Thread |-> 0]
  /\ path_set \in BOOLEAN
  /\ exists \in BOOLEAN /\ linked = exists
  /\ file = <<>> /\ synced = 0 /\ torn = FALSE
  /\ crashed = FALSE

At(t, l) == ~crashed /\ pc[t] = l
Goto(t, l) == pc' = [pc EXCEPT ![t] = l]
Return(t) == Goto(t, "idle") /\ target' = [target EXCEPT ![t] = 0]

Leading == {"copy", "open", "write", "sync", "sync_dir", "publish"}
-----------------------------------------------------------------------------
(* Mutant: the room is not checked. *)
AppendOverruns(t, size) ==
  /\ At(t, "idle")
  /\ currentLSN < MaxLSN
  /\ append_buffer' = Append(append_buffer, [lsn |-> currentLSN, by |-> t])
  /\ fill_offset' = fill_offset + size
  /\ currentLSN' = currentLSN + 1
  /\ UNCHANGED <<leading, disk, flushedLSN, flushing, pc, target, path_set, crashed>>

(* append: a buffer without room gives INVALID_LSN and changes nothing. *)
AppendRecord(t, size) ==
  /\ At(t, "idle")
  /\ currentLSN < MaxLSN                                              \* bound
  /\ fill_offset + size <= BufferSize
  /\ append_buffer' = Append(append_buffer, [lsn |-> currentLSN, by |-> t])
  /\ fill_offset' = fill_offset + size
  /\ currentLSN' = currentLSN + 1
  /\ UNCHANGED <<leading, disk, flushedLSN, flushing, pc, target, path_set, crashed>>

(* flush_to of a number that append has returned. *)
FlushTo(t, lsn) ==
  /\ At(t, "idle")
  /\ lsn < currentLSN
  /\ target' = [target EXCEPT ![t] = lsn]
  /\ Goto(t, "check")
  /\ UNCHANGED <<buffers, leading, disk, flushedLSN, flushing, path_set, crashed>>

(* Mutant: who finds a leader at work leaves. *)
DoneBesideLeader(t) ==
  /\ At(t, "check") /\ (flushedLSN >= target[t] \/ flushing)
  /\ Return(t)
  /\ UNCHANGED <<buffers, leading, disk, flushedLSN, flushing, path_set, crashed>>

(* wait_durable with flush_mtx_ held: done, lead, or wait. *)
Done(t) ==
  /\ At(t, "check") /\ flushedLSN >= target[t]
  /\ Return(t)
  /\ UNCHANGED <<buffers, leading, disk, flushedLSN, flushing, path_set, crashed>>

(* Mutant: the leader does not say that it leads. *)
LeadSilently(t) ==
  /\ At(t, "check") /\ flushedLSN < target[t] /\ ~flushing
  /\ Goto(t, "copy")
  /\ UNCHANGED <<buffers, leading, disk, flushedLSN, flushing, target, path_set, crashed>>

Lead(t) ==
  /\ At(t, "check") /\ flushedLSN < target[t] /\ ~flushing
  /\ flushing' = TRUE
  /\ Goto(t, "copy")
  /\ UNCHANGED <<buffers, leading, disk, flushedLSN, target, path_set, crashed>>

Wait(t) ==
  /\ At(t, "check") /\ flushedLSN < target[t] /\ flushing
  /\ Goto(t, "wait")
  /\ UNCHANGED <<buffers, leading, disk, flushedLSN, flushing, target, path_set, crashed>>
-----------------------------------------------------------------------------
(* Mutant: the append buffer is not emptied. *)
CopyKeepsBuffer(t) ==
  /\ At(t, "copy")
  /\ fill_buffer' = append_buffer
  /\ batch_end' = currentLSN
  /\ Goto(t, "open")
  /\ UNCHANGED <<buffers, created, disk, flushedLSN, flushing, target, path_set, crashed>>

(* copy_to_fill_buffer, under mtx. *)
Copy(t) ==
  /\ At(t, "copy")
  /\ fill_buffer' = append_buffer
  /\ batch_end' = currentLSN
  /\ append_buffer' = <<>> /\ fill_offset' = 0
  /\ Goto(t, "open")
  /\ UNCHANGED <<currentLSN, created, disk, flushedLSN, flushing, target, path_set, crashed>>

(* append_durable.  A failing call throws out of flush_to and leaves       *)
(* flushing_ set.                                                          *)
Open(t) ==
  /\ At(t, "open") /\ path_set
  /\ exists' = TRUE /\ created' = ~exists
  /\ Goto(t, "write")
  /\ UNCHANGED <<buffers, fill_buffer, batch_end, linked, file, synced, torn, flushedLSN, flushing, target, path_set, crashed>>

Write(t) ==
  /\ At(t, "write") /\ fill_buffer # <<>>
  /\ file' = Append(file, Head(fill_buffer))
  /\ fill_buffer' = Tail(fill_buffer)
  /\ UNCHANGED <<buffers, batch_end, created, exists, linked, synced, torn, flushedLSN, flushing, pc, target, path_set, crashed>>

(* Mutant: the directory of a new file is not synced. *)
SyncFileOnly(t) ==
  /\ At(t, "write") /\ fill_buffer = <<>>
  /\ synced' = Len(file)
  /\ Goto(t, "publish")
  /\ UNCHANGED <<buffers, leading, exists, linked, file, torn, flushedLSN, flushing, target, path_set, crashed>>

Sync(t) ==
  /\ At(t, "write") /\ fill_buffer = <<>>
  /\ synced' = Len(file)
  /\ Goto(t, IF created THEN "sync_dir" ELSE "publish")
  /\ UNCHANGED <<buffers, leading, exists, linked, file, torn, flushedLSN, flushing, target, path_set, crashed>>

SyncDir(t) ==
  /\ At(t, "sync_dir")
  /\ linked' = TRUE
  /\ Goto(t, "publish")
  /\ UNCHANGED <<buffers, leading, exists, file, synced, torn, flushedLSN, flushing, target, path_set, crashed>>

Fail(t) ==
  /\ ~crashed /\ pc[t] \in {"open", "write", "sync_dir"}
  /\ \/ torn' = torn
     \/ pc[t] = "write" /\ fill_buffer # <<>> /\ torn' = TRUE
  /\ Return(t)
  /\ UNCHANGED <<buffers, leading, exists, linked, file, synced, flushedLSN, flushing, path_set, crashed>>

(* Mutant: flush_cv_ is not notified. *)
PublishSilently(t) ==
  /\ At(t, "publish")
  /\ flushedLSN' = batch_end
  /\ flushing' = FALSE
  /\ Goto(t, "check")
  /\ UNCHANGED <<buffers, leading, disk, target, path_set, crashed>>

(* flush_mtx_ again: the batch is durable, everyone looks again. *)
Publish(t) ==
  /\ At(t, "publish")
  /\ flushedLSN' = batch_end
  /\ flushing' = FALSE
  /\ pc' = [u \in Thread |-> IF u = t \/ pc[u] = "wait" THEN "check" ELSE pc[u]]
  /\ UNCHANGED <<buffers, leading, disk, target, path_set, crashed>>

(* Records that survive a crash. *)
Durable == IF linked THEN synced ELSE 0

(* Memory is lost, and of the file what was not synced, from its end.      *)
(* flushedLSN stays, as what the callers have been told.                   *)
Crash ==
  /\ ~crashed
  /\ crashed' = TRUE
  /\ \E n \in Durable..Len(file) : file' = SubSeq(file, 1, n)
  /\ pc' = [t \in Thread |-> "idle"] /\ target' = [t \in Thread |-> 0]
  /\ append_buffer' = <<>> /\ fill_offset' = 0 /\ fill_buffer' = <<>>
  /\ flushing' = FALSE /\ created' = FALSE /\ batch_end' = 0 /\ torn' = FALSE
  /\ UNCHANGED <<currentLSN, exists, linked, synced, flushedLSN, path_set>>
-----------------------------------------------------------------------------
InFlush(t) ==
  \/ Done(t) \/ Lead(t) \/ Wait(t) \/ Copy(t) \/ Open(t) \/ Write(t) \/ Sync(t)
  \/ SyncDir(t) \/ Publish(t)

(* A leader has left with an exception: flushing_ will stay set. *)
Stuck == flushing /\ \A t \in Thread : pc[t] \notin Leading

Over ==
  /\ crashed \/ Stuck
  /\ UNCHANGED vars

Next ==
  \/ \E t \in Thread :
       \/ \E size \in Size : AppendRecord(t, size)
       \/ \E lsn \in 0..(MaxLSN - 1) : FlushTo(t, lsn)
       \/ InFlush(t) \/ Fail(t)
  \/ Crash
  \/ Over

(* A thread in flush_to goes on as far as it can; a system call returns,   *)
(* with success or without.                                                *)
Spec == Init /\ [][Next]_vars /\ \A t \in Thread : WF_vars(InFlush(t) \/ Fail(t))
-----------------------------------------------------------------------------
Record == [lsn : Nat, by : Thread]

(* Every variable keeps its type; the buffer is never overrun. *)
TypeOK ==
  /\ append_buffer \in Seq(Record) /\ fill_buffer \in Seq(Record) /\ file \in Seq(Record)
  /\ fill_offset \in 0..BufferSize
  /\ currentLSN \in 0..MaxLSN /\ flushedLSN \in Nat /\ batch_end \in Nat /\ synced \in Nat
  /\ pc \in [Thread -> Leading \cup {"idle", "check", "wait"}] /\ target \in [Thread -> Nat]
  /\ flushing \in BOOLEAN /\ created \in BOOLEAN /\ path_set \in BOOLEAN /\ exists \in BOOLEAN
  /\ linked \in BOOLEAN /\ torn \in BOOLEAN /\ crashed \in BOOLEAN

(* At most one thread leads, and flushing_ says so: fill_buffer and the    *)
(* file, which no mutex guards, have one user.                             *)
OneLeader ==
  \A t \in Thread : pc[t] \in Leading =>
    flushing /\ \A u \in Thread \ {t} : pc[u] \notin Leading

(* Who sleeps on flush_cv_ sleeps while somebody leads (or has failed and  *)
(* left flushing_ set): no notification is missed.                         *)
NoLostWakeup == \A t \in Thread : pc[t] = "wait" => flushing

(* The file, the rest of the batch and the buffer hold together every      *)
(* record once, in the order of the numbers -- through every interleaving  *)
(* of appends with a running flush, and after a failed one.  Nobody writes *)
(* behind a record that a failed write has cut off.                        *)
Whole == file \o fill_buffer \o append_buffer

LogIsWhole ==
  ~crashed => /\ Len(Whole) = currentLSN
              /\ \A i \in 1..currentLSN : Whole[i].lsn = i - 1
              /\ torn => \A t \in Thread : pc[t] \notin Leading

(* The records below flushedLSN are in the file, and still there after a   *)
(* crash at any point.                                                     *)
FlushedSurvives ==
  /\ flushedLSN <= Durable /\ flushedLSN <= Len(file)
  /\ \A i \in 1..flushedLSN : file[i].lsn = i - 1

(* Every call of flush_to returns or throws, unless a leader has thrown.   *)
FlushReturns ==
  \A t \in Thread : pc[t] # "idle" ~> pc[t] = "idle" \/ Stuck \/ crashed

(* The log manager is a log with a growing durable prefix: a flush returns *)
(* without error only when the records before the one asked for are in it. *)
Abstract == INSTANCE DurableLog WITH
  log <- [i \in DOMAIN Whole |-> Whole[i].by],
  durable <- Durable,
  wanted <- [t \in Thread |-> IF pc[t] = "idle" THEN -1 ELSE target[t]],
  broken <- Stuck

ImplementsDurableLog == Abstract!Spec

(* log_manager.h:140, "make log durable up to requested LSN, signal        *)
(* completion after fsync returns": the record asked for is on disk when   *)
(* flush_to returns.                                                       *)
RequestedRecordIsDurable ==
  [][\A t \in Thread : pc[t] = "check" /\ pc'[t] = "idle" => target[t] < Durable]_vars
=============================================================================
