--------------------------- MODULE LogManagerProofs ---------------------------
(***************************************************************************)
(* The log manager keeps one leader, wakes every waiter, loses no record   *)
(* and never counts one as flushed that a crash could take: for every set  *)
(* of threads and every size of the buffer.                                *)
(***************************************************************************)
EXTENDS LogManager, TLAPS

(* Where the records are: numbered from the front of the file through the  *)
(* rest of the batch to the end of the buffer.                             *)
Numbered ==
  /\ \A i \in 1..Len(file) : file[i].lsn = i - 1
  /\ ~crashed =>
       /\ \A i \in 1..Len(fill_buffer) : fill_buffer[i].lsn = Len(file) + i - 1
       /\ \A i \in 1..Len(append_buffer) :
            append_buffer[i].lsn = Len(file) + Len(fill_buffer) + i - 1
       /\ currentLSN = Len(file) + Len(fill_buffer) + Len(append_buffer)

(* What the leader knows at each of its steps. *)
Batch ==
  \A t \in Thread :
    /\ pc[t] = "copy" => fill_buffer = <<>>
    /\ pc[t] \in {"copy", "open"} => linked = exists
    /\ pc[t] \in {"open", "write"} => batch_end = Len(file) + Len(fill_buffer)
    /\ pc[t] = "write" => linked \/ created
    /\ pc[t] \in {"write", "sync_dir", "publish"} => exists
    /\ pc[t] \in {"sync_dir", "publish"} => fill_buffer = <<>>
    /\ pc[t] = "sync_dir" => batch_end = synced
    /\ pc[t] = "publish" => batch_end = synced /\ linked

(* Between batches everything written is synced and the file is linked. *)
Settled == ~flushing /\ ~crashed => fill_buffer = <<>> /\ linked = exists

SyncedInFile == linked \/ ~crashed => synced <= Len(file)

(* After a torn record nobody leads again. *)
TornIsLast == torn => flushing /\ \A t \in Thread : pc[t] \notin Leading

Inv ==
  /\ TypeOK /\ OneLeader /\ NoLostWakeup
  /\ Numbered /\ Batch /\ Settled /\ SyncedInFile
  /\ TornIsLast /\ flushedLSN <= Durable

-----------------------------------------------------------------------------
(* The log manager starts with empty buffers, an empty file and no leader. *)
THEOREM InitInv == Init => Inv
  <1> SUFFICES ASSUME Init PROVE Inv
    OBVIOUS
  <1>1. TypeOK
    <2>1. append_buffer \in Seq(Record) /\ fill_buffer \in Seq(Record) /\ file \in Seq(Record)
      BY DEF Init
    <2>2. pc \in [Thread -> Leading \cup {"idle", "check", "wait"}] /\ target \in [Thread -> Nat]
      BY DEF Init
    <2>3. /\ fill_offset \in 0..BufferSize /\ currentLSN \in 0..MaxLSN
          /\ flushedLSN \in Nat /\ batch_end \in Nat /\ synced \in Nat
      BY LogAssumption DEF Init
    <2> QED
      BY <2>1, <2>2, <2>3 DEF Init, TypeOK
  <1>2. OneLeader /\ NoLostWakeup /\ Batch /\ Settled /\ SyncedInFile /\ TornIsLast
    BY DEF Init, TornIsLast, OneLeader, NoLostWakeup, Batch, Settled, SyncedInFile, Leading
  <1>3. Numbered /\ flushedLSN <= Durable
    BY DEF Init, Numbered, Durable
  <1> QED
    BY <1>1, <1>2, <1>3 DEF Inv

(* Every append, every step of flush_to, every failure and a crash keep    *)
(* the invariant.                                                          *)
THEOREM StepInv == Inv /\ [Next]_vars => Inv'
  <1> SUFFICES ASSUME Inv, [Next]_vars PROVE Inv'
    OBVIOUS
  <1> USE LogAssumption DEF Inv
  <1>1. ASSUME NEW t \in Thread, NEW size \in Size, AppendRecord(t, size) PROVE Inv'
    <2>1. TypeOK'
      <3> [lsn |-> currentLSN, by |-> t] \in Record
        BY DEF TypeOK, Record
      <3> QED
        BY <1>1 DEF AppendRecord, leading, disk, TypeOK
    <2>2. OneLeader' /\ NoLostWakeup' /\ TornIsLast'
      BY <1>1 DEF AppendRecord, disk, OneLeader, NoLostWakeup, TornIsLast
    <2>3. Numbered'
      <3> DEFINE r == [lsn |-> currentLSN, by |-> t]
      <3>1. /\ append_buffer' = Append(append_buffer, r)
            /\ currentLSN' = currentLSN + 1
            /\ UNCHANGED <<file, fill_buffer, crashed>> /\ ~crashed
        BY <1>1 DEF AppendRecord, At, leading, disk
      <3>2. /\ append_buffer \in Seq(Record) /\ currentLSN \in Nat
            /\ Len(file) \in Nat /\ Len(fill_buffer) \in Nat /\ Len(append_buffer) \in Nat
        BY DEF TypeOK
      <3>3. /\ Len(append_buffer') = Len(append_buffer) + 1
            /\ append_buffer'[Len(append_buffer) + 1] = r
            /\ \A i \in 1..Len(append_buffer) : append_buffer'[i] = append_buffer[i]
        BY <3>1, <3>2
      <3>4. r.lsn = currentLSN
        OBVIOUS
      <3> HIDE DEF r
      <3>5. \A i \in 1..Len(append_buffer') :
              append_buffer'[i].lsn = Len(file) + Len(fill_buffer) + i - 1
        <4>1. currentLSN = Len(file) + Len(fill_buffer) + Len(append_buffer)
          BY <3>1 DEF Numbered
        <4>2. ASSUME NEW i \in 1..Len(append_buffer)
              PROVE  append_buffer'[i].lsn = Len(file) + Len(fill_buffer) + i - 1
          BY <3>1, <3>3 DEF Numbered
        <4>3. append_buffer'[Len(append_buffer) + 1].lsn = Len(file) + Len(fill_buffer) + Len(append_buffer)
          BY <3>3, <3>4, <4>1
        <4> QED
          BY <3>2, <3>3, <4>2, <4>3
      <3> QED
        BY <3>1, <3>2, <3>3, <3>5 DEF Numbered
    <2>4. Batch' /\ Settled'
      BY <1>1 DEF AppendRecord, leading, disk, Batch, Settled
    <2>5. SyncedInFile' /\ flushedLSN' <= Durable'
      BY <1>1 DEF AppendRecord, disk, SyncedInFile, Durable
    <2> QED
      BY <2>1, <2>2, <2>3, <2>4, <2>5
  <1>2. ASSUME NEW t \in Thread, NEW lsn \in 0..(MaxLSN - 1), FlushTo(t, lsn) PROVE Inv'
    <2>1. TypeOK'
      BY <1>2 DEF FlushTo, Goto, buffers, leading, disk, TypeOK
    <2>2. OneLeader' /\ NoLostWakeup' /\ TornIsLast'
      BY <1>2 DEF FlushTo, Goto, disk, OneLeader, NoLostWakeup, TornIsLast, Leading
    <2>3. Numbered'
      BY <1>2 DEF FlushTo, buffers, leading, disk, Numbered
    <2>4. Batch' /\ Settled'
      BY <1>2 DEF FlushTo, Goto, leading, disk, Batch, Settled
    <2>5. SyncedInFile' /\ flushedLSN' <= Durable'
      BY <1>2 DEF FlushTo, disk, SyncedInFile, Durable
    <2> QED
      BY <2>1, <2>2, <2>3, <2>4, <2>5
  <1>3. ASSUME NEW t \in Thread, Done(t) PROVE Inv'
    <2>1. TypeOK'
      BY <1>3 DEF Done, Goto, Return, buffers, leading, disk, TypeOK
    <2>2. OneLeader' /\ NoLostWakeup' /\ TornIsLast'
      BY <1>3 DEF Done, Goto, Return, disk, OneLeader, NoLostWakeup, TornIsLast, Leading
    <2>3. Numbered'
      BY <1>3 DEF Done, buffers, leading, disk, Numbered
    <2>4. Batch' /\ Settled'
      BY <1>3 DEF Done, Goto, Return, leading, disk, Batch, Settled
    <2>5. SyncedInFile' /\ flushedLSN' <= Durable'
      BY <1>3 DEF Done, disk, SyncedInFile, Durable
    <2> QED
      BY <2>1, <2>2, <2>3, <2>4, <2>5
  <1>4. ASSUME NEW t \in Thread, Lead(t) PROVE Inv'
    <2>1. TypeOK'
      BY <1>4 DEF Lead, Goto, buffers, leading, disk, TypeOK, Leading
    <2>2. OneLeader' /\ NoLostWakeup' /\ TornIsLast'
      BY <1>4 DEF Lead, Goto, disk, OneLeader, NoLostWakeup, TornIsLast
    <2>3. Numbered'
      BY <1>4 DEF Lead, buffers, leading, disk, Numbered
    <2>4. Batch' /\ Settled'
      BY <1>4 DEF Lead, At, Goto, leading, disk, Batch, Settled
    <2>5. SyncedInFile' /\ flushedLSN' <= Durable'
      BY <1>4 DEF Lead, disk, SyncedInFile, Durable
    <2> QED
      BY <2>1, <2>2, <2>3, <2>4, <2>5
  <1>5. ASSUME NEW t \in Thread, Wait(t) PROVE Inv'
    <2>1. TypeOK'
      BY <1>5 DEF Wait, Goto, buffers, leading, disk, TypeOK
    <2>2. OneLeader' /\ NoLostWakeup' /\ TornIsLast'
      BY <1>5 DEF Wait, Goto, disk, OneLeader, NoLostWakeup, TornIsLast, Leading
    <2>3. Numbered'
      BY <1>5 DEF Wait, buffers, leading, disk, Numbered
    <2>4. Batch' /\ Settled'
      BY <1>5 DEF Wait, Goto, leading, disk, Batch, Settled
    <2>5. SyncedInFile' /\ flushedLSN' <= Durable'
      BY <1>5 DEF Wait, disk, SyncedInFile, Durable
    <2> QED
      BY <2>1, <2>2, <2>3, <2>4, <2>5
  <1>6. ASSUME NEW t \in Thread, Copy(t) PROVE Inv'
    <2>1. TypeOK'
      <3> <<>> \in Seq(Record)
        OBVIOUS
      <3> QED
        BY <1>6 DEF Copy, Goto, disk, TypeOK, Leading
    <2>2. OneLeader' /\ NoLostWakeup' /\ TornIsLast'
      BY <1>6 DEF Copy, At, Goto, disk, OneLeader, NoLostWakeup, TornIsLast, Leading
    <2> fill_buffer = <<>> /\ Len(fill_buffer) = 0
      BY <1>6 DEF Copy, At, Batch
    <2>3. Numbered'
      <3> append_buffer' = <<>> /\ Len(append_buffer') = 0
        BY <1>6 DEF Copy
      <3> Len(file) \in Nat /\ Len(append_buffer) \in Nat
        BY DEF TypeOK
      <3> QED
        BY <1>6 DEF Copy, disk, Numbered
    <2>4. Batch' /\ Settled'
      BY <1>6 DEF Copy, At, Goto, disk, TypeOK, Numbered, Batch, Settled, OneLeader
    <2>5. SyncedInFile' /\ flushedLSN' <= Durable'
      BY <1>6 DEF Copy, disk, SyncedInFile, Durable
    <2> QED
      BY <2>1, <2>2, <2>3, <2>4, <2>5
  <1>7. ASSUME NEW t \in Thread, Open(t) PROVE Inv'
    <2>1. TypeOK'
      BY <1>7 DEF Open, Goto, buffers, TypeOK, Leading
    <2>2. OneLeader' /\ NoLostWakeup' /\ TornIsLast'
      BY <1>7 DEF Open, At, Goto, OneLeader, NoLostWakeup, TornIsLast, Leading
    <2>3. Numbered'
      BY <1>7 DEF Open, buffers, Numbered
    <2>4. Batch' /\ Settled'
      BY <1>7 DEF Open, At, Goto, TypeOK, Batch, Settled, OneLeader
    <2>5. SyncedInFile' /\ flushedLSN' <= Durable'
      BY <1>7 DEF Open, SyncedInFile, Durable
    <2> QED
      BY <2>1, <2>2, <2>3, <2>4, <2>5
  <1>8. ASSUME NEW t \in Thread, Write(t) PROVE Inv'
    <2>1. TypeOK'
      BY <1>8 DEF Write, buffers, TypeOK
    <2>2. OneLeader' /\ NoLostWakeup' /\ TornIsLast'
      BY <1>8 DEF Write, OneLeader, NoLostWakeup, TornIsLast
    <2>3. Numbered'
      <3>1. /\ ~crashed /\ fill_buffer \in Seq(Record) /\ fill_buffer # <<>> /\ file \in Seq(Record)
            /\ append_buffer \in Seq(Record)
        BY <1>8 DEF Write, At, TypeOK
      <3>2. /\ Len(file') = Len(file) + 1 /\ Len(fill_buffer') = Len(fill_buffer) - 1
            /\ \A i \in 1..Len(file) : file'[i] = file[i]
            /\ file'[Len(file) + 1] = fill_buffer[1]
            /\ \A i \in 1..Len(fill_buffer') : fill_buffer'[i] = fill_buffer[i + 1]
            /\ UNCHANGED <<append_buffer, currentLSN, crashed>>
        BY <1>8, <3>1 DEF Write, buffers
      <3>3. Len(fill_buffer) >= 1 /\ Len(fill_buffer) \in Nat /\ Len(file) \in Nat
        BY <3>1
      <3>4. ASSUME NEW i \in 1..Len(file') PROVE file'[i].lsn = i - 1
        <4>1. CASE i \in 1..Len(file)
          BY <4>1, <3>2 DEF Numbered
        <4>2. CASE i = Len(file) + 1
          BY <4>2, <3>1, <3>2, <3>3 DEF Numbered
        <4> QED
          BY <4>1, <4>2, <3>2, <3>3
      <3>5. ASSUME NEW i \in 1..Len(fill_buffer')
            PROVE  fill_buffer'[i].lsn = Len(file') + i - 1
        BY <3>1, <3>2, <3>3 DEF Numbered
      <3>6. Len(append_buffer) \in Nat
        BY <3>1
      <3> QED
        BY <3>1, <3>2, <3>3, <3>4, <3>5, <3>6 DEF Numbered
    <2>4. Batch' /\ Settled'
      <3>1. Len(file') + Len(fill_buffer') = Len(file) + Len(fill_buffer)
        BY <1>8 DEF Write, TypeOK
      <3> QED
        BY <1>8, <3>1 DEF Write, Batch, Settled
    <2>5. SyncedInFile' /\ flushedLSN' <= Durable'
      BY <1>8 DEF Write, TypeOK, SyncedInFile, Durable
    <2> QED
      BY <2>1, <2>2, <2>3, <2>4, <2>5
  <1>9. ASSUME NEW t \in Thread, Sync(t) PROVE Inv'
    <2>1. TypeOK'
      BY <1>9 DEF Sync, Goto, buffers, leading, TypeOK, Leading
    <2>2. OneLeader' /\ NoLostWakeup' /\ TornIsLast'
      BY <1>9 DEF Sync, At, Goto, OneLeader, NoLostWakeup, TornIsLast, Leading
    <2>3. Numbered'
      BY <1>9 DEF Sync, buffers, leading, Numbered
    <2>4. Batch' /\ Settled'
      BY <1>9 DEF Sync, At, Goto, leading, Batch, Settled
    <2>5. SyncedInFile' /\ flushedLSN' <= Durable'
      BY <1>9 DEF Sync, TypeOK, SyncedInFile, Durable
    <2> QED
      BY <2>1, <2>2, <2>3, <2>4, <2>5
  <1>10. ASSUME NEW t \in Thread, SyncDir(t) PROVE Inv'
    <2>1. TypeOK'
      BY <1>10 DEF SyncDir, Goto, buffers, leading, TypeOK, Leading
    <2>2. OneLeader' /\ NoLostWakeup' /\ TornIsLast'
      BY <1>10 DEF SyncDir, At, Goto, OneLeader, NoLostWakeup, TornIsLast, Leading
    <2>3. Numbered'
      BY <1>10 DEF SyncDir, buffers, leading, Numbered
    <2>4. Batch' /\ Settled'
      BY <1>10 DEF SyncDir, At, Goto, leading, TypeOK, Batch, Settled
    <2>5. SyncedInFile' /\ flushedLSN' <= Durable'
      BY <1>10 DEF SyncDir, At, TypeOK, SyncedInFile, Durable
    <2> QED
      BY <2>1, <2>2, <2>3, <2>4, <2>5
  <1>11. ASSUME NEW t \in Thread, Fail(t) PROVE Inv'
    <2>1. TypeOK'
      BY <1>11 DEF Fail, Goto, Return, buffers, leading, TypeOK
    <2>2. OneLeader' /\ NoLostWakeup' /\ TornIsLast'
      BY <1>11 DEF Fail, Goto, Return, TypeOK, OneLeader, NoLostWakeup, TornIsLast, Leading
    <2>3. Numbered'
      BY <1>11 DEF Fail, buffers, leading, Numbered
    <2>4. Batch' /\ Settled'
      BY <1>11 DEF Fail, Goto, Return, TypeOK, Batch, Settled, OneLeader
    <2>5. SyncedInFile' /\ flushedLSN' <= Durable'
      BY <1>11 DEF Fail, SyncedInFile, Durable
    <2> QED
      BY <2>1, <2>2, <2>3, <2>4, <2>5
  <1>12. ASSUME NEW t \in Thread, Publish(t) PROVE Inv'
    <2>1. TypeOK'
      BY <1>12 DEF Publish, buffers, leading, disk, TypeOK
    <2>2. OneLeader' /\ NoLostWakeup' /\ TornIsLast'
      BY <1>12 DEF Publish, At, disk, OneLeader, NoLostWakeup, TornIsLast, Leading
    <2>3. Numbered'
      BY <1>12 DEF Publish, buffers, leading, disk, Numbered
    <2>4. Batch' /\ Settled'
      BY <1>12 DEF Publish, At, leading, disk, TypeOK, Batch, Settled
    <2>5. SyncedInFile' /\ flushedLSN' <= Durable'
      BY <1>12 DEF Publish, At, disk, TypeOK, Batch, SyncedInFile, Durable
    <2> QED
      BY <2>1, <2>2, <2>3, <2>4, <2>5
  <1>13. ASSUME Crash PROVE Inv'
    <2>1. TypeOK'
      <3>1. PICK n \in Durable..Len(file) : file' = SubSeq(file, 1, n)
        BY <1>13 DEF Crash
      <3>2. Durable \in Nat /\ Len(file) \in Nat
        BY DEF TypeOK, Durable
      <3>3. file' \in Seq(Record)
        BY <3>1, <3>2 DEF TypeOK
      <3>5. append_buffer' \in Seq(Record) /\ fill_buffer' \in Seq(Record)
        BY <1>13 DEF Crash
      <3>6. /\ fill_offset' \in 0..BufferSize /\ currentLSN' \in 0..MaxLSN
            /\ flushedLSN' \in Nat /\ batch_end' \in Nat /\ synced' \in Nat
        BY <1>13 DEF Crash, TypeOK
      <3>4. pc' \in [Thread -> Leading \cup {"idle", "check", "wait"}] /\ target' \in [Thread -> Nat]
        BY <1>13 DEF Crash
      <3> QED
        BY <1>13, <3>3, <3>4, <3>5, <3>6 DEF Crash, TypeOK
    <2>2. OneLeader' /\ NoLostWakeup' /\ TornIsLast'
      BY <1>13 DEF Crash, OneLeader, NoLostWakeup, TornIsLast, Leading
    <2>3. Numbered'
      BY <1>13 DEF Crash, Numbered
    <2>4. Batch' /\ Settled'
      BY <1>13 DEF Crash, Batch, Settled
    <2>5. SyncedInFile' /\ flushedLSN' <= Durable'
      BY <1>13 DEF Crash, TypeOK, SyncedInFile, Durable
    <2> QED
      BY <2>1, <2>2, <2>3, <2>4, <2>5
  <1>14. ASSUME UNCHANGED vars PROVE Inv'
    <2>1. TypeOK'
      BY <1>14 DEF vars, buffers, leading, disk, TypeOK
    <2>2. OneLeader' /\ NoLostWakeup' /\ TornIsLast'
      BY <1>14 DEF vars, disk, OneLeader, NoLostWakeup, TornIsLast
    <2>3. Numbered'
      BY <1>14 DEF vars, buffers, leading, disk, Numbered
    <2>4. Batch' /\ Settled'
      BY <1>14 DEF vars, leading, disk, Batch, Settled
    <2>5. SyncedInFile' /\ flushedLSN' <= Durable'
      BY <1>14 DEF vars, disk, SyncedInFile, Durable
    <2> QED
      BY <2>1, <2>2, <2>3, <2>4, <2>5
  <1> QED
    BY <1>1, <1>2, <1>3, <1>4, <1>5, <1>6, <1>7, <1>8, <1>9, <1>10, <1>11, <1>12, <1>13, <1>14
    DEF Next, InFlush, Over

(* In every behaviour, whatever the threads and the sizes are.             *)
THEOREM Invariance == Spec => []Inv
  BY InitInv, StepInv, PTL DEF Spec

(* Every variable keeps its type, and the append buffer is never overrun.  *)
THEOREM Typed == Spec => []TypeOK
  BY Invariance, PTL DEF Inv

(* One thread at a time writes the batch, from copying the buffer to       *)
(* telling the others.                                                     *)
THEOREM LeaderIsAlone == Spec => []OneLeader
  BY Invariance, PTL DEF Inv

(* No thread sleeps on flush_cv_ when nobody leads.                        *)
THEOREM WaitersAreWoken == Spec => []NoLostWakeup
  BY Invariance, PTL DEF Inv

(* What flushedLSN says is on disk is in the file, crash or no crash.      *)
THEOREM FlushedIsSafe == Spec => []FlushedSurvives
  <1>1. Inv => FlushedSurvives
    BY DEF Inv, FlushedSurvives, Numbered, SyncedInFile, Durable, TypeOK
  <1> QED
    BY <1>1, Invariance, PTL

(* No record is lost, repeated or out of order between buffer and file.    *)
THEOREM NothingIsLost == Spec => []LogIsWhole
  <1>1. ASSUME Inv, ~crashed
        PROVE  /\ Len(Whole) = currentLSN
               /\ \A i \in 1..currentLSN : Whole[i].lsn = i - 1
    <2>1. file \in Seq(Record) /\ fill_buffer \in Seq(Record) /\ append_buffer \in Seq(Record)
      BY <1>1 DEF Inv, TypeOK
    <2>2. Len(file) \in Nat /\ Len(fill_buffer) \in Nat /\ Len(append_buffer) \in Nat
      BY <2>1
    <2>3. Len(Whole) = Len(file) + Len(fill_buffer) + Len(append_buffer)
      BY <2>1 DEF Whole
    <2>4. ASSUME NEW i \in 1..Len(Whole) PROVE Whole[i].lsn = i - 1
      <3>1. CASE i <= Len(file)
        BY <1>1, <2>1, <2>2, <2>3, <3>1 DEF Whole, Inv, Numbered
      <3>2. CASE Len(file) < i /\ i <= Len(file) + Len(fill_buffer)
        <4>1. Whole[i] = fill_buffer[i - Len(file)] /\ i - Len(file) \in 1..Len(fill_buffer)
          BY <2>1, <2>2, <2>3, <3>2 DEF Whole
        <4> QED
          BY <1>1, <2>2, <4>1 DEF Inv, Numbered
      <3>3. CASE Len(file) + Len(fill_buffer) < i
        <4> DEFINE j == i - Len(file) - Len(fill_buffer)
        <4>1. Whole[i] = append_buffer[j] /\ j \in 1..Len(append_buffer)
          BY <2>1, <2>2, <2>3, <3>3 DEF Whole
        <4> QED
          BY <1>1, <2>2, <4>1 DEF Inv, Numbered
      <3> QED
        BY <2>2, <2>3, <3>1, <3>2, <3>3
    <2> QED
      BY <1>1, <2>2, <2>3, <2>4 DEF Inv, Numbered
  <1>2. Inv => LogIsWhole
    BY <1>1 DEF Inv, LogIsWhole, TornIsLast
  <1> QED
    BY <1>2, Invariance, PTL
-----------------------------------------------------------------------------
(***************************************************************************)
(* The log manager implements DurableLog: group commit, failures and       *)
(* crashes look to its callers like a log with one growing durable prefix. *)
(***************************************************************************)

log == [i \in DOMAIN Whole |-> Whole[i].by]
wanted == [t \in Thread |-> IF pc[t] = "idle" THEN -1 ELSE target[t]]

(* The parts of the log are sequences of records, and their lengths add up. *)
LEMMA WholeType ==
  ASSUME Inv
  PROVE  /\ file \in Seq(Record) /\ fill_buffer \in Seq(Record) /\ append_buffer \in Seq(Record)
         /\ Len(file) \in Nat /\ Len(fill_buffer) \in Nat /\ Len(append_buffer) \in Nat
         /\ Whole \in Seq(Record) /\ Len(Whole) \in Nat
         /\ Len(Whole) = Len(file) + Len(fill_buffer) + Len(append_buffer)
         /\ DOMAIN Whole = 1..Len(Whole)
         /\ log \in Seq(Thread) /\ Len(log) = Len(Whole)
  <1>1. file \in Seq(Record) /\ fill_buffer \in Seq(Record) /\ append_buffer \in Seq(Record)
    BY DEF Inv, TypeOK
  <1>2. /\ Len(file) \in Nat /\ Len(fill_buffer) \in Nat /\ Len(append_buffer) \in Nat
        /\ Whole \in Seq(Record) /\ Len(Whole) \in Nat
        /\ Len(Whole) = Len(file) + Len(fill_buffer) + Len(append_buffer)
        /\ DOMAIN Whole = 1..Len(Whole)
    BY <1>1 DEF Whole
  <1>3. \A i \in 1..Len(Whole) : Whole[i].by \in Thread
    <2> TAKE i \in 1..Len(Whole)
    <2> Whole[i] \in Record
      BY <1>2
    <2> QED
      BY DEF Record
  <1>4. log \in Seq(Thread) /\ Len(log) = Len(Whole)
    BY <1>2, <1>3 DEF log
  <1> QED
    BY <1>1, <1>2, <1>4

(* A log of empty parts is empty, with nothing durable and nobody waiting. *)
THEOREM InitRefines == Init => Abstract!Init
  <1> SUFFICES ASSUME Init PROVE Abstract!Init
    OBVIOUS
  <1>1. Whole = <<>>
    BY DEF Init, Whole
  <1>2. [i \in DOMAIN Whole |-> Whole[i].by] = <<>>
    BY <1>1
  <1>3. Durable = 0 /\ Stuck = FALSE
    BY DEF Init, Durable, Stuck
  <1>4. [t \in Thread |-> IF pc[t] = "idle" THEN -1 ELSE target[t]] = [t \in Thread |-> -1]
    BY DEF Init
  <1> QED
    BY <1>2, <1>3, <1>4 DEF Abstract!Init
(* The same records in the same order are the same log.                    *)
LEMMA SameLog ==
  ASSUME Whole' = Whole
  PROVE  log' = log
  BY DEF log

(* A step that keeps the log, what is durable, who waits for what and      *)
(* whether a leader has thrown is none for the callers.                    *)
LEMMA Stutter ==
  ASSUME log' = log, Durable' = Durable, wanted' = wanted, Stuck' = Stuck
  PROVE  UNCHANGED Abstract!vars
  BY DEF Abstract!vars, log, wanted

(* Every step of the log manager is one of the log, or none.               *)
THEOREM StepRefines == Inv /\ [Next]_vars => [Abstract!Next]_(Abstract!vars)
  <1> SUFFICES ASSUME Inv, [Next]_vars PROVE [Abstract!Next]_(Abstract!vars)
    OBVIOUS
  <1> USE LogAssumption
  <1>1. ASSUME NEW t \in Thread, NEW size \in Size, AppendRecord(t, size)
        PROVE  Abstract!Append1(t)
    <2> DEFINE r == [lsn |-> currentLSN, by |-> t]
    <2>1. Whole' = Append(Whole, r)
      <3>1. r \in Record
        BY DEF Inv, TypeOK, Record
      <3>2. /\ append_buffer' = Append(append_buffer, r)
            /\ file' = file /\ fill_buffer' = fill_buffer
        BY <1>1 DEF AppendRecord, leading, disk
      <3> HIDE DEF r
      <3>3. (file \o fill_buffer) \o Append(append_buffer, r) = Append((file \o fill_buffer) \o append_buffer, r)
        BY <3>1, WholeType
      <3> QED
        BY <3>2, <3>3 DEF Whole
    <2>2. log' = Append(log, t)
      <3>1. r.by = t /\ r \in Record
        BY DEF Inv, TypeOK, Record
      <3> HIDE DEF r
      <3>2. /\ DOMAIN Whole' = 1..(Len(Whole) + 1)
            /\ \A i \in 1..Len(Whole) : Whole'[i] = Whole[i]
            /\ Whole'[Len(Whole) + 1] = r
        BY <2>1, <3>1, WholeType
      <3>3. /\ DOMAIN Append(log, t) = 1..(Len(Whole) + 1)
            /\ \A i \in 1..Len(Whole) : Append(log, t)[i] = log[i]
            /\ Append(log, t)[Len(Whole) + 1] = t
        BY WholeType
      <3> QED
        BY <3>1, <3>2, <3>3, WholeType DEF log
    <2>3. Durable' = Durable /\ Stuck' = Stuck /\ wanted' = wanted
      BY <1>1 DEF AppendRecord, leading, disk, Durable, Stuck, wanted
    <2> QED
      BY <2>2, <2>3 DEF Abstract!Append1, log, wanted
  <1>2. ASSUME NEW t \in Thread, NEW lsn \in 0..(MaxLSN - 1), FlushTo(t, lsn)
        PROVE  \E n \in 0..Len(log) : Abstract!Ask(t, n)
    <2>1. log' = log /\ Durable' = Durable
      BY <1>2 DEF FlushTo, buffers, leading, disk, Whole, log, Durable
    <2>2. lsn < Len(log) /\ lsn \in 0..Len(log)
      BY <1>2, WholeType DEF FlushTo, At, Inv, Numbered
    <2>3. wanted' = [wanted EXCEPT ![t] = lsn]
      BY <1>2 DEF FlushTo, Goto, wanted, Inv, TypeOK
    <2>4. Stuck' = Stuck
      BY <1>2 DEF FlushTo, At, Goto, Stuck, Leading, Inv, TypeOK
    <2> QED
      BY <2>1, <2>2, <2>3, <2>4 DEF Abstract!Ask, log, wanted
  <1>3. ASSUME NEW t \in Thread, Done(t)
        PROVE  Abstract!Answer(t)
    <2>1. log' = log /\ Durable' = Durable
      BY <1>3 DEF Done, buffers, leading, disk, Whole, log, Durable
    <2>2. wanted[t] <= Durable
      BY <1>3 DEF Done, At, wanted, Inv, TypeOK, Durable
    <2>3. wanted' = [wanted EXCEPT ![t] = -1]
      BY <1>3 DEF Done, Return, Goto, wanted, Inv, TypeOK
    <2>4. Stuck' = Stuck
      BY <1>3 DEF Done, At, Return, Goto, Stuck, Leading, Inv, TypeOK
    <2> QED
      BY <2>1, <2>2, <2>3, <2>4 DEF Abstract!Answer, log, wanted
  <1>4. ASSUME NEW t \in Thread, Lead(t) \/ Wait(t)
        PROVE  UNCHANGED Abstract!vars
    <2>1. log' = log /\ Durable' = Durable
      BY <1>4 DEF Lead, Wait, buffers, leading, disk, Whole, log, Durable
    <2>2. wanted' = wanted
      BY <1>4 DEF Lead, Wait, At, Goto, wanted, Inv, TypeOK
    <2>3. Stuck' = Stuck
      BY <1>4 DEF Lead, Wait, At, Goto, Stuck, Leading, Inv, TypeOK
    <2> QED
      BY <2>1, <2>2, <2>3, Stutter
  <1>5. ASSUME NEW t \in Thread, Copy(t)
        PROVE  UNCHANGED Abstract!vars
    <2>1. Whole' = Whole
      <3>1. /\ fill_buffer = <<>> /\ fill_buffer' = append_buffer
            /\ append_buffer' = <<>> /\ file' = file
        BY <1>5 DEF Copy, At, disk, Inv, Batch
      <3>2. (file \o append_buffer) \o <<>> = (file \o <<>>) \o append_buffer
        BY WholeType
      <3> QED
        BY <3>1, <3>2 DEF Whole
    <2>2. Durable' = Durable /\ wanted' = wanted
      BY <1>5 DEF Copy, At, Goto, disk, Durable, wanted, Inv, TypeOK
    <2>3. Stuck' = Stuck
      BY <1>5 DEF Copy, At, Goto, Stuck, Leading, Inv, TypeOK
    <2> QED
      BY <2>1, <2>2, <2>3, SameLog, Stutter
  <1>6. ASSUME NEW t \in Thread, Open(t)
        PROVE  UNCHANGED Abstract!vars
    <2>1. log' = log /\ Durable' = Durable
      BY <1>6 DEF Open, buffers, Whole, log, Durable
    <2>2. wanted' = wanted
      BY <1>6 DEF Open, At, Goto, wanted, Inv, TypeOK
    <2>3. Stuck' = Stuck
      BY <1>6 DEF Open, At, Goto, Stuck, Leading, Inv, TypeOK
    <2> QED
      BY <2>1, <2>2, <2>3, Stutter
  <1>7. ASSUME NEW t \in Thread, Write(t)
        PROVE  UNCHANGED Abstract!vars
    <2>1. Whole' = Whole
      <3>1. /\ fill_buffer # <<>> /\ fill_buffer' = Tail(fill_buffer)
            /\ file' = Append(file, Head(fill_buffer)) /\ append_buffer' = append_buffer
        BY <1>7 DEF Write, buffers
      <3>2. Append(file, Head(fill_buffer)) \o Tail(fill_buffer) = file \o fill_buffer
        BY <3>1, WholeType
      <3> QED
        BY <3>1, <3>2 DEF Whole
    <2>2. Durable' = Durable /\ wanted' = wanted /\ Stuck' = Stuck
      BY <1>7 DEF Write, Durable, wanted, Stuck
    <2> QED
      BY <2>1, <2>2, SameLog, Stutter
  <1>8. ASSUME NEW t \in Thread, Sync(t) \/ SyncDir(t)
        PROVE  Abstract!Harden
    <2>1. log' = log
      BY <1>8 DEF Sync, SyncDir, buffers, leading, Whole, log
    <2>2. Durable' \in Durable..Len(log)
      <3>1. synced \in Nat /\ synced <= Len(file) /\ Durable \in Nat /\ Durable <= synced
        BY <1>8 DEF Sync, SyncDir, At, Durable, Inv, TypeOK, SyncedInFile
      <3>2. Len(file) <= Len(log) /\ Len(file) \in Nat /\ Len(log) \in Nat
        BY WholeType
      <3>3. Durable' \in {Durable, synced, Len(file)}
        BY <1>8 DEF Sync, SyncDir, Durable
      <3> QED
        BY <3>1, <3>2, <3>3
    <2>3. wanted' = wanted
      BY <1>8 DEF Sync, SyncDir, At, Goto, wanted, Inv, TypeOK
    <2>4. Stuck' = Stuck
      BY <1>8 DEF Sync, SyncDir, At, Goto, Stuck, Leading, Inv, TypeOK
    <2> QED
      BY <2>1, <2>2, <2>3, <2>4 DEF Abstract!Harden, log, wanted
  <1>9. ASSUME NEW t \in Thread, Fail(t)
        PROVE  Abstract!GiveUp(t)
    <2>1. log' = log /\ Durable' = Durable
      BY <1>9 DEF Fail, buffers, leading, Whole, log, Durable
    <2>2. wanted[t] # -1
      BY <1>9 DEF Fail, wanted, Inv, TypeOK
    <2>3. wanted' = [wanted EXCEPT ![t] = -1]
      BY <1>9 DEF Fail, Return, Goto, wanted, Inv, TypeOK
    <2>4. ~Stuck /\ Stuck'
      BY <1>9 DEF Fail, Return, Goto, Stuck, Leading, Inv, TypeOK, OneLeader
    <2> QED
      BY <2>1, <2>2, <2>3, <2>4 DEF Abstract!GiveUp, log, wanted
  <1>10. ASSUME NEW t \in Thread, Publish(t)
         PROVE  UNCHANGED Abstract!vars
    <2>1. log' = log /\ Durable' = Durable
      BY <1>10 DEF Publish, buffers, leading, disk, Whole, log, Durable
    <2>2. wanted' = wanted
      BY <1>10 DEF Publish, At, wanted, Inv, TypeOK
    <2>3. Stuck' = Stuck
      BY <1>10 DEF Publish, At, Stuck, Leading
    <2> QED
      BY <2>1, <2>2, <2>3, Stutter
  <1>11. ASSUME Crash
         PROVE  Abstract!Crash
    <2>1. PICK n \in Durable..Len(file) : file' = SubSeq(file, 1, n)
      BY <1>11 DEF Crash
    <2>2. n \in Nat /\ n <= Len(file) /\ n \in Durable..Len(log)
      BY <2>1, WholeType DEF Durable, Inv, TypeOK
    <2>3. Whole' = SubSeq(file, 1, n)
      <3>1. SubSeq(file, 1, n) \in Seq(Record)
        BY <2>2, WholeType
      <3>2. (SubSeq(file, 1, n) \o <<>>) \o <<>> = SubSeq(file, 1, n)
        BY <3>1
      <3> QED
        BY <1>11, <2>1, <3>2 DEF Crash, Whole
    <2>4. log' = SubSeq(log, 1, n)
      <3>1. DOMAIN Whole' = 1..n /\ \A i \in 1..n : Whole'[i] = file[i]
        BY <2>2, <2>3, WholeType
      <3>2. \A i \in 1..n : Whole[i] = file[i]
        BY <2>2, WholeType DEF Whole
      <3>3. \A i \in 1..n : log[i] = file[i].by
        BY <2>2, <3>2, WholeType DEF log
      <3>4. log' = [i \in 1..n |-> file[i].by]
        BY <3>1 DEF log
      <3>5. SubSeq(log, 1, n) = [i \in 1..n |-> log[i]]
        BY <2>2, WholeType
      <3> QED
        BY <3>3, <3>4, <3>5
    <2>5. Durable' = Durable
      BY <1>11 DEF Crash, Durable
    <2>6. wanted' = [t \in Thread |-> -1] /\ Stuck' = FALSE
      BY <1>11 DEF Crash, wanted, Stuck
    <2> QED
      BY <2>2, <2>4, <2>5, <2>6 DEF Abstract!Crash, log, wanted
  <1>12. ASSUME UNCHANGED vars
         PROVE  UNCHANGED Abstract!vars
    <2>1. log' = log /\ Durable' = Durable /\ wanted' = wanted /\ Stuck' = Stuck
      BY <1>12 DEF vars, buffers, leading, disk, Whole, log, Durable, wanted, Stuck
    <2> QED
      BY <2>1, Stutter
  <1> QED
    BY <1>1, <1>2, <1>3, <1>4, <1>5, <1>6, <1>7, <1>8, <1>9, <1>10, <1>11, <1>12
    DEF Next, InFlush, Over, Abstract!Next, log

(* Whatever the threads, the sizes and the crash point, the log manager is *)
(* a log whose flushes promise no record that a crash can take.            *)
THEOREM Implements == Spec => ImplementsDurableLog
  BY InitRefines, StepRefines, Invariance, PTL DEF Spec, ImplementsDurableLog, Abstract!Spec
=============================================================================
