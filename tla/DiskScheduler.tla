---------------------------- MODULE DiskScheduler ----------------------------
(***************************************************************************)
(* storage/disk_scheduler.{h,cpp} and common/channel.h: callers put        *)
(* requests into a queue guarded by a mutex and a condition variable, one  *)
(* background thread takes them out, runs them on the DiskManager and      *)
(* fulfils their promises.  A critical section of the channel's mutex is   *)
(* one step; notify_all, the input/output and the promise are steps of     *)
(* their own.                                                              *)
(***************************************************************************)
EXTENDS Naturals, Sequences, FiniteSets

CONSTANTS
  Client, MaxPage, Data,
  Workload,    \* the request vectors a call of Schedule may pass
  MaxCalls     \* bound: calls of Schedule per client

ASSUME SchedulerAssumption ==
  /\ MaxPage \in Nat \ {0}
  /\ MaxCalls \in Nat

VARIABLES
  queue,     \* request_queue_: requests with their client, or Nullopt
  worker,    \* background thread: see WorkerState
  hand,      \* the request the worker took, or Nullopt
  pc,        \* pc[c]: where client c is in Schedule and the wait for its futures
  batch,     \* batch[c]: requests of the running call still to put
  waiting,   \* waiting[c]: futures of the running call that are not ready
  calls,     \* calls[c]: calls of Schedule made
  owner,     \* the thread that runs ~DiskScheduler
  file, next, freed, buf   \* the disk and the callers' buffers (AtomicDisk)

disk == <<file, next, freed, buf>>
vars == <<queue, worker, hand, pc, batch, waiting, calls, owner, disk>>

WorkerState == {"get", "blocked", "run", "reply", "exited"}
ClientState == {"idle", "put", "notify", "await"}
OwnerState == {"alive", "notify", "join", "destroyed"}

(* What the atomic disk sees of the scheduler: of each client, the requests *)
(* that are not executed yet, in the order of the queue.                    *)
Joined(requests, e, c) ==
  IF e.op # "nullopt" /\ e.client = c THEN Append(requests, e.request) ELSE requests
InQueue(q, c) ==
  LET upTo[i \in 0..Len(q)] == IF i = 0 THEN <<>> ELSE Joined(upTo[i - 1], q[i], c)
  IN  upTo[Len(q)]
Unexecuted(c) ==
  (IF worker = "run" /\ hand.client = c THEN <<hand.request>> ELSE <<>>) \o InQueue(queue, c)

Disk == INSTANCE AtomicDisk WITH submitted <- [c \in Client |-> Unexecuted(c)]

Nullopt == [op |-> "nullopt"]
Tagged(c, r) == [op |-> r.op, client |-> c, request |-> r]

ASSUME WorkloadAssumption == Workload \subseteq Seq(Disk!Request) \ {<<>>}

Init ==
  /\ queue = <<>>
  /\ worker = "get"
  /\ hand = Nullopt
  /\ pc = [c \in Client |-> "idle"]
  /\ batch = [c \in Client |-> <<>>]
  /\ waiting = [c \in Client |-> 0]
  /\ calls = [c \in Client |-> 0]
  /\ owner = "alive"
  /\ Disk!Init

(* Mutant: the newest request is served first. *)
PushFront(q) == queue' = <<q>> \o queue

(* Channel::Put: the push under the mutex ... *)
Push(q) == queue' = Append(queue, q)

(* Mutant: Put without notify_all. *)
NotifyNobody == worker' = worker

(* ... then notify_all, after the unlock. *)
NotifyAll == worker' = IF worker = "blocked" THEN "get" ELSE worker

(* Schedule(requests): the caller fills the buffer its requests point to.  *)
(* No call starts once the destructor runs.                                *)
Schedule(c, requests) ==
  /\ pc[c] = "idle" /\ owner = "alive"
  /\ calls[c] < MaxCalls                        \* bound
  /\ calls' = [calls EXCEPT ![c] = @ + 1]
  /\ batch' = [batch EXCEPT ![c] = requests]
  /\ pc' = [pc EXCEPT ![c] = "put"]
  /\ \E d \in Data : buf' = [buf EXCEPT ![c] = d]
  /\ UNCHANGED <<queue, worker, hand, waiting, owner, file, next, freed>>

(* One Put per request: calls of two clients interleave. *)
Put(c) ==
  /\ pc[c] = "put"
  /\ Push(Tagged(c, Head(batch[c])))
  /\ batch' = [batch EXCEPT ![c] = Tail(@)]
  /\ waiting' = [waiting EXCEPT ![c] = @ + 1]
  /\ pc' = [pc EXCEPT ![c] = "notify"]
  /\ UNCHANGED <<worker, hand, calls, owner, disk>>

Notify(c) ==
  /\ pc[c] = "notify"
  /\ NotifyAll
  /\ pc' = [pc EXCEPT ![c] = IF batch[c] = <<>> THEN "await" ELSE "put"]
  /\ UNCHANGED <<queue, hand, batch, waiting, calls, owner, disk>>

(* future.get() on every request of the call. *)
Await(c) ==
  /\ pc[c] = "await" /\ waiting[c] = 0
  /\ pc' = [pc EXCEPT ![c] = "idle"]
  /\ UNCHANGED <<queue, worker, hand, batch, waiting, calls, owner, disk>>

(* Channel::Get under the mutex: block while the queue is empty, else take *)
(* the oldest request; Nullopt ends the thread.                            *)
Get ==
  /\ worker = "get"
  /\ \/ /\ queue = <<>>
        /\ worker' = "blocked"
        /\ UNCHANGED <<queue, hand>>
     \/ /\ queue # <<>>
        /\ queue' = Tail(queue)
        /\ hand' = Head(queue)
        /\ worker' = IF Head(queue) = Nullopt THEN "exited" ELSE "run"
  /\ UNCHANGED <<pc, batch, waiting, calls, owner, disk>>

(* The wait may wake up without a notification; the predicate is tested.   *)
SpuriousWakeup ==
  /\ worker = "blocked"
  /\ worker' = "get"
  /\ UNCHANGED <<queue, hand, pc, batch, waiting, calls, owner, disk>>

(* The visit of the request: the disk manager call, or its exception. *)
Run ==
  /\ worker = "run"
  /\ Disk!Apply(hand.client, hand.request)
  /\ worker' = "reply"
  /\ UNCHANGED <<queue, hand, pc, batch, waiting, calls, owner>>

(* set_value, or set_exception in the handler: either makes it ready. *)
Reply ==
  /\ worker = "reply"
  /\ waiting' = [waiting EXCEPT ![hand.client] = @ - 1]
  /\ hand' = Nullopt
  /\ worker' = "get"
  /\ UNCHANGED <<queue, pc, batch, calls, owner, disk>>

(* Mutant: the destructor throws the queued requests away. *)
StopClears ==
  /\ owner = "alive"
  /\ \A c \in Client : pc[c] \in {"idle", "await"}
  /\ queue' = <<Nullopt>>
  /\ owner' = "notify"
  /\ UNCHANGED <<worker, hand, pc, batch, waiting, calls, disk>>

(* ~DiskScheduler.  Its caller knows that no thread is inside Schedule;    *)
(* threads may still be waiting for their futures.                         *)
Stop ==
  /\ owner = "alive"
  /\ \A c \in Client : pc[c] \in {"idle", "await"}
  /\ Push(Nullopt)
  /\ owner' = "notify"
  /\ UNCHANGED <<worker, hand, pc, batch, waiting, calls, disk>>

StopNotify ==
  /\ owner = "notify"
  /\ NotifyAll
  /\ owner' = "join"
  /\ UNCHANGED <<queue, hand, pc, batch, waiting, calls, disk>>

Join ==
  /\ owner = "join" /\ worker = "exited"
  /\ owner' = "destroyed"
  /\ UNCHANGED <<queue, worker, hand, pc, batch, waiting, calls, disk>>

(* The program may end here, or never destroy the scheduler. *)
Finished ==
  /\ \A c \in Client : pc[c] = "idle"
  /\ owner = "destroyed"
  /\ UNCHANGED vars

ClientStep(c) == Put(c) \/ Notify(c) \/ Await(c)
Worker == Get \/ Run \/ Reply
Destructor == StopNotify \/ Join

Next ==
  \/ \E c \in Client : ClientStep(c) \/ \E requests \in Workload : Schedule(c, requests)
  \/ Worker \/ SpuriousWakeup
  \/ Stop \/ Destructor
  \/ Finished

(* Every thread that can take a step takes one in the end.  No thread has  *)
(* to make a call, and no call has to be the last.                         *)
Fairness ==
  /\ WF_vars(Worker)
  /\ WF_vars(Destructor)
  /\ \A c \in Client : WF_vars(ClientStep(c))

Spec == Init /\ [][Next]_vars /\ Fairness
-----------------------------------------------------------------------------
QueueEntry == {Nullopt} \cup {Tagged(c, r) : c \in Client, r \in Disk!Request}

(* Every variable keeps its type. *)
TypeOK ==
  /\ queue \in Seq(QueueEntry)
  /\ worker \in WorkerState /\ hand \in QueueEntry
  /\ pc \in [Client -> ClientState]
  /\ batch \in [Client -> Seq(Disk!Request)]
  /\ waiting \in [Client -> Nat]
  /\ calls \in [Client -> 0..MaxCalls]
  /\ owner \in OwnerState
  /\ file \in [1..MaxPage -> Data] /\ next \in Nat /\ freed \in [1..MaxPage -> Nat]
  /\ buf \in [Client -> Data]

(* Each future a client waits for belongs to exactly one request that is   *)
(* queued or in the worker's hand: none is lost, none answered twice.  When *)
(* the worker leaves, nothing scheduled is behind it in the queue: no      *)
(* promise is destroyed unfulfilled by ~DiskScheduler.                     *)
OneFuturePerRequest ==
  /\ TypeOK
  /\ \A c \in Client :
       waiting[c] = Cardinality({i \in DOMAIN queue :
                                   queue[i].op # "nullopt" /\ queue[i].client = c})
                     + (IF worker \in {"run", "reply"} /\ hand.client = c THEN 1 ELSE 0)
  /\ worker = "exited" => queue = <<>> /\ \A c \in Client : waiting[c] = 0

(* The worker sleeps on a non-empty queue only while somebody who put a    *)
(* request still has to notify (Put notifies after the unlock).            *)
NoLostWakeup ==
  worker = "blocked" /\ queue # <<>> =>
    owner = "notify" \/ \E c \in Client : pc[c] = "notify"

(* disk_scheduler.cpp:39: requests are executed in order, once, and in the *)
(* end (the atomic disk, its fairness included).                           *)
ImplementsAtomicDisk == Disk!Spec

(* A caller waiting for its futures returns; and the thread returns once   *)
(* the destructor is called (disk_scheduler.cpp:40: the join does not      *)
(* hang).                                                                  *)
CallsReturn ==
  /\ \A c \in Client : pc[c] = "put" ~> pc[c] = "idle"
  /\ owner = "notify" ~> owner = "destroyed"
=============================================================================
