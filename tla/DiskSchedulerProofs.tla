------------------------- MODULE DiskSchedulerProofs -------------------------
(***************************************************************************)
(* The safety invariants of DiskScheduler for any set of clients, any      *)
(* pages and any workload.  Inv counts, for each client, its requests in   *)
(* the queue and in the worker's hand, and keeps track of the Nullopt that *)
(* ends the worker: it is put once, behind everything else.                *)
(*                                                                         *)
(* Then the refinement of AtomicDisk.  The mapping is a function defined   *)
(* by recursion over the queue; what it does at either end of the queue is *)
(* shown by induction over the positions (ListLemmas!Counting).            *)
(***************************************************************************)
EXTENDS DiskScheduler, ListLemmas, FiniteSetTheorems, TLAPS

(* The places of c's requests in the queue. *)
Places(q, c) == {i \in DOMAIN q : q[i].op # "nullopt" /\ q[i].client = c}
InHand(c) == IF worker \in {"run", "reply"} /\ hand.client = c THEN 1 ELSE 0

Types ==
  /\ queue \in Seq(QueueEntry)
  /\ worker \in WorkerState /\ hand \in QueueEntry
  /\ pc \in [Client -> ClientState]
  /\ batch \in [Client -> Seq(Disk!Request)]
  /\ calls \in [Client -> 0..MaxCalls]
  /\ owner \in OwnerState
  /\ waiting \in [Client -> Int]

DiskTypes ==
  /\ file \in [1..MaxPage -> Data] /\ next \in Nat /\ freed \in [1..MaxPage -> Nat]
  /\ buf \in [Client -> Data]

(* A client that is about to put has a request left. *)
HasMore == \A c \in Client : pc[c] = "put" => batch[c] # <<>>

(* The worker runs a request, never the end marker. *)
RealRequest == worker \in {"run", "reply"} => hand # Nullopt

Counted == \A c \in Client : waiting[c] = Cardinality(Places(queue, c)) + InHand(c)

(* The end marker is put once, last, by the destructor; the worker takes   *)
(* it as the last entry of the queue and is gone.                          *)
EndsLast ==
  /\ owner = "alive" => worker # "exited" /\ \A i \in DOMAIN queue : queue[i] # Nullopt
  /\ owner # "alive" =>
       /\ \A c \in Client : pc[c] \in {"idle", "await"}
       /\ worker # "exited" =>
            /\ queue # <<>>
            /\ \A i \in DOMAIN queue : queue[i] = Nullopt <=> i = Len(queue)
       /\ worker = "exited" => queue = <<>>

Inv == Types /\ DiskTypes /\ HasMore /\ RealRequest /\ Counted /\ EndsLast /\ NoLostWakeup

-----------------------------------------------------------------------------
(* An entry of the queue is the end marker or a request of a client. *)
LEMMA Entries ==
  /\ Nullopt \in QueueEntry
  /\ \A q \in QueueEntry : q # Nullopt =>
       q.op # "nullopt" /\ q.client \in Client /\ q.request \in Disk!Request
  /\ \A c \in Client, r \in Disk!Request :
       /\ Tagged(c, r) \in QueueEntry /\ Tagged(c, r) # Nullopt
       /\ Tagged(c, r).op # "nullopt" /\ Tagged(c, r).client = c
  /\ Nullopt.op = "nullopt"
  <1>1. \A c \in Client, r \in Disk!Request :
          /\ Tagged(c, r).op # "nullopt" /\ Tagged(c, r).client = c
          /\ Tagged(c, r).request = r
    BY DEF Tagged, Disk!Request
  <1>2. Nullopt.op = "nullopt"
    BY DEF Nullopt
  <1> QED
    BY <1>1, <1>2 DEF QueueEntry

(* A push adds one place for the client of the entry, the end marker none. *)
LEMMA PushCounts ==
  ASSUME NEW q \in Seq(QueueEntry), NEW x \in QueueEntry, NEW c \in Client
  PROVE  /\ IsFiniteSet(Places(q, c)) /\ Cardinality(Places(q, c)) \in Nat
         /\ Cardinality(Places(Append(q, x), c)) =
              Cardinality(Places(q, c)) + (IF x # Nullopt /\ x.client = c THEN 1 ELSE 0)
  <1>1. Len(q) \in Nat /\ DOMAIN q = 1..Len(q)
    OBVIOUS
  <1>2. IsFiniteSet(1..Len(q))
    <2> \A n \in Nat : IsFiniteSet(1..n)
      BY FS_Interval
    <2> QED
      BY <1>1
  <1>3. IsFiniteSet(Places(q, c)) /\ Cardinality(Places(q, c)) \in Nat
    <2>1. Places(q, c) \in SUBSET (1..Len(q))
      BY <1>1 DEF Places
    <2>2. IsFiniteSet(Places(q, c))
      BY <1>2, <2>1, FS_Subset
    <2> QED
      BY <2>2, FS_CardinalityType
  <1> DEFINE r == Append(q, x)
  <1>4. /\ DOMAIN r = (1..Len(q)) \cup {Len(q) + 1}
        /\ r[Len(q) + 1] = x /\ \A i \in 1..Len(q) : r[i] = q[i]
    BY <1>1
  <1> HIDE DEF r
  <1>5. CASE x # Nullopt /\ x.client = c
    <2>1. Places(r, c) = Places(q, c) \cup {Len(q) + 1}
      BY <1>1, <1>4, <1>5, Entries DEF Places
    <2>2. Len(q) + 1 \notin Places(q, c)
      BY <1>1 DEF Places
    <2>3. Cardinality(Places(q, c) \cup {Len(q) + 1}) = Cardinality(Places(q, c)) + 1
      BY <1>3, <2>2, FS_AddElement
    <2> QED
      BY <1>3, <1>5, <2>1, <2>3 DEF r
  <1>6. CASE ~(x # Nullopt /\ x.client = c)
    <2>1. Places(r, c) = Places(q, c)
      BY <1>1, <1>4, <1>6, Entries DEF Places
    <2> QED
      BY <1>3, <1>6, <2>1 DEF r
  <1> QED
    BY <1>3, <1>5, <1>6

(* Taking the front removes one place, its own: the rest move down by one. *)
LEMMA TakeCounts ==
  ASSUME NEW q \in Seq(QueueEntry), q # <<>>, NEW c \in Client
  PROVE  /\ Tail(q) \in Seq(QueueEntry) /\ Head(q) \in QueueEntry
         /\ Cardinality(Places(q, c)) = Cardinality(Places(Tail(q), c))
              + (IF Head(q) # Nullopt /\ Head(q).client = c THEN 1 ELSE 0)
  <1>1. /\ Tail(q) \in Seq(QueueEntry) /\ Head(q) \in QueueEntry /\ Head(q) = q[1]
        /\ Len(q) \in Nat \ {0} /\ DOMAIN q = 1..Len(q)
        /\ DOMAIN Tail(q) = 1..(Len(q) - 1)
        /\ \A i \in 1..(Len(q) - 1) : Tail(q)[i] = q[i + 1]
    OBVIOUS
  <1> DEFINE t == Tail(q)
             P == Places(t, c)
             Q == Places(q, c) \ {1}
             up == [i \in P |-> i + 1]
  <1>2. IsFiniteSet(P) /\ IsFiniteSet(Places(q, c))
        /\ Cardinality(P) \in Nat /\ Cardinality(Places(q, c)) \in Nat
    BY <1>1, PushCounts
  <1>3. Cardinality(Q) = Cardinality(P)
    <2>1. P \subseteq 1..(Len(q) - 1) /\ Q \subseteq 2..Len(q)
      BY <1>1 DEF Places
    <2>2. \A i \in P : i + 1 \in Q
      BY <1>1, <2>1 DEF Places
    <2>3. \A j \in Q : j - 1 \in P
      BY <1>1, <2>1 DEF Places
    <2> HIDE DEF P, Q
    <2>4. up \in Bijection(P, Q)
      <3>1. up \in [P -> Q]
        BY <2>2
      <3>2. \A i, j \in P : up[i] = up[j] => i = j
        BY <2>1
      <3>3. \A j \in Q : \E i \in P : up[i] = j
        <4> SUFFICES ASSUME NEW j \in Q PROVE \E i \in P : up[i] = j
          OBVIOUS
        <4> j - 1 \in P /\ up[j - 1] = j
          BY <2>1, <2>3
        <4> QED
          OBVIOUS
      <3> HIDE DEF up
      <3> QED
        BY <3>1, <3>2, <3>3 DEF Bijection, Injection, Surjection, IsInjective
    <2>5. ExistsBijection(P, Q)
      BY <2>4 DEF ExistsBijection
    <2> QED
      BY <1>2, <2>5, FS_Bijection DEF P
  <1>4. CASE Head(q) # Nullopt /\ Head(q).client = c
    <2>1. 1 \in Places(q, c)
      BY <1>1, <1>4, Entries DEF Places
    <2>2. Cardinality(Q) = Cardinality(Places(q, c)) - 1
      BY <1>2, <2>1, FS_RemoveElement
    <2>3. Cardinality(Places(q, c)) = Cardinality(P) + 1
      BY <1>2, <1>3, <2>2
    <2> QED
      BY <1>1, <1>4, <2>3
  <1>5. CASE ~(Head(q) # Nullopt /\ Head(q).client = c)
    <2>1. Q = Places(q, c)
      BY <1>1, <1>5, Entries DEF Places
    <2>2. Cardinality(Places(q, c)) = Cardinality(P) + 0
      <3> HIDE DEF P, Q
      <3> QED
        BY <1>2, <1>3, <2>1
    <2> QED
      BY <1>1, <1>5, <2>2
  <1> QED
    BY <1>4, <1>5

(* An empty queue, and nobody waits. *)
LEMMA InitInv == Init => Inv
  <1> SUFFICES ASSUME Init PROVE Inv
    OBVIOUS
  <1>1. <<>> \in Seq(QueueEntry) /\ <<>> \in Seq(Disk!Request) /\ DOMAIN <<>> = {}
    OBVIOUS
  <1>2. Types
    BY <1>1, Entries, SchedulerAssumption
       DEF Init, Types, WorkerState, ClientState, OwnerState
  <1>3. DiskTypes
    BY SchedulerAssumption DEF Init, DiskTypes, Disk!Init
  <1>4. HasMore /\ RealRequest /\ NoLostWakeup
    BY DEF Init, HasMore, RealRequest, NoLostWakeup
  <1>5. Counted
    <2> SUFFICES ASSUME NEW c \in Client
                 PROVE  waiting[c] = Cardinality(Places(queue, c)) + InHand(c)
      BY DEF Counted
    <2>1. Places(queue, c) = {}
      BY <1>1 DEF Init, Places
    <2>2. Cardinality(Places(queue, c)) = 0
      BY <2>1, FS_EmptySet
    <2> QED
      BY <2>2 DEF Init, InHand
  <1>6. EndsLast
    BY <1>1 DEF Init, EndsLast
  <1> QED
    BY <1>2, <1>3, <1>4, <1>5, <1>6 DEF Inv

(* What the counts need: the queue and the worker's hand. *)
LEMMA SameCounts ==
  ASSUME Counted, UNCHANGED <<queue, hand, waiting>>,
         worker' \in {"run", "reply"} <=> worker \in {"run", "reply"}
  PROVE  Counted'
  BY DEF Counted, InHand

(* Schedule touches its own client and the caller's buffer only. *)
LEMMA ScheduleInv ==
  ASSUME Inv, NEW c \in Client, NEW requests \in Workload, Schedule(c, requests)
  PROVE  Inv'
  <1>0. requests \in Seq(Disk!Request) /\ requests # <<>>
    BY WorkloadAssumption
  <1>1. calls' \in [Client -> 0..MaxCalls]
    BY SchedulerAssumption DEF Inv, Types, Schedule
  <1>2. Types'
    BY <1>0, <1>1 DEF Inv, Types, Schedule, ClientState
  <1>3. DiskTypes'
    BY DEF Inv, DiskTypes, Schedule
  <1>4. HasMore'
    BY <1>0 DEF Inv, HasMore, Schedule, Types
  <1>5. RealRequest'
    BY DEF Inv, RealRequest, Schedule
  <1>6. Counted'
    BY SameCounts DEF Inv, Schedule
  <1>7. EndsLast'
    BY DEF Inv, EndsLast, Schedule, Types
  <1>8. NoLostWakeup'
    BY DEF Inv, NoLostWakeup, Schedule, Types
  <1> QED
    BY <1>2, <1>3, <1>4, <1>5, <1>6, <1>7, <1>8 DEF Inv

(* Put: one more request in the queue, and one more future to wait for. *)
LEMMA PutInv ==
  ASSUME Inv, NEW c \in Client, Put(c)
  PROVE  Inv'
  <1> DEFINE x == Tagged(c, Head(batch[c]))
  <1>1. Head(batch[c]) \in Disk!Request /\ Tail(batch[c]) \in Seq(Disk!Request)
    <2>1. batch[c] \in Seq(Disk!Request) /\ batch[c] # <<>>
      BY DEF Put, Inv, HasMore, Types
    <2> QED
      BY <2>1
  <1>2. x \in QueueEntry /\ x # Nullopt /\ x.client = c
    BY <1>1, Entries
  <1> HIDE DEF x
  <1>3. /\ queue' = Append(queue, x) /\ pc[c] = "put"
        /\ batch' = [batch EXCEPT ![c] = Tail(batch[c])]
        /\ waiting' = [waiting EXCEPT ![c] = waiting[c] + 1]
        /\ pc' = [pc EXCEPT ![c] = "notify"]
        /\ UNCHANGED <<worker, hand, calls, owner, file, next, freed, buf>>
    BY DEF Put, Push, x, disk
  <1>4. /\ queue \in Seq(QueueEntry) /\ queue' \in Seq(QueueEntry)
        /\ DOMAIN queue' = 1..(Len(queue) + 1) /\ Len(queue) \in Nat
        /\ DOMAIN queue = 1..Len(queue)
        /\ queue'[Len(queue) + 1] = x /\ \A i \in 1..Len(queue) : queue'[i] = queue[i]
    BY <1>2, <1>3 DEF Inv, Types
  <1>5. Types'
    BY <1>1, <1>3, <1>4 DEF Inv, Types, ClientState
  <1>6. DiskTypes'
    BY <1>3 DEF Inv, DiskTypes
  <1>7. HasMore'
    BY <1>3 DEF Inv, HasMore, Types
  <1>8. RealRequest'
    BY <1>3 DEF Inv, RealRequest
  <1>9. Counted'
    <2> SUFFICES ASSUME NEW b \in Client
                 PROVE  waiting'[b] = Cardinality(Places(queue', b)) + InHand(b)'
      BY DEF Counted
    <2>1. InHand(b)' = InHand(b) /\ InHand(b) \in Nat
      BY <1>3 DEF InHand
    <2>2. /\ Cardinality(Places(queue, b)) \in Nat
          /\ Cardinality(Places(queue', b)) =
               Cardinality(Places(queue, b)) + (IF b = c THEN 1 ELSE 0)
      BY <1>2, <1>3, <1>4, PushCounts
    <2>3. waiting'[b] = waiting[b] + (IF b = c THEN 1 ELSE 0)
      BY <1>3 DEF Inv, Types
    <2>4. waiting[b] = Cardinality(Places(queue, b)) + InHand(b)
      BY DEF Inv, Counted
    <2> QED
      BY <2>1, <2>2, <2>3, <2>4
  <1>10. EndsLast'
    <2>1. owner = "alive"
      BY <1>3 DEF Inv, EndsLast
    <2> QED
      BY <1>2, <1>3, <1>4, <2>1 DEF Inv, EndsLast
  <1>11. NoLostWakeup'
    BY <1>3 DEF Inv, Types, NoLostWakeup
  <1> QED
    BY <1>5, <1>6, <1>7, <1>8, <1>9, <1>10, <1>11 DEF Inv

(* A notification wakes a sleeping worker and changes nothing for another. *)
LEMMA Woken ==
  ASSUME Inv, NotifyAll
  PROVE  /\ worker' \in WorkerState /\ worker' # "blocked"
         /\ worker' \in {"run", "reply"} <=> worker \in {"run", "reply"}
         /\ worker' = "exited" <=> worker = "exited"
  BY DEF Inv, Types, NotifyAll, WorkerState

(* notify_all of a Put: no client has two puts under way. *)
LEMMA NotifyInv ==
  ASSUME Inv, NEW c \in Client, Notify(c)
  PROVE  Inv'
  <1>1. /\ pc[c] = "notify"
        /\ pc' = [pc EXCEPT ![c] = IF batch[c] = <<>> THEN "await" ELSE "put"]
        /\ UNCHANGED <<queue, hand, batch, waiting, calls, owner, file, next, freed, buf>>
        /\ NotifyAll
    BY DEF Notify, disk
  <1>2. /\ worker' \in WorkerState /\ worker' # "blocked"
        /\ worker' \in {"run", "reply"} <=> worker \in {"run", "reply"}
        /\ worker' = "exited" <=> worker = "exited"
    BY <1>1, Woken
  <1>3. Types'
    BY <1>1, <1>2 DEF Inv, Types, ClientState
  <1>4. DiskTypes'
    BY <1>1 DEF Inv, DiskTypes
  <1>5. HasMore'
    BY <1>1 DEF Inv, HasMore, Types
  <1>6. RealRequest'
    BY <1>1, <1>2 DEF Inv, RealRequest
  <1>7. Counted'
    BY <1>1, <1>2, SameCounts DEF Inv
  <1>8. EndsLast'
    <2>1. owner = "alive"
      BY <1>1 DEF Inv, EndsLast
    <2> QED
      BY <1>1, <1>2, <2>1 DEF Inv, EndsLast
  <1>9. NoLostWakeup'
    BY <1>2 DEF NoLostWakeup
  <1> QED
    BY <1>3, <1>4, <1>5, <1>6, <1>7, <1>8, <1>9 DEF Inv

(* A call returns when none of its futures is left. *)
LEMMA AwaitInv ==
  ASSUME Inv, NEW c \in Client, Await(c)
  PROVE  Inv'
  <1>1. /\ pc[c] = "await" /\ pc' = [pc EXCEPT ![c] = "idle"]
        /\ UNCHANGED <<queue, worker, hand, batch, waiting, calls, owner, file, next, freed, buf>>
    BY DEF Await, disk
  <1>2. Types' /\ DiskTypes'
    BY <1>1 DEF Inv, Types, DiskTypes, ClientState
  <1>3. HasMore' /\ RealRequest'
    BY <1>1 DEF Inv, HasMore, RealRequest, Types
  <1>4. Counted'
    BY <1>1, SameCounts DEF Inv
  <1>5. EndsLast'
    BY <1>1 DEF Inv, EndsLast, Types
  <1>6. NoLostWakeup'
    BY <1>1 DEF Inv, NoLostWakeup, Types
  <1> QED
    BY <1>2, <1>3, <1>4, <1>5, <1>6 DEF Inv

(* Get: the worker sleeps on an empty queue, or what leaves the queue is in *)
(* its hand.                                                                *)
LEMMA GetInv == Inv /\ Get => Inv'
  <1> SUFFICES ASSUME Inv, Get PROVE Inv'
    OBVIOUS
  <1>1. /\ worker = "get"
        /\ UNCHANGED <<pc, batch, waiting, calls, owner, file, next, freed, buf>>
    BY DEF Get, disk
  <1>2. DiskTypes' /\ HasMore'
    BY <1>1 DEF Inv, DiskTypes, HasMore
  <1>3. CASE queue = <<>> /\ worker' = "blocked" /\ UNCHANGED <<queue, hand>>
    <2>1. Types' /\ RealRequest'
      BY <1>1, <1>3 DEF Inv, Types, RealRequest, WorkerState
    <2>2. Counted'
      BY <1>1, <1>3, SameCounts DEF Inv
    <2>3. EndsLast' /\ NoLostWakeup'
      BY <1>1, <1>3 DEF Inv, EndsLast, NoLostWakeup
    <2> QED
      BY <1>2, <2>1, <2>2, <2>3 DEF Inv
  <1>4. CASE /\ queue # <<>> /\ queue' = Tail(queue) /\ hand' = Head(queue)
             /\ worker' = IF Head(queue) = Nullopt THEN "exited" ELSE "run"
    <2>1. /\ queue \in Seq(QueueEntry) /\ queue' \in Seq(QueueEntry) /\ hand' \in QueueEntry
      BY <1>4, TakeCounts DEF Inv, Types
    <2>2. /\ Len(queue) \in Nat \ {0} /\ hand' = queue[1] /\ Len(queue') = Len(queue) - 1
          /\ DOMAIN queue = 1..Len(queue) /\ DOMAIN queue' = 1..(Len(queue) - 1)
          /\ \A i \in DOMAIN queue' : queue'[i] = queue[i + 1] /\ i + 1 \in DOMAIN queue
          /\ Len(queue) = 1 => queue' = <<>>
      BY <1>4, <2>1
    <2>3. Types'
      BY <1>1, <1>4, <2>1 DEF Inv, Types, WorkerState
    <2>4. RealRequest'
      BY <1>4 DEF RealRequest
    <2>5. Counted'
      <3> SUFFICES ASSUME NEW c \in Client
                   PROVE  waiting'[c] = Cardinality(Places(queue', c)) + InHand(c)'
        BY DEF Counted
      <3>1. waiting[c] = Cardinality(Places(queue, c)) + 0
        BY <1>1 DEF Inv, Counted, InHand
      <3>2. /\ Cardinality(Places(queue, c)) \in Nat /\ Cardinality(Places(queue', c)) \in Nat
            /\ Cardinality(Places(queue, c)) = Cardinality(Places(queue', c))
                 + (IF hand' # Nullopt /\ hand'.client = c THEN 1 ELSE 0)
        BY <1>4, <2>1, TakeCounts, PushCounts
      <3>3. InHand(c)' = IF hand' # Nullopt /\ hand'.client = c THEN 1 ELSE 0
        BY <1>4 DEF InHand
      <3>4. waiting'[c] = Cardinality(Places(queue, c))
        BY <1>1, <3>1, <3>2
      <3> QED
        BY <3>2, <3>3, <3>4
    <2>6. EndsLast'
      <3>1. CASE owner = "alive"
        BY <1>1, <1>4, <2>2, <3>1 DEF Inv, EndsLast
      <3>2. CASE owner # "alive"
        <4>1. /\ \A c \in Client : pc[c] \in {"idle", "await"}
              /\ \A i \in DOMAIN queue : queue[i] = Nullopt <=> i = Len(queue)
          BY <1>1, <3>2 DEF Inv, EndsLast
        <4>2. CASE Len(queue) = 1
          <5>1. worker' = "exited" /\ queue' = <<>>
            BY <1>4, <2>2, <4>1, <4>2
          <5> QED
            BY <1>1, <3>2, <4>1, <5>1 DEF EndsLast
        <4>3. CASE Len(queue) # 1
          <5>1. worker' = "run" /\ queue' # <<>>
            <6>1. queue[1] # Nullopt
              BY <2>2, <4>1, <4>3
            <6> QED
              BY <1>4, <2>2, <4>3, <6>1
          <5>2. \A i \in DOMAIN queue' : queue'[i] = Nullopt <=> i = Len(queue')
            BY <2>2, <4>1
          <5> QED
            BY <1>1, <3>2, <4>1, <5>1, <5>2 DEF EndsLast
        <4> QED
          BY <4>2, <4>3
      <3> QED
        BY <3>1, <3>2
    <2>7. NoLostWakeup'
      BY <1>4 DEF NoLostWakeup
    <2> QED
      BY <1>2, <2>3, <2>4, <2>5, <2>6, <2>7 DEF Inv
  <1> QED
    BY <1>3, <1>4 DEF Get

(* A worker that wakes without reason looks at the queue again. *)
LEMMA SpuriousInv == Inv /\ SpuriousWakeup => Inv'
  <1> SUFFICES ASSUME Inv, SpuriousWakeup PROVE Inv'
    OBVIOUS
  <1>1. /\ worker = "blocked" /\ worker' = "get"
        /\ UNCHANGED <<queue, hand, pc, batch, waiting, calls, owner, file, next, freed, buf>>
    BY DEF SpuriousWakeup, disk
  <1>2. Types' /\ DiskTypes' /\ HasMore' /\ RealRequest'
    BY <1>1 DEF Inv, Types, DiskTypes, HasMore, RealRequest, WorkerState
  <1>3. Counted'
    BY <1>1, SameCounts DEF Inv
  <1>4. EndsLast' /\ NoLostWakeup'
    BY <1>1 DEF Inv, EndsLast, NoLostWakeup
  <1> QED
    BY <1>2, <1>3, <1>4 DEF Inv

(* The disk executes the request in the worker's hand, or throws. *)
LEMMA RunInv == Inv /\ Run => Inv'
  <1> SUFFICES ASSUME Inv, Run PROVE Inv'
    OBVIOUS
  <1>1. /\ worker = "run" /\ worker' = "reply"
        /\ UNCHANGED <<queue, hand, pc, batch, waiting, calls, owner>>
        /\ Disk!Apply(hand.client, hand.request)
    BY DEF Run
  <1>2. hand.client \in Client /\ hand.request \in Disk!Request
    BY <1>1, Entries DEF Inv, Types, RealRequest
  <1>3. DiskTypes'
    <2> DEFINE c == hand.client
               r == hand.request
    <2> HIDE DEF c, r
    <2>0. c \in Client /\ r \in Disk!Request
      BY <1>2 DEF c, r
    <2>00. r.op # "allocate" => r.page \in 1..MaxPage
      BY <2>0 DEF Disk!Request
    <2>1. CASE Disk!Read(c, r)
      BY <2>0, <2>00, <2>1 DEF Disk!Read, Inv, DiskTypes
    <2>2. CASE Disk!Write(c, r)
      BY <2>0, <2>00, <2>2 DEF Disk!Write, Inv, DiskTypes
    <2>3. CASE Disk!Deallocate(r)
      <3>1. r.page \in 1..MaxPage
        BY <2>00, <2>3 DEF Disk!Deallocate
      <3>2. file' \in [1..MaxPage -> Data]
        BY <2>3 DEF Disk!Deallocate, Disk!Changes, Inv, DiskTypes
      <3>3. freed' \in [1..MaxPage -> Nat]
        BY <2>3, <3>1 DEF Disk!Deallocate, Inv, DiskTypes
      <3> QED
        BY <2>3, <3>1, <3>2, <3>3 DEF Disk!Deallocate, Inv, DiskTypes
    <2>4. CASE Disk!Fail(r)
      <3>1. file' \in [1..MaxPage -> Data]
        BY <2>4 DEF Disk!Fail, Disk!Changes, Inv, DiskTypes
      <3> QED
        BY <2>4, <3>1 DEF Disk!Fail, Inv, DiskTypes
    <2>5. CASE \E p \in 1..MaxPage : Disk!Allocate(p, r)
      <3>1. PICK p \in 1..MaxPage :
              /\ \/ next' = next + 1 /\ UNCHANGED freed
                 \/ freed[p] > 0 /\ freed' = [freed EXCEPT ![p] = freed[p] - 1] /\ UNCHANGED next
              /\ Disk!Changes(Disk!Listed) /\ UNCHANGED buf
        BY <2>5 DEF Disk!Allocate, Disk!Listed
      <3>2. next' \in Nat
        BY <3>1 DEF Inv, DiskTypes
      <3>3. freed' \in [1..MaxPage -> Nat]
        BY <3>1 DEF Inv, DiskTypes
      <3>4. file' \in [1..MaxPage -> Data]
        BY <3>1 DEF Disk!Changes, Inv, DiskTypes
      <3> QED
        BY <3>1, <3>2, <3>3, <3>4 DEF Inv, DiskTypes
    <2> QED
      BY <1>1, <2>1, <2>2, <2>3, <2>4, <2>5 DEF Disk!Apply, c, r
  <1>4. Types' /\ HasMore' /\ RealRequest'
    BY <1>1 DEF Inv, Types, HasMore, RealRequest, WorkerState
  <1>5. Counted'
    BY <1>1, SameCounts DEF Inv
  <1>6. EndsLast' /\ NoLostWakeup'
    BY <1>1 DEF Inv, EndsLast, NoLostWakeup
  <1> QED
    BY <1>3, <1>4, <1>5, <1>6 DEF Inv

(* Reply makes the one future of the request in the worker's hand ready. *)
LEMMA ReplyInv == Inv /\ Reply => Inv'
  <1> SUFFICES ASSUME Inv, Reply PROVE Inv'
    OBVIOUS
  <1>1. /\ worker = "reply" /\ worker' = "get" /\ hand' = Nullopt
        /\ waiting' = [waiting EXCEPT ![hand.client] = waiting[hand.client] - 1]
        /\ UNCHANGED <<queue, pc, batch, calls, owner, file, next, freed, buf>>
    BY DEF Reply, disk
  <1>2. hand.client \in Client
    BY <1>1, Entries DEF Inv, Types, RealRequest
  <1>3. Types'
    BY <1>1, <1>2, Entries DEF Inv, Types, WorkerState
  <1>4. DiskTypes' /\ HasMore' /\ RealRequest'
    BY <1>1 DEF Inv, DiskTypes, HasMore, RealRequest
  <1>5. Counted'
    <2> SUFFICES ASSUME NEW c \in Client
                 PROVE  waiting'[c] = Cardinality(Places(queue', c)) + InHand(c)'
      BY DEF Counted
    <2>1. Cardinality(Places(queue, c)) \in Nat /\ queue' = queue
      BY <1>1, PushCounts, Entries DEF Inv, Types
    <2>2. waiting[c] = Cardinality(Places(queue, c)) + InHand(c)
      BY DEF Inv, Counted
    <2>3. InHand(c) = IF hand.client = c THEN 1 ELSE 0
      BY <1>1 DEF InHand
    <2>4. InHand(c)' = 0
      BY <1>1 DEF InHand
    <2>5. waiting'[c] = waiting[c] - (IF hand.client = c THEN 1 ELSE 0)
      BY <1>1, <1>2 DEF Inv, Types
    <2> QED
      BY <2>1, <2>2, <2>3, <2>4, <2>5
  <1>6. EndsLast' /\ NoLostWakeup'
    BY <1>1 DEF Inv, EndsLast, NoLostWakeup
  <1> QED
    BY <1>3, <1>4, <1>5, <1>6 DEF Inv

(* The destructor puts the end marker behind everything, and nothing is    *)
(* put after it.                                                           *)
LEMMA StopInv == Inv /\ Stop => Inv'
  <1> SUFFICES ASSUME Inv, Stop PROVE Inv'
    OBVIOUS
  <1>1. /\ owner = "alive" /\ \A c \in Client : pc[c] \in {"idle", "await"}
        /\ queue' = Append(queue, Nullopt) /\ owner' = "notify"
        /\ UNCHANGED <<worker, hand, pc, batch, waiting, calls, file, next, freed, buf>>
    BY DEF Stop, Push, disk
  <1>2. /\ queue \in Seq(QueueEntry) /\ queue' \in Seq(QueueEntry) /\ Len(queue) \in Nat
        /\ Len(queue') = Len(queue) + 1 /\ queue' # <<>>
        /\ DOMAIN queue = 1..Len(queue) /\ DOMAIN queue' = 1..(Len(queue) + 1)
        /\ queue'[Len(queue) + 1] = Nullopt /\ \A i \in 1..Len(queue) : queue'[i] = queue[i]
    <2>1. queue \in Seq(QueueEntry) /\ Nullopt \in QueueEntry
      BY Entries DEF Inv, Types
    <2>2. queue' = Append(queue, Nullopt)
      BY <1>1
    <2> HIDE DEF Nullopt
    <2> QED
      BY <2>1, <2>2
  <1>3. Types'
    BY <1>1, <1>2 DEF Inv, Types, OwnerState
  <1>4. DiskTypes' /\ HasMore' /\ RealRequest'
    BY <1>1 DEF Inv, DiskTypes, HasMore, RealRequest
  <1>5. Counted'
    <2> SUFFICES ASSUME NEW c \in Client
                 PROVE  waiting'[c] = Cardinality(Places(queue', c)) + InHand(c)'
      BY DEF Counted
    <2>1. /\ Cardinality(Places(queue, c)) \in Nat
          /\ Cardinality(Places(queue', c)) = Cardinality(Places(queue, c)) + 0
      BY <1>1, <1>2, PushCounts, Entries
    <2>2. InHand(c)' = InHand(c) /\ waiting' = waiting
      BY <1>1 DEF InHand
    <2>3. waiting[c] = Cardinality(Places(queue, c)) + InHand(c)
      BY DEF Inv, Counted
    <2>4. Cardinality(Places(queue', c)) = Cardinality(Places(queue, c))
      BY <2>1
    <2> QED
      BY <2>2, <2>3, <2>4
  <1>6. EndsLast'
    <2>1. worker' # "exited" /\ \A i \in DOMAIN queue : queue[i] # Nullopt
      BY <1>1 DEF Inv, EndsLast
    <2>2. \A i \in DOMAIN queue' : queue'[i] = Nullopt <=> i = Len(queue')
      BY <1>2, <2>1
    <2> QED
      BY <1>1, <1>2, <2>1, <2>2 DEF EndsLast
  <1>7. NoLostWakeup'
    BY <1>1 DEF NoLostWakeup
  <1> QED
    BY <1>3, <1>4, <1>5, <1>6, <1>7 DEF Inv

(* notify_all of the destructor. *)
LEMMA StopNotifyInv == Inv /\ StopNotify => Inv'
  <1> SUFFICES ASSUME Inv, StopNotify PROVE Inv'
    OBVIOUS
  <1>1. /\ owner = "notify" /\ owner' = "join" /\ NotifyAll
        /\ UNCHANGED <<queue, hand, pc, batch, waiting, calls, file, next, freed, buf>>
    BY DEF StopNotify, disk
  <1>2. /\ worker' \in WorkerState /\ worker' # "blocked"
        /\ worker' \in {"run", "reply"} <=> worker \in {"run", "reply"}
        /\ worker' = "exited" <=> worker = "exited"
    BY <1>1, Woken
  <1>3. Types'
    BY <1>1, <1>2 DEF Inv, Types, OwnerState
  <1>4. DiskTypes' /\ HasMore' /\ RealRequest'
    BY <1>1, <1>2 DEF Inv, DiskTypes, HasMore, RealRequest
  <1>5. Counted'
    BY <1>1, <1>2, SameCounts DEF Inv
  <1>6. EndsLast' /\ NoLostWakeup'
    BY <1>1, <1>2 DEF Inv, EndsLast, NoLostWakeup
  <1> QED
    BY <1>3, <1>4, <1>5, <1>6 DEF Inv

(* The destructor returns once the worker is gone. *)
LEMMA JoinInv == Inv /\ Join => Inv'
  <1> SUFFICES ASSUME Inv, Join PROVE Inv'
    OBVIOUS
  <1>1. /\ owner = "join" /\ owner' = "destroyed" /\ worker = "exited"
        /\ UNCHANGED <<queue, worker, hand, pc, batch, waiting, calls, file, next, freed, buf>>
    BY DEF Join, disk
  <1>2. Types' /\ DiskTypes' /\ HasMore' /\ RealRequest'
    BY <1>1 DEF Inv, Types, DiskTypes, HasMore, RealRequest, OwnerState
  <1>3. Counted'
    BY <1>1, SameCounts DEF Inv
  <1>4. EndsLast' /\ NoLostWakeup'
    BY <1>1 DEF Inv, EndsLast, NoLostWakeup
  <1> QED
    BY <1>2, <1>3, <1>4 DEF Inv

(* Every step of a client, the worker or the destructor keeps it. *)
THEOREM Invariance == Spec => []Inv
  <1>1. Inv /\ [Next]_vars => Inv'
    <2> SUFFICES ASSUME Inv, [Next]_vars PROVE Inv'
      OBVIOUS
    <2>1. ASSUME NEW c \in Client, ClientStep(c) PROVE Inv'
      BY <2>1, PutInv, NotifyInv, AwaitInv DEF ClientStep
    <2>2. ASSUME NEW c \in Client, NEW requests \in Workload, Schedule(c, requests) PROVE Inv'
      BY <2>2, ScheduleInv
    <2>3. CASE Worker
      BY <2>3, GetInv, RunInv, ReplyInv DEF Worker
    <2>4. CASE SpuriousWakeup
      BY <2>4, SpuriousInv
    <2>5. CASE Stop
      BY <2>5, StopInv
    <2>6. CASE Destructor
      BY <2>6, StopNotifyInv, JoinInv DEF Destructor
    <2>7. CASE UNCHANGED vars
      BY <2>7 DEF vars, disk, Inv, Types, DiskTypes, HasMore, RealRequest, Counted,
                  InHand, EndsLast, NoLostWakeup
    <2>8. CASE Finished
      BY <2>7, <2>8 DEF Finished
    <2> QED
      BY <2>1, <2>2, <2>3, <2>4, <2>5, <2>6, <2>7, <2>8 DEF Next
  <1> QED
    BY InitInv, <1>1, PTL DEF Spec

(* The worker never sleeps through a request: a notification is under way. *)
THEOREM SleeperIsWoken == Spec => []NoLostWakeup
  BY Invariance, PTL DEF Inv

(* Each future belongs to one request, queued or in the worker's hand, and *)
(* the worker leaves nothing behind: for any number of clients and calls.  *)
THEOREM FuturesAreServed == Spec => []OneFuturePerRequest
  <1>1. Inv => OneFuturePerRequest
    <2> SUFFICES ASSUME Inv PROVE OneFuturePerRequest
      OBVIOUS
    <2>1. ASSUME NEW c \in Client
          PROVE  /\ waiting[c] \in Nat
                 /\ waiting[c] = Cardinality({i \in DOMAIN queue :
                                    queue[i].op # "nullopt" /\ queue[i].client = c})
                      + (IF worker \in {"run", "reply"} /\ hand.client = c THEN 1 ELSE 0)
      <3>1. Cardinality(Places(queue, c)) \in Nat
        BY PushCounts, Entries DEF Inv, Types
      <3>2. InHand(c) \in Nat
        BY DEF InHand
      <3>3. waiting[c] = Cardinality(Places(queue, c)) + InHand(c)
        BY DEF Inv, Counted
      <3>4. waiting[c] \in Nat
        BY <3>1, <3>2, <3>3
      <3> QED
        BY <3>3, <3>4 DEF Places, InHand
    <2>2. TypeOK
      <3>1. waiting \in [Client -> Nat]
        BY <2>1 DEF Inv, Types
      <3> QED
        BY <3>1 DEF Inv, Types, DiskTypes, TypeOK
    <2>3. ASSUME worker = "exited"
          PROVE  queue = <<>> /\ \A c \in Client : waiting[c] = 0
      <3>1. queue = <<>>
        BY <2>3 DEF Inv, EndsLast
      <3>2. ASSUME NEW c \in Client PROVE waiting[c] = 0
        <4>1. Places(queue, c) = {}
          BY <3>1 DEF Places
        <4>2. Cardinality(Places(queue, c)) = 0
          BY <4>1, FS_EmptySet
        <4> QED
          BY <2>3, <4>2 DEF Inv, Counted, InHand
      <3> QED
        BY <3>1, <3>2
    <2> QED
      BY <2>1, <2>2, <2>3 DEF OneFuturePerRequest
  <1> QED
    BY Invariance, <1>1, PTL
-----------------------------------------------------------------------------
(* The refinement of AtomicDisk. *)

(* upTo of InQueue: what the first i entries of the queue hold for c. *)
Collects(upTo, q, c) ==
  upTo = [i \in 0..Len(q) |-> IF i = 0 THEN <<>> ELSE Joined(upTo[i - 1], q[i], c)]
UpTo(q, c) == CHOOSE upTo : Collects(upTo, q, c)

(* The recursion inside InQueue, by name. *)
LEMMA InQueueUnfolds == \A q, c : InQueue(q, c) = UpTo(q, c)[Len(q)]
  BY Zenon DEF InQueue, UpTo, Collects

(* The function that InQueue defines by recursion exists. *)
LEMMA Collected ==
  ASSUME NEW q \in Seq(QueueEntry), NEW c
  PROVE  /\ UpTo(q, c)[0] = <<>>
         /\ \A i \in 1..Len(q) : UpTo(q, c)[i] = Joined(UpTo(q, c)[i - 1], q[i], c)
  <1> DEFINE Does(k, n) ==
               k = [i \in 0..n |-> IF i = 0 THEN <<>> ELSE Joined(k[i - 1], q[i], c)]
             S == {n \in Nat : \E k : Does(k, n)}
  <1>0. Len(q) \in Nat
    OBVIOUS
  <1>1. 0 \in S
    <2> DEFINE k == [i \in 0..0 |-> <<>>]
    <2>1. Does(k, 0)
      <3> k = [i \in 0..0 |-> IF i = 0 THEN <<>> ELSE Joined(k[i - 1], q[i], c)]
        OBVIOUS
      <3> QED
        OBVIOUS
    <2> QED
      BY <2>1
  <1>2. ASSUME NEW n \in 0..(Len(q) - 1), n \in S PROVE n + 1 \in S
    <2>1. PICK k : Does(k, n)
      BY <1>2
    <2> DEFINE g == [i \in 0..(n + 1) |-> IF i = n + 1 THEN Joined(k[n], q[n + 1], c) ELSE k[i]]
    <2>2. \A i \in 0..n : k[i] = IF i = 0 THEN <<>> ELSE Joined(k[i - 1], q[i], c)
      BY <2>1
    <2>3. /\ \A i \in 0..n : g[i] = k[i]
          /\ g[n + 1] = Joined(k[n], q[n + 1], c)
          /\ DOMAIN g = 0..(n + 1)
      BY <1>0
    <2>4. \A i \in 0..(n + 1) : g[i] = IF i = 0 THEN <<>> ELSE Joined(g[i - 1], q[i], c)
      <3> HIDE DEF g
      <3> TAKE i \in 0..(n + 1)
      <3>1. CASE i = n + 1
        BY <1>0, <2>3, <3>1
      <3>2. CASE i \in 1..n
        <4> i - 1 \in 0..n /\ i \in 0..n
          BY <3>2
        <4> QED
          BY <2>2, <2>3, <3>2
      <3>3. CASE i = 0
        BY <1>0, <2>2, <2>3, <3>3
      <3> QED
        BY <1>0, <3>1, <3>2, <3>3
    <2>5. Does(g, n + 1)
      <3>1. g = [i \in 0..(n + 1) |-> g[i]]
        OBVIOUS
      <3> HIDE DEF g
      <3> QED
        BY <2>4, <3>1
    <2> HIDE DEF g, Does
    <2> QED
      BY <1>0, <2>5
  <1> HIDE DEF S
  <1>3. Len(q) \in S
    <2>1. \A n \in 0..(Len(q) - 1) : n \in S => n + 1 \in S
      BY <1>2
    <2>2. \A n \in 0..Len(q) : n \in S
      BY <1>0, <1>1, <2>1, Counting
    <2> QED
      BY <1>0, <2>2
  <1>4. \E k : Collects(k, q, c)
    BY <1>3 DEF S, Collects
  <1>5. Collects(UpTo(q, c), q, c)
    BY <1>4 DEF UpTo
  <1> DEFINE u == UpTo(q, c)
  <1> HIDE DEF u
  <1>6. u = [i \in 0..Len(q) |-> IF i = 0 THEN <<>> ELSE Joined(u[i - 1], q[i], c)]
    BY <1>5 DEF Collects, u
  <1>7. u[0] = <<>> /\ \A i \in 1..Len(q) : u[i] = Joined(u[i - 1], q[i], c)
    BY <1>0, <1>6
  <1> QED
    BY <1>7 DEF u

(* What joining one more entry gives: a sequence of requests, and what     *)
(* comes before may be put in front later.                                 *)
LEMMA Joining ==
  \A c : \A a, b \in Seq(Disk!Request), e \in QueueEntry :
    /\ Joined(a, e, c) \in Seq(Disk!Request)
    /\ Joined(a \o b, e, c) = a \o Joined(b, e, c)
  <1> TAKE c
  <1> TAKE a, b \in Seq(Disk!Request), e \in QueueEntry
  <1>1. CASE e.op # "nullopt" /\ e.client = c
    <2>1. e.request \in Disk!Request
      BY <1>1, Entries
    <2>2. /\ Append(a, e.request) \in Seq(Disk!Request)
          /\ Append(a \o b, e.request) = a \o Append(b, e.request)
      BY <2>1
    <2> QED
      BY <1>1, <2>2 DEF Joined
  <1>2. CASE ~(e.op # "nullopt" /\ e.client = c)
    BY <1>2 DEF Joined
  <1> QED
    BY <1>1, <1>2

(* What is collected is a sequence of requests. *)
LEMMA CollectsRequests ==
  ASSUME NEW q \in Seq(QueueEntry), NEW c
  PROVE  /\ \A i \in 0..Len(q) : UpTo(q, c)[i] \in Seq(Disk!Request)
         /\ InQueue(q, c) \in Seq(Disk!Request)
  <1> DEFINE S == {i \in 0..Len(q) : UpTo(q, c)[i] \in Seq(Disk!Request)}
  <1>0. Len(q) \in Nat /\ <<>> \in Seq(Disk!Request) /\ \A i \in 1..Len(q) : q[i] \in QueueEntry
    OBVIOUS
  <1>1. 0 \in S
    <2>1. UpTo(q, c)[0] = <<>>
      BY Collected
    <2>2. UpTo(q, c)[0] \in Seq(Disk!Request)
      BY <1>0, <2>1, Zenon
    <2> QED
      BY <1>0, <2>2
  <1>2. ASSUME NEW i \in 0..(Len(q) - 1), i \in S PROVE i + 1 \in S
    <2>1. UpTo(q, c)[i + 1] = Joined(UpTo(q, c)[i], q[i + 1], c)
      BY <1>0, Collected
    <2>2. q[i + 1] \in QueueEntry /\ UpTo(q, c)[i] \in Seq(Disk!Request)
      BY <1>0, <1>2
    <2>3. UpTo(q, c)[i + 1] \in Seq(Disk!Request)
      <3>1. Joined(UpTo(q, c)[i], q[i + 1], c) \in Seq(Disk!Request)
        BY <2>2, Joining
      <3> QED
        BY <2>1, <3>1
    <2> QED
      BY <1>0, <2>3
  <1>3. \A i \in 0..Len(q) : i \in S
    <2> HIDE DEF S
    <2> QED
      BY <1>0, <1>1, <1>2, Counting
  <1> QED
    BY <1>0, <1>3, InQueueUnfolds

(* A request put at the end of the queue is its client's last; for the     *)
(* other clients nothing changes.                                          *)
LEMMA InQueueAppend ==
  ASSUME NEW q \in Seq(QueueEntry), NEW x \in QueueEntry, NEW c
  PROVE  InQueue(Append(q, x), c) = Joined(InQueue(q, c), x, c)
  <1> DEFINE r == Append(q, x)
             S == {i \in 0..Len(q) : UpTo(r, c)[i] = UpTo(q, c)[i]}
  <1>0. /\ r \in Seq(QueueEntry) /\ Len(q) \in Nat /\ Len(r) = Len(q) + 1
        /\ r[Len(q) + 1] = x /\ \A i \in 1..Len(q) : r[i] = q[i]
    OBVIOUS
  <1> HIDE DEF r
  <1>1. 0 \in S
    <2>1. UpTo(q, c)[0] = <<>>
      BY Collected
    <2>2. UpTo(r, c)[0] = <<>>
      BY <1>0, Collected
    <2> QED
      BY <1>0, <2>1, <2>2
  <1>2. ASSUME NEW i \in 0..(Len(q) - 1), i \in S PROVE i + 1 \in S
    <2>1. /\ UpTo(q, c)[i + 1] = Joined(UpTo(q, c)[i], q[i + 1], c)
          /\ UpTo(r, c)[i + 1] = Joined(UpTo(r, c)[i], r[i + 1], c)
      BY <1>0, Collected, SMTT(30)
    <2>2. r[i + 1] = q[i + 1] /\ UpTo(r, c)[i] = UpTo(q, c)[i]
      BY <1>0, <1>2
    <2> QED
      BY <1>0, <2>1, <2>2
  <1>3. \A i \in 0..Len(q) : i \in S
    <2> HIDE DEF S
    <2> QED
      BY <1>0, <1>1, <1>2, Counting
  <1>4. UpTo(r, c)[Len(q)] = UpTo(q, c)[Len(q)]
    BY <1>0, <1>3
  <1>5. UpTo(r, c)[Len(q) + 1] = Joined(UpTo(r, c)[Len(q)], x, c)
    BY <1>0, Collected
  <1> QED
    BY <1>0, <1>4, <1>5, InQueueUnfolds DEF r

(* The front of the queue is its client's first request: what the worker   *)
(* takes leaves the rest of it.                                            *)
LEMMA InQueueTail ==
  ASSUME NEW q \in Seq(QueueEntry), q # <<>>, NEW c
  PROVE  InQueue(q, c) = Joined(<<>>, Head(q), c) \o InQueue(Tail(q), c)
  <1> DEFINE t == Tail(q)
             first == Joined(<<>>, Head(q), c)
             S == {i \in 0..Len(t) : UpTo(q, c)[i + 1] = first \o UpTo(t, c)[i]}
  <1>0. /\ t \in Seq(QueueEntry) /\ Head(q) \in QueueEntry /\ Head(q) = q[1]
        /\ Len(t) \in Nat /\ Len(q) = Len(t) + 1
        /\ \A i \in 1..Len(t) : t[i] = q[i + 1] /\ t[i] \in QueueEntry
    OBVIOUS
  <1>00. first \in Seq(Disk!Request) /\ first \o <<>> = first
    <2>1. <<>> \in Seq(Disk!Request)
      OBVIOUS
    <2>2. first \in Seq(Disk!Request)
      BY <1>0, <2>1, Joining
    <2> HIDE DEF first
    <2> QED
      BY <2>2
  <1> HIDE DEF t, first
  <1>1. 0 \in S
    <2>1. UpTo(q, c)[1] = Joined(UpTo(q, c)[0], q[1], c) /\ UpTo(q, c)[0] = <<>>
      BY <1>0, Collected
    <2>2. UpTo(t, c)[0] = <<>>
      BY <1>0, Collected
    <2>3. UpTo(q, c)[1] = first
      BY <1>0, <2>1 DEF first
    <2>4. UpTo(q, c)[0 + 1] = first \o UpTo(t, c)[0]
      BY <1>00, <2>2, <2>3
    <2> QED
      BY <1>0, <2>4
  <1>2. ASSUME NEW i \in 0..(Len(t) - 1), i \in S PROVE i + 1 \in S
    <2>1. /\ UpTo(q, c)[i + 2] = Joined(UpTo(q, c)[i + 1], q[i + 2], c)
          /\ UpTo(t, c)[i + 1] = Joined(UpTo(t, c)[i], t[i + 1], c)
      <3>1. i + 2 \in 1..Len(q) /\ i + 2 - 1 = i + 1 /\ i + 1 \in 1..Len(t) /\ i + 1 - 1 = i
        BY <1>0
      <3>2. UpTo(q, c)[i + 2] = Joined(UpTo(q, c)[i + 2 - 1], q[i + 2], c)
        BY <3>1, Collected
      <3>3. UpTo(t, c)[i + 1] = Joined(UpTo(t, c)[i + 1 - 1], t[i + 1], c)
        BY <1>0, <3>1, Collected
      <3> QED
        BY <3>1, <3>2, <3>3
    <2>2. /\ t[i + 1] = q[i + 2] /\ t[i + 1] \in QueueEntry
          /\ UpTo(q, c)[i + 1] = first \o UpTo(t, c)[i]
      BY <1>0, <1>2
    <2>3. UpTo(t, c)[i] \in Seq(Disk!Request)
      BY <1>0, CollectsRequests
    <2>4. Joined(first \o UpTo(t, c)[i], t[i + 1], c) = first \o Joined(UpTo(t, c)[i], t[i + 1], c)
      BY <1>00, <2>2, <2>3, Joining
    <2>5. UpTo(q, c)[i + 2] = first \o UpTo(t, c)[i + 1]
      BY <2>1, <2>2, <2>4
    <2>6. i + 1 \in 0..Len(t) /\ i + 1 + 1 = i + 2
      BY <1>0
    <2> QED
      BY <2>5, <2>6
  <1>3. \A i \in 0..Len(t) : i \in S
    <2> HIDE DEF S
    <2> QED
      BY <1>0, <1>1, <1>2, Counting
  <1>4. UpTo(q, c)[Len(t) + 1] = first \o UpTo(t, c)[Len(t)]
    BY <1>0, <1>3
  <1>5. InQueue(q, c) = UpTo(q, c)[Len(t) + 1] /\ InQueue(t, c) = UpTo(t, c)[Len(t)]
    BY <1>0, InQueueUnfolds
  <1>6. InQueue(q, c) = first \o InQueue(t, c)
    BY <1>4, <1>5
  <1> QED
    BY <1>6 DEF first, t

(* A client without a place in the queue has no request there. *)
LEMMA InQueueNone ==
  ASSUME NEW q \in Seq(QueueEntry), NEW c, Places(q, c) = {}
  PROVE  InQueue(q, c) = <<>>
  <1> DEFINE S == {i \in 0..Len(q) : UpTo(q, c)[i] = <<>>}
  <1>0. Len(q) \in Nat /\ DOMAIN q = 1..Len(q)
    OBVIOUS
  <1>1. 0 \in S
    BY <1>0, Collected
  <1>2. ASSUME NEW i \in 0..(Len(q) - 1), i \in S PROVE i + 1 \in S
    <2>1. UpTo(q, c)[i + 1] = Joined(UpTo(q, c)[i], q[i + 1], c)
      BY <1>0, Collected
    <2>2. ~(q[i + 1].op # "nullopt" /\ q[i + 1].client = c)
      BY <1>0 DEF Places
    <2> QED
      BY <1>0, <1>2, <2>1, <2>2 DEF Joined
  <1>3. \A i \in 0..Len(q) : i \in S
    <2> HIDE DEF S
    <2> QED
      BY <1>0, <1>1, <1>2, Counting
  <1> QED
    BY <1>0, <1>3, InQueueUnfolds

(* A client that is not in a call has no future to wait for. *)
Quiet == \A c \in Client : pc[c] = "idle" => waiting[c] = 0

THEOREM QuietAlways == Spec => []Quiet
  <1>1. Init => Quiet
    BY DEF Init, Quiet
  <1>2. Inv /\ Quiet /\ [Next]_vars => Quiet'
    <2> SUFFICES ASSUME Inv, Quiet, [Next]_vars PROVE Quiet'
      OBVIOUS
    <2>0. pc \in [Client -> ClientState] /\ waiting \in [Client -> Int]
      BY DEF Inv, Types
    <2>1. ASSUME NEW c \in Client, ClientStep(c) PROVE Quiet'
      BY <2>0, <2>1 DEF ClientStep, Put, Notify, Await, Quiet
    <2>2. ASSUME NEW c \in Client, NEW requests \in Workload, Schedule(c, requests) PROVE Quiet'
      BY <2>0, <2>2 DEF Schedule, Quiet
    <2>3. CASE Reply
      <3>1. hand.client \in Client
        BY <2>3, Entries DEF Reply, Inv, Types, RealRequest
      <3>2. waiting[hand.client] # 0
        <4>1. Cardinality(Places(queue, hand.client)) \in Nat
          BY <3>1, PushCounts, Entries DEF Inv, Types
        <4>2. waiting[hand.client] = Cardinality(Places(queue, hand.client)) + 1
          BY <2>3, <3>1 DEF Reply, Inv, Counted, InHand
        <4> QED
          BY <4>1, <4>2
      <3>3. pc[hand.client] # "idle"
        BY <3>1, <3>2 DEF Quiet
      <3> QED
        BY <2>0, <2>3, <3>1, <3>3 DEF Reply, Quiet
    <2>4. CASE Get \/ Run \/ SpuriousWakeup \/ Stop \/ Destructor
      BY <2>4 DEF Get, Run, SpuriousWakeup, Stop, Destructor, StopNotify, Join, Quiet
    <2>5. CASE UNCHANGED vars
      BY <2>5 DEF vars, Quiet
    <2>6. CASE Finished
      BY <2>5, <2>6 DEF Finished
    <2> QED
      BY <2>1, <2>2, <2>3, <2>4, <2>5, <2>6 DEF Next, Worker
  <1> QED
    BY <1>1, <1>2, Invariance, PTL DEF Spec

submitted == [c \in Client |-> Unexecuted(c)]

(* The same queue and the same request to run are the same submitted ones. *)
LEMMA SameSubmitted ==
  ASSUME UNCHANGED queue,
         \A c \in Client :
           (worker' = "run" /\ hand'.client = c) <=> (worker = "run" /\ hand.client = c),
         worker = "run" => UNCHANGED hand
  PROVE  submitted' = submitted
  <1>1. ASSUME NEW c \in Client PROVE Unexecuted(c)' = Unexecuted(c)
    <2> DEFINE mine == worker = "run" /\ hand.client = c
               before == IF mine THEN <<hand.request>> ELSE <<>>
    <2>1. InQueue(queue, c)' = InQueue(queue, c)
      BY DEF InQueue
    <2>2. mine' <=> mine
      OBVIOUS
    <2>3. mine => hand'.request = hand.request
      OBVIOUS
    <2>4. before' = before
      <3>1. CASE mine
        BY <2>2, <2>3, <3>1
      <3>2. CASE ~mine
        BY <2>2, <3>2
      <3> QED
        BY <3>1, <3>2
    <2>5. Unexecuted(c) = before \o InQueue(queue, c)
      BY DEF Unexecuted
    <2>6. Unexecuted(c)' = before' \o InQueue(queue, c)'
      BY DEF Unexecuted
    <2> HIDE DEF before
    <2> QED
      BY <2>1, <2>4, <2>5, <2>6
  <1> QED
    BY <1>1 DEF submitted

(* What a client that is not in a call has submitted is executed. *)
LEMMA IdleHasNothing ==
  ASSUME Inv, Quiet, NEW c \in Client, pc[c] = "idle"
  PROVE  Unexecuted(c) = <<>>
  <1>1. /\ queue \in Seq(QueueEntry) /\ IsFiniteSet(Places(queue, c))
        /\ Cardinality(Places(queue, c)) \in Nat
    BY PushCounts, Entries DEF Inv, Types
  <1>2. Cardinality(Places(queue, c)) + InHand(c) = 0
    BY DEF Inv, Counted, Quiet
  <1>3. Cardinality(Places(queue, c)) = 0 /\ InHand(c) = 0
    BY <1>1, <1>2 DEF InHand
  <1>4. Places(queue, c) = {}
    BY <1>1, <1>3, FS_EmptySet
  <1>5. InQueue(queue, c) = <<>>
    BY <1>1, <1>4, InQueueNone
  <1>6. ~(worker = "run" /\ hand.client = c)
    BY <1>3 DEF InHand
  <1> QED
    BY <1>5, <1>6 DEF Unexecuted

(* An empty queue is no request submitted. *)
LEMMA InitRefines == Init => Disk!Init
  <1> SUFFICES ASSUME Init PROVE Disk!Init
    OBVIOUS
  <1>1. Inv
    BY InitInv
  <1>2. Quiet
    BY DEF Init, Quiet
  <1>3. \A c \in Client : Unexecuted(c) = <<>>
    BY <1>1, <1>2, IdleHasNothing DEF Init
  <1>4. [c \in Client |-> Unexecuted(c)] = [c \in Client |-> <<>>]
    BY <1>3
  <1> QED
    BY <1>4 DEF Init, Disk!Init

(* A step that changes neither the disk nor the submitted requests. *)
LEMMA Stutter ==
  ASSUME submitted' = submitted, UNCHANGED disk
  PROVE  UNCHANGED Disk!vars
  BY DEF submitted, disk, Disk!vars

(* Schedule fills the caller's buffer while nothing of the caller is       *)
(* pending.                                                                *)
LEMMA ScheduleRefines ==
  ASSUME Inv, Quiet, NEW c \in Client, NEW requests \in Workload, Schedule(c, requests)
  PROVE  Disk!Fill(c)
  <1>1. Unexecuted(c) = <<>>
    BY IdleHasNothing DEF Schedule
  <1>2. submitted' = submitted
    BY SameSubmitted DEF Schedule
  <1>3. submitted[c] = <<>>
    BY <1>1 DEF submitted
  <1> QED
    BY <1>2, <1>3 DEF Schedule, Disk!Fill, submitted

(* Put submits the request behind the others of its client. *)
LEMMA PutRefines ==
  ASSUME Inv, NEW c \in Client, Put(c)
  PROVE  Disk!Submit(c)
  <1> DEFINE r == Head(batch[c])
             x == Tagged(c, r)
  <1>1. r \in Disk!Request
    <2>1. batch[c] \in Seq(Disk!Request) /\ batch[c] # <<>>
      BY DEF Put, Inv, HasMore, Types
    <2> QED
      BY <2>1
  <1>2. /\ x \in QueueEntry /\ x.op # "nullopt" /\ x.client = c /\ x.request = r
    BY <1>1, Entries DEF Tagged
  <1> HIDE DEF r
  <1>3. queue \in Seq(QueueEntry) /\ queue' = Append(queue, x)
        /\ UNCHANGED <<worker, hand, file, next, freed, buf>>
    BY DEF Put, Push, Inv, Types, disk, r
  <1> HIDE DEF x
  <1>4. ASSUME NEW b \in Client
        PROVE  Unexecuted(b)' = IF b = c THEN Append(Unexecuted(c), r) ELSE Unexecuted(b)
    <2> DEFINE before == IF worker = "run" /\ hand.client = b THEN <<hand.request>> ELSE <<>>
    <2>1. before \in Seq(Disk!Request)
      <3>1. worker = "run" => hand.request \in Disk!Request
        BY Entries DEF Inv, Types, RealRequest
      <3> QED
        BY <3>1
    <2>2. Unexecuted(b) = before \o InQueue(queue, b)
      BY DEF Unexecuted
    <2>3. Unexecuted(b)' = before \o InQueue(queue', b)
      BY <1>3 DEF Unexecuted
    <2>4. InQueue(queue', b) = Joined(InQueue(queue, b), x, b)
      BY <1>2, <1>3, InQueueAppend
    <2>5. InQueue(queue, b) \in Seq(Disk!Request)
      BY <1>3, CollectsRequests
    <2> HIDE DEF before
    <2>6. Joined(before \o InQueue(queue, b), x, b) = before \o Joined(InQueue(queue, b), x, b)
      BY <1>2, <2>1, <2>5, Joining
    <2>7. Unexecuted(b)' = Joined(Unexecuted(b), x, b)
      BY <2>2, <2>3, <2>4, <2>6
    <2> QED
      BY <1>2, <2>7 DEF Joined
  <1>5. submitted' = [submitted EXCEPT ![c] = Append(submitted[c], r)]
    BY <1>4 DEF submitted
  <1> QED
    BY <1>1, <1>3, <1>5 DEF Disk!Submit, submitted

(* The request the worker takes is still its client's first. *)
LEMMA GetRefines == Inv /\ Get => submitted' = submitted
  <1> SUFFICES ASSUME Inv, Get PROVE submitted' = submitted
    OBVIOUS
  <1>1. CASE queue = <<>> /\ worker' = "blocked" /\ UNCHANGED <<queue, hand>>
    BY <1>1, SameSubmitted DEF Get
  <1>2. CASE /\ queue # <<>> /\ queue' = Tail(queue) /\ hand' = Head(queue)
             /\ worker' = IF Head(queue) = Nullopt THEN "exited" ELSE "run"
    <2>0. queue \in Seq(QueueEntry) /\ Head(queue) \in QueueEntry /\ Tail(queue) \in Seq(QueueEntry)
      BY <1>2, TakeCounts DEF Inv, Types
    <2>1. ASSUME NEW c \in Client PROVE Unexecuted(c)' = Unexecuted(c)
      <3> DEFINE first == Joined(<<>>, Head(queue), c)
      <3>1. InQueue(queue, c) = first \o InQueue(Tail(queue), c)
        BY <1>2, <2>0, InQueueTail
      <3>2. Unexecuted(c) = <<>> \o InQueue(queue, c)
        BY DEF Get, Unexecuted
      <3>3. InQueue(queue, c) \in Seq(Disk!Request)
        BY <2>0, CollectsRequests
      <3>4. first = IF worker' = "run" /\ hand'.client = c THEN <<hand'.request>> ELSE <<>>
        <4>1. CASE Head(queue) = Nullopt
          BY <1>2, <4>1, Entries DEF Joined
        <4>2. CASE Head(queue) # Nullopt
          <5>1. Head(queue).op # "nullopt"
            BY <2>0, <4>2, Entries
          <5>2. \A r : Append(<<>>, r) = <<r>>
            OBVIOUS
          <5> QED
            BY <1>2, <4>2, <5>1, <5>2 DEF Joined
        <4> QED
          BY <4>1, <4>2
      <3> HIDE DEF first
      <3>5. Unexecuted(c)' = first \o InQueue(Tail(queue), c)
        BY <1>2, <3>4 DEF Unexecuted
      <3> QED
        BY <3>1, <3>2, <3>3, <3>5
    <2> QED
      BY <2>1 DEF submitted
  <1> QED
    BY <1>1, <1>2 DEF Get

(* The worker executes the first request of a client, or throws it away. *)
LEMMA RunRefines == Inv /\ Run => \E c \in Client : Disk!Execute(c)
  <1> SUFFICES ASSUME Inv, Run PROVE \E c \in Client : Disk!Execute(c)
    OBVIOUS
  <1>0. hand.client \in Client /\ hand.request \in Disk!Request
    BY Entries DEF Run, Inv, Types, RealRequest
  <1>1. PICK c \in Client, r \in Disk!Request : c = hand.client /\ r = hand.request
    BY <1>0
  <1>2. /\ worker = "run" /\ worker' = "reply" /\ UNCHANGED <<queue, hand>>
        /\ Disk!Apply(c, r)
    BY <1>1 DEF Run
  <1>3. \A b \in Client : InQueue(queue, b) \in Seq(Disk!Request)
    BY CollectsRequests DEF Inv, Types
  <1>4. \A b \in Client : b # c => Unexecuted(b)' = Unexecuted(b)
    BY <1>1, <1>2 DEF Unexecuted
  <1>5. Unexecuted(c) = <<r>> \o InQueue(queue, c) /\ Unexecuted(c)' = <<>> \o InQueue(queue, c)
    BY <1>1, <1>2 DEF Unexecuted
  <1>6. /\ Unexecuted(c) # <<>> /\ Head(Unexecuted(c)) = r
        /\ Unexecuted(c)' = Tail(Unexecuted(c))
    BY <1>1, <1>3, <1>5
  <1>7. submitted' = [submitted EXCEPT ![c] = Tail(submitted[c])]
    <2>1. \A b \in Client : Unexecuted(b)' = IF b = c THEN Tail(Unexecuted(c)) ELSE Unexecuted(b)
      BY <1>4, <1>6
    <2> QED
      BY <1>1, <2>1 DEF submitted
  <1>8. submitted[c] # <<>> /\ Head(submitted[c]) = r
    BY <1>1, <1>6 DEF submitted
  <1>9. Disk!Execute(c)
    BY <1>2, <1>7, <1>8 DEF Disk!Execute, submitted
  <1> QED
    BY <1>1, <1>9

(* The end marker is nobody's request. *)
LEMMA StopRefines == Inv /\ Stop => submitted' = submitted
  <1> SUFFICES ASSUME Inv, Stop PROVE submitted' = submitted
    OBVIOUS
  <1>1. /\ queue \in Seq(QueueEntry) /\ Nullopt \in QueueEntry /\ Nullopt.op = "nullopt"
        /\ queue' = Append(queue, Nullopt) /\ UNCHANGED <<worker, hand>>
    BY Entries DEF Stop, Push, Inv, Types
  <1>2. \A c \in Client : InQueue(queue', c) = InQueue(queue, c)
    BY <1>1, InQueueAppend DEF Joined
  <1>3. \A c \in Client : Unexecuted(c)' = Unexecuted(c)
    BY <1>1, <1>2 DEF Unexecuted
  <1> QED
    BY <1>3 DEF submitted

(* The safety part of ImplementsAtomicDisk: callers cannot tell the thread *)
(* and its queue from a disk that executes each caller's requests once, in *)
(* the order of its calls, one at a time over all callers.                 *)
THEOREM Implements == Spec => Disk!Init /\ [][Disk!Next]_(Disk!vars)
  <1>1. Inv /\ Quiet /\ [Next]_vars => [Disk!Next]_(Disk!vars)
    <2> SUFFICES ASSUME Inv, Quiet, [Next]_vars PROVE Disk!Next \/ UNCHANGED Disk!vars
      OBVIOUS
    <2>1. ASSUME NEW c \in Client, ClientStep(c) PROVE Disk!Next \/ UNCHANGED Disk!vars
      <3>1. CASE Put(c)
        BY <3>1, PutRefines DEF Disk!Next
      <3>2. CASE Notify(c)
        <4>1. submitted' = submitted
          BY <3>2, SameSubmitted DEF Notify, NotifyAll
        <4> QED
          BY <3>2, <4>1, Stutter DEF Notify
      <3>3. CASE Await(c)
        <4>1. submitted' = submitted
          BY <3>3, SameSubmitted DEF Await
        <4> QED
          BY <3>3, <4>1, Stutter DEF Await
      <3> QED
        BY <2>1, <3>1, <3>2, <3>3 DEF ClientStep
    <2>2. ASSUME NEW c \in Client, NEW requests \in Workload, Schedule(c, requests)
          PROVE  Disk!Next
      BY <2>2, ScheduleRefines DEF Disk!Next
    <2>3. CASE Get
      BY <2>3, GetRefines, Stutter DEF Get
    <2>4. CASE Run
      BY <2>4, RunRefines DEF Disk!Next
    <2>5. CASE Reply
      <3>1. submitted' = submitted
        BY <2>5, SameSubmitted DEF Reply
      <3> QED
        BY <2>5, <3>1, Stutter DEF Reply
    <2>6. CASE SpuriousWakeup
      <3>1. submitted' = submitted
        BY <2>6, SameSubmitted DEF SpuriousWakeup
      <3> QED
        BY <2>6, <3>1, Stutter DEF SpuriousWakeup
    <2>7. CASE Stop
      BY <2>7, StopRefines, Stutter DEF Stop
    <2>8. CASE Destructor
      <3>1. submitted' = submitted /\ UNCHANGED disk
        BY <2>8, SameSubmitted DEF Destructor, StopNotify, Join, NotifyAll
      <3> QED
        BY <3>1, Stutter
    <2>9. CASE UNCHANGED vars
      <3>1. submitted' = submitted /\ UNCHANGED disk
        BY <2>9, SameSubmitted DEF vars
      <3> QED
        BY <3>1, Stutter
    <2>10. CASE Finished
      BY <2>9, <2>10 DEF Finished
    <2> QED
      BY <2>1, <2>2, <2>3, <2>4, <2>5, <2>6, <2>7, <2>8, <2>9, <2>10 DEF Next, Worker
  <1> QED
    BY <1>1, InitRefines, Invariance, QuietAlways, PTL DEF Spec
=============================================================================
