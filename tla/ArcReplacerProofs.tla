-------------------------- MODULE ArcReplacerProofs --------------------------
(***************************************************************************)
(* The invariants of ArcReplacer for any number of frames, any pages and   *)
(* any bound on the target.  Inv speaks of the lists as sets of frames and *)
(* pages, each named once, and has one part per thing the code keeps by    *)
(* hand; one lemma shows that each operation keeps all of it.  Then the    *)
(* order of eviction: the lists are always in the order of use.            *)
(***************************************************************************)
EXTENDS MCArcReplacer, ListLemmas, FiniteSetTheorems, SequenceTheorems, TLAPS

(* erase takes the one place where x is, and nothing else. *)
LEMMA Erased ==
  ASSUME NEW S, NEW list \in Seq(S), NEW x, IsInjective(list)
  PROVE  /\ Without(list, x) \in Seq(S)
         /\ Len(Without(list, x)) = IF x \in Range(list) THEN Len(list) - 1 ELSE Len(list)
         /\ Range(Without(list, x)) = Range(list) \ {x}
         /\ IsInjective(Without(list, x))
  <1>1. Len(list) \in Nat /\ DOMAIN list = 1..Len(list)
    OBVIOUS
  <1>2. CASE x \notin Range(list)
    BY <1>2 DEF Without, Range
  <1>3. CASE x \in Range(list)
    <2>1. PICK n \in DOMAIN list : list[n] = x /\ Without(list, x) = RemoveAt(list, n)
      BY <1>3 DEF Range, Without
    <2> DEFINE r == RemoveAt(list, n)
    <2>2. /\ r \in Seq(S) /\ Len(r) = Len(list) - 1 /\ DOMAIN r = 1..(Len(list) - 1)
          /\ \A i \in 1..(Len(list) - 1) : r[i] = IF i < n THEN list[i] ELSE list[i + 1]
      BY RemovedAt
    <2> HIDE DEF r
    <2>3. Range(r) = Range(list) \ {x}
      <3>1. ASSUME NEW i \in DOMAIN r PROVE r[i] \in Range(list) \ {x}
        <4>1. i \in DOMAIN list /\ i + 1 \in DOMAIN list
          BY <1>1, <2>2
        <4>2. CASE i < n
          BY <1>1, <2>1, <2>2, <4>1, <4>2 DEF Range, IsInjective
        <4>3. CASE ~(i < n)
          BY <1>1, <2>1, <2>2, <4>1, <4>3 DEF Range, IsInjective
        <4> QED
          BY <4>2, <4>3
      <3>2. ASSUME NEW i \in DOMAIN list, list[i] # x PROVE list[i] \in Range(r)
        <4>1. CASE i < n
          <5> i \in DOMAIN r /\ r[i] = list[i]
            BY <1>1, <2>2, <4>1
          <5> QED
            BY DEF Range
        <4>2. CASE n < i
          <5> i - 1 \in DOMAIN r /\ r[i - 1] = list[i]
            BY <1>1, <2>2, <4>2
          <5> QED
            BY DEF Range
        <4> QED
          BY <1>1, <2>1, <3>2, <4>1, <4>2
      <3> QED
        BY <3>1, <3>2 DEF Range
    <2>4. IsInjective(r)
      <3> SUFFICES ASSUME NEW a \in DOMAIN r, NEW b \in DOMAIN r, r[a] = r[b] PROVE a = b
        BY DEF IsInjective
      <3>1. /\ a \in DOMAIN list /\ a + 1 \in DOMAIN list
            /\ b \in DOMAIN list /\ b + 1 \in DOMAIN list
        BY <1>1, <2>2
      <3> QED
        BY <1>1, <2>2, <3>1 DEF IsInjective
    <2> QED
      BY <1>3, <2>1, <2>2, <2>3, <2>4 DEF r
  <1> QED
    BY <1>2, <1>3

(* A map after the erasure of one of its keys. *)
LEMMA Dropped ==
  ASSUME NEW m, NEW k
  PROVE  /\ DOMAIN Drop(m, k) = DOMAIN m \ {k}
         /\ \A j \in DOMAIN m \ {k} : Drop(m, k)[j] = m[j]
  BY DEF Drop, Restrict

(* A set of places in a list has a last one: where EvictFrom stops. *)
LEMMA GreatestExists ==
  ASSUME NEW n \in Nat, NEW I \in SUBSET (1..n), I # {}
  PROVE  Max(I) \in I /\ \A i \in I : i <= Max(I)
  <1> DEFINE T == {n - i : i \in I}
  <1>1. T \subseteq Nat /\ T # {}
    <2>1. PICK i \in I : TRUE
      OBVIOUS
    <2>2. n - i \in T
      BY <2>1
    <2>3. \A k \in I : n - k \in Nat
      OBVIOUS
    <2> QED
      BY <2>2, <2>3
  <1> DEFINE R == {pair \in Nat \X Nat : pair[1] < pair[2]}
  <1>5. IsWellFoundedOn(R, Nat)
    BY NatLessThanWellFounded DEF OpToRel
  <1>2. PICK m \in T : \A k \in T : ~(<<k, m>> \in R)
    <2> HIDE DEF T, R
    <2> QED
      BY <1>1, <1>5, WFMin
  <1>3. PICK i \in I : m = n - i
    BY <1>2
  <1>4. \A j \in I : j <= i
    <2> TAKE j \in I
    <2> n - j \in T /\ n - j \in Nat /\ m \in Nat
      BY <1>1
    <2> ~(n - j < m)
      BY <1>2
    <2> QED
      BY <1>3
  <1> QED
    BY <1>4 DEF Max

(* A list of frames, each once, none of them f, is shorter than the pool. *)
LEMMA FrameLeft ==
  ASSUME NEW s \in Seq(Frame), NEW t \in Seq(Frame), NEW f \in Frame,
         IsInjective(s), IsInjective(t), Range(s) \cap Range(t) = {},
         f \notin Range(s) \cup Range(t)
  PROVE  Len(s) + Len(t) < NumFrames
  <1> USE ArcAssumption
  <1>1. /\ IsFiniteSet(Frame) /\ Cardinality(Frame) = NumFrames
        /\ IsFiniteSet(Range(s)) /\ IsFiniteSet(Range(t))
    <2>1. IsFiniteSet(Frame) /\ Cardinality(Frame) = NumFrames
      BY FS_Interval DEF Frame
    <2>2. Range(s) \in SUBSET Frame /\ Range(t) \in SUBSET Frame
      BY DEF Range
    <2> QED
      BY <2>1, <2>2, FS_Subset
  <1>2. ASSUME NEW l \in Seq(Frame), IsInjective(l), IsFiniteSet(Range(l))
        PROVE  Len(l) \in Nat /\ Cardinality(Range(l)) = Len(l)
    <2>1. Len(l) \in Nat /\ DOMAIN l = 1..Len(l) /\ l = [i \in 1..Len(l) |-> l[i]]
      OBVIOUS
    <2>2. l \in Injection(1..Len(l), Range(l)) /\ l \in Surjection(1..Len(l), Range(l))
      BY <1>2, <2>1 DEF Range, Injection, Surjection, IsInjective
    <2>3. IsFiniteSet(1..Len(l)) /\ Cardinality(1..Len(l)) = Len(l)
      <3>1. \A n \in Nat : IsFiniteSet(1..n) /\ Cardinality(1..n) = IF 1 > n THEN 0 ELSE n - 1 + 1
        BY FS_Interval
      <3> QED
        BY <2>1, <3>1
    <2> QED
      BY <1>2, <2>1, <2>2, <2>3, FS_Injection
  <1>3. Len(s) + Len(t) = Cardinality(Range(s) \cup Range(t))
    <2>1. Cardinality(Range(s)) = Len(s) /\ Cardinality(Range(t)) = Len(t)
      BY <1>1, <1>2
    <2>2. Len(s) \in Nat /\ Len(t) \in Nat
      OBVIOUS
    <2>3. Cardinality(Range(s) \cup Range(t)) = Cardinality(Range(s)) + Cardinality(Range(t)) - Cardinality({})
      BY <1>1, FS_Union
    <2> QED
      BY <2>1, <2>2, <2>3, FS_EmptySet
  <1>4. Range(s) \cup Range(t) \in SUBSET (Frame \ {f})
    BY DEF Range
  <1>5. IsFiniteSet(Frame \ {f}) /\ Cardinality(Frame \ {f}) = NumFrames - 1
    BY <1>1, FS_RemoveElement
  <1> QED
    BY <1>1, <1>2, <1>3, <1>4, <1>5, FS_Subset
-----------------------------------------------------------------------------
Evictables == {f \in DOMAIN alive : alive[f].evictable}

(* A frame is on the list its status names, once. *)
Placed ==
  /\ IsInjective(mru) /\ IsInjective(mfu)
  /\ Range(mru) = {f \in DOMAIN alive : alive[f].status = "mru"}
  /\ Range(mfu) = {f \in DOMAIN alive : alive[f].status = "mfu"}

(* A page is on a ghost list once, and the ghost map says on which. *)
Remembered ==
  /\ IsInjective(mru_ghost) /\ IsInjective(mfu_ghost)
  /\ \A p \in Range(mru_ghost) : p \in DOMAIN ghost /\ ghost[p] = "mru_ghost"
  /\ \A p \in Range(mfu_ghost) : p \in DOMAIN ghost /\ ghost[p] = "mfu_ghost"

(* A page is in one frame, and on no ghost list while it is in a frame. *)
OnePlace ==
  /\ \A f, g \in DOMAIN alive : alive[f].page = alive[g].page => f = g
  /\ \A f \in DOMAIN alive : alive[f].page \notin Range(mru_ghost) \cup Range(mfu_ghost)

Counted == curr_size = Cardinality(Evictables)

Inv == TypeOK /\ Placed /\ Remembered /\ OnePlace /\ ArcLimits /\ Counted

(* There are finitely many frames, so counting the evictable ones is sound. *)
LEMMA CountIsNat ==
  ASSUME TypeOK
  PROVE  IsFiniteSet(Evictables) /\ Cardinality(Evictables) \in Nat
  <1>1. IsFiniteSet(Frame)
    BY ArcAssumption, FS_Interval DEF Frame
  <1>2. Evictables \in SUBSET Frame
    BY DEF TypeOK, Evictables
  <1>3. IsFiniteSet(Evictables)
    BY <1>1, <1>2, FS_Subset
  <1> QED
    BY <1>3, FS_CardinalityType

(* The limits of ARC compare natural numbers. *)
LEMMA LengthsAreNat ==
  ASSUME TypeOK
  PROVE  /\ Len(mru) \in Nat /\ Len(mfu) \in Nat
         /\ Len(mru_ghost) \in Nat /\ Len(mfu_ghost) \in Nat
         /\ NumFrames \in Nat
  BY ArcAssumption DEF TypeOK

(* EvictFrom finds an evictable frame of its list when there is one. *)
LEMMA ScanFinds ==
  ASSUME NEW list \in Seq(Frame)
  PROVE  /\ LastEvictable(list) # NoFrame =>
              LastEvictable(list) \in Range(list) /\ alive[LastEvictable(list)].evictable
         /\ (\E f \in Range(list) : alive[f].evictable) => LastEvictable(list) # NoFrame
  <1> DEFINE e == {i \in DOMAIN list : alive[list[i]].evictable}
  <1>1. Len(list) \in Nat /\ DOMAIN list = 1..Len(list)
    OBVIOUS
  <1>2. CASE e = {}
    <2>1. LastEvictable(list) = NoFrame
      BY <1>2 DEF LastEvictable
    <2>2. ~ \E f \in Range(list) : alive[f].evictable
      BY <1>2 DEF Range
    <2> QED
      BY <2>1, <2>2
  <1>3. CASE e # {}
    <2>1. LastEvictable(list) = list[Max(e)]
      BY <1>3 DEF LastEvictable
    <2>2. Max(e) \in e
      <3> e \in SUBSET (1..Len(list))
        BY <1>1
      <3> HIDE DEF e
      <3> QED
        BY <1>1, <1>3, GreatestExists
    <2>3. list[Max(e)] \in Range(list) /\ alive[list[Max(e)]].evictable
      <3> DEFINE m == Max(e)
      <3> m \in DOMAIN list /\ alive[list[m]].evictable
        BY <2>2
      <3> HIDE DEF m
      <3> QED
        BY DEF Range, m
    <2>4. list[Max(e)] # NoFrame
      <3> DEFINE m == Max(e)
      <3> m \in DOMAIN list
        BY <2>2
      <3> HIDE DEF m
      <3> list[m] \in Frame
        BY <1>1
      <3> QED
        BY ArcAssumption DEF Frame, NoFrame, m
    <2> QED
      BY <2>1, <2>3, <2>4
  <1> QED
    BY <1>2, <1>3

(* Evict takes an evictable frame, and takes one when there is one. *)
LEMMA VictimIsEvictable ==
  ASSUME TypeOK, Placed
  PROVE  /\ Victim # NoFrame => Victim \in Evictables
         /\ Evictables # {} <=> Victim # NoFrame
  <1>1. mru \in Seq(Frame) /\ mfu \in Seq(Frame)
    BY DEF TypeOK
  <1>2. Victim # NoFrame => \E list \in {mru, mfu} :
          Victim = LastEvictable(list) /\ LastEvictable(list) # NoFrame
    BY DEF Victim
  <1>3. Victim # NoFrame => Victim \in Evictables
    BY <1>1, <1>2, ScanFinds DEF Placed, Evictables
  <1>4. ASSUME NEW f \in Evictables PROVE Victim # NoFrame
    <2>1. f \in Range(mru) \/ f \in Range(mfu)
      BY DEF TypeOK, Placed, Evictables
    <2>2. LastEvictable(mru) # NoFrame \/ LastEvictable(mfu) # NoFrame
      BY <1>1, <2>1, ScanFinds DEF Evictables
    <2> QED
      BY <2>2 DEF Victim
  <1> QED
    BY <1>3, <1>4

(* Nothing is known, resident or counted at first. *)
LEMMA InitInv == Init => Inv
  <1> SUFFICES ASSUME Init PROVE Inv
    OBVIOUS
  <1>1. DOMAIN alive = {} /\ DOMAIN ghost = {} /\ Range(<<>>) = {} /\ IsInjective(<<>>)
    BY DEF Init, Range, IsInjective
  <1>2. TypeOK
    <2>1. <<>> \in Seq(Frame) /\ <<>> \in Seq(Page) /\ 0 \in 0..MaxTarget
      BY ArcAssumption
    <2>2. /\ DOMAIN alive \subseteq Frame
          /\ \A f \in DOMAIN alive :
               alive[f] \in [page : Page, evictable : BOOLEAN, status : {"mru", "mfu"}]
      BY <1>1
    <2>3. /\ DOMAIN ghost \subseteq Page
          /\ \A p \in DOMAIN ghost : ghost[p] \in {"mru_ghost", "mfu_ghost"}
      BY <1>1
    <2>4. /\ mru \in Seq(Frame) /\ mfu \in Seq(Frame)
          /\ mru_ghost \in Seq(Page) /\ mfu_ghost \in Seq(Page)
      BY <2>1 DEF Init
    <2>5. target \in 0..MaxTarget /\ curr_size \in Int
      BY <2>1 DEF Init
    <2>6. fatal \in BOOLEAN
      BY DEF Init
    <2> QED
      BY <2>2, <2>3, <2>4, <2>5, <2>6 DEF TypeOK
  <1>3. Placed /\ Remembered /\ OnePlace
    BY <1>1 DEF Init, Placed, Remembered, OnePlace
  <1>4. ArcLimits
    BY ArcAssumption DEF Init, ArcLimits
  <1>5. Evictables = {}
    BY <1>1 DEF Evictables
  <1>6. Counted
    BY <1>5, FS_EmptySet DEF Counted, Init
  <1> QED
    BY <1>2, <1>3, <1>4, <1>6 DEF Inv

(* Evict: the page leaves its frame for the front of a ghost list. *)
LEMMA EvictInv == Inv /\ Evict => Inv'
  <1> SUFFICES ASSUME Inv, Evict PROVE Inv'
    OBVIOUS
  <1> DEFINE f == Victim
             p == alive[f].page
  <1>0. f \in Evictables /\ f # NoFrame
    BY VictimIsEvictable DEF Inv, Evict
  <1>1. /\ alive' = Drop(alive, f) /\ curr_size' = curr_size - 1
        /\ UNCHANGED <<target, fatal>>
        /\ \/ /\ f \in Range(mru)
              /\ mru' = Without(mru, f) /\ mru_ghost' = <<p>> \o mru_ghost
              /\ ghost' = Enter(ghost, p, "mru_ghost")
              /\ UNCHANGED <<mfu, mfu_ghost>>
           \/ /\ f \in Range(mfu)
              /\ mfu' = Without(mfu, f) /\ mfu_ghost' = <<p>> \o mfu_ghost
              /\ ghost' = Enter(ghost, p, "mfu_ghost")
              /\ UNCHANGED <<mru, mru_ghost>>
    BY DEF Evict
  <1> HIDE DEF f, p
  <1>2. /\ f \in DOMAIN alive /\ f \in Frame /\ p \in Page /\ p = alive[f].page
        /\ p \notin Range(mru_ghost) \cup Range(mfu_ghost)
    BY <1>0 DEF Inv, TypeOK, Evictables, OnePlace, p
  <1>3. /\ DOMAIN alive' = DOMAIN alive \ {f}
        /\ \A g \in DOMAIN alive \ {f} : alive'[g] = alive[g]
    BY <1>1, Dropped
  <1>4. Evictables' = Evictables \ {f}
    BY <1>3 DEF Evictables
  <1>5. Counted'
    <2>1. Cardinality(Evictables \ {f}) = Cardinality(Evictables) - 1
      BY <1>0, CountIsNat, FS_RemoveElement DEF Inv
    <2> QED
      BY <1>1, <1>4, <2>1 DEF Inv, Counted
  <1>6. CASE /\ f \in Range(mru)
             /\ mru' = Without(mru, f) /\ mru_ghost' = <<p>> \o mru_ghost
             /\ ghost' = Enter(ghost, p, "mru_ghost")
             /\ UNCHANGED <<mfu, mfu_ghost>>
    <2>1. /\ mru' \in Seq(Frame) /\ Len(mru') = Len(mru) - 1
          /\ Range(mru') = Range(mru) \ {f} /\ IsInjective(mru')
      BY <1>6, Erased DEF Inv, TypeOK, Placed
    <2>2. /\ mru_ghost' \in Seq(Page) /\ Len(mru_ghost') = Len(mru_ghost) + 1
          /\ Range(mru_ghost') = Range(mru_ghost) \cup {p} /\ IsInjective(mru_ghost')
      BY <1>2, <1>6, Pushed DEF Inv, TypeOK, Remembered
    <2>3. /\ DOMAIN ghost' = DOMAIN ghost \cup {p} /\ ghost'[p] = "mru_ghost"
          /\ \A q \in DOMAIN ghost : q # p => ghost'[q] = ghost[q]
      BY <1>6 DEF Enter
    <2>4. TypeOK'
      <3>1. \A q \in DOMAIN ghost' : ghost'[q] \in {"mru_ghost", "mfu_ghost"}
        BY <2>3 DEF Inv, TypeOK
      <3>2. curr_size' \in Int
        BY <1>1 DEF Inv, TypeOK
      <3> QED
        BY <1>1, <1>2, <1>3, <1>6, <2>1, <2>2, <2>3, <3>1, <3>2 DEF Inv, TypeOK
    <2>5. Placed'
      BY <1>2, <1>3, <1>6, <2>1 DEF Inv, Placed
    <2>6. Remembered'
      BY <1>2, <1>6, <2>2, <2>3 DEF Inv, Remembered
    <2>7. OnePlace'
      BY <1>2, <1>3, <1>6, <2>2 DEF Inv, OnePlace
    <2>8. ArcLimits'
      BY <1>6, <2>1, <2>2, LengthsAreNat DEF Inv, ArcLimits
    <2> QED
      BY <1>5, <2>4, <2>5, <2>6, <2>7, <2>8 DEF Inv
  <1>7. CASE /\ f \in Range(mfu)
             /\ mfu' = Without(mfu, f) /\ mfu_ghost' = <<p>> \o mfu_ghost
             /\ ghost' = Enter(ghost, p, "mfu_ghost")
             /\ UNCHANGED <<mru, mru_ghost>>
    <2>1. /\ mfu' \in Seq(Frame) /\ Len(mfu') = Len(mfu) - 1
          /\ Range(mfu') = Range(mfu) \ {f} /\ IsInjective(mfu')
      BY <1>7, Erased DEF Inv, TypeOK, Placed
    <2>2. /\ mfu_ghost' \in Seq(Page) /\ Len(mfu_ghost') = Len(mfu_ghost) + 1
          /\ Range(mfu_ghost') = Range(mfu_ghost) \cup {p} /\ IsInjective(mfu_ghost')
      BY <1>2, <1>7, Pushed DEF Inv, TypeOK, Remembered
    <2>3. /\ DOMAIN ghost' = DOMAIN ghost \cup {p} /\ ghost'[p] = "mfu_ghost"
          /\ \A q \in DOMAIN ghost : q # p => ghost'[q] = ghost[q]
      BY <1>7 DEF Enter
    <2>4. TypeOK'
      <3>1. \A q \in DOMAIN ghost' : ghost'[q] \in {"mru_ghost", "mfu_ghost"}
        BY <2>3 DEF Inv, TypeOK
      <3>2. curr_size' \in Int
        BY <1>1 DEF Inv, TypeOK
      <3> QED
        BY <1>1, <1>2, <1>3, <1>7, <2>1, <2>2, <2>3, <3>1, <3>2 DEF Inv, TypeOK
    <2>5. Placed'
      BY <1>2, <1>3, <1>7, <2>1 DEF Inv, Placed
    <2>6. Remembered'
      BY <1>2, <1>7, <2>2, <2>3 DEF Inv, Remembered
    <2>7. OnePlace'
      BY <1>2, <1>3, <1>7, <2>2 DEF Inv, OnePlace
    <2>8. ArcLimits'
      BY <1>7, <2>1, <2>2, LengthsAreNat DEF Inv, ArcLimits
    <2> QED
      BY <1>5, <2>4, <2>5, <2>6, <2>7, <2>8 DEF Inv
  <1> QED
    BY <1>1, <1>6, <1>7

(* A hit on a resident page: its frame goes to the front of mfu. *)
LEMMA HitAliveInv == Inv /\ (\E f \in Frame : HitAlive(f)) => Inv'
  <1> SUFFICES ASSUME Inv, NEW f \in Frame, HitAlive(f) PROVE Inv'
    OBVIOUS
  <1>1. /\ f \in DOMAIN alive
        /\ mru' = Without(mru, f) /\ mfu' = <<f>> \o Without(mfu, f)
        /\ alive' = [alive EXCEPT ![f].status = "mfu"]
        /\ UNCHANGED <<mru_ghost, mfu_ghost, ghost, target, curr_size, fatal>>
    BY DEF HitAlive
  <1>2. /\ DOMAIN alive' = DOMAIN alive
        /\ \A g \in DOMAIN alive : g # f => alive'[g] = alive[g]
        /\ alive'[f] = [alive[f] EXCEPT !.status = "mfu"]
    BY <1>1
  <1>3. /\ alive'[f].page = alive[f].page /\ alive'[f].evictable = alive[f].evictable
        /\ alive'[f].status = "mfu"
        /\ alive'[f] \in [page : Page, evictable : BOOLEAN, status : {"mru", "mfu"}]
    BY <1>1, <1>2 DEF Inv, TypeOK
  <1>4. /\ mru' \in Seq(Frame) /\ Range(mru') = Range(mru) \ {f} /\ IsInjective(mru')
        /\ Len(mru') = IF f \in Range(mru) THEN Len(mru) - 1 ELSE Len(mru)
    BY <1>1, Erased DEF Inv, TypeOK, Placed
  <1> DEFINE rest == Without(mfu, f)
  <1>5. /\ rest \in Seq(Frame) /\ Range(rest) = Range(mfu) \ {f} /\ IsInjective(rest)
        /\ Len(rest) = IF f \in Range(mfu) THEN Len(mfu) - 1 ELSE Len(mfu)
    BY <1>1, Erased DEF Inv, TypeOK, Placed
  <1>6. mfu' = <<f>> \o rest
    BY <1>1
  <1> HIDE DEF rest
  <1>7. /\ mfu' \in Seq(Frame) /\ Range(mfu') = Range(mfu) \cup {f} /\ IsInjective(mfu')
        /\ Len(mfu') = Len(rest) + 1
    <2>1. f \notin Range(rest)
      BY <1>5
    <2> QED
      BY <1>5, <1>6, <2>1, Pushed
  <1>8. f \in Range(mru) <=> f \notin Range(mfu)
    BY <1>1 DEF Inv, TypeOK, Placed
  <1>9. TypeOK'
    BY <1>1, <1>2, <1>3, <1>4, <1>7 DEF Inv, TypeOK
  <1>10. Placed'
    <2>1. Range(mru') = {g \in DOMAIN alive' : alive'[g].status = "mru"}
      BY <1>2, <1>3, <1>4 DEF Inv, Placed
    <2>2. Range(mfu') = {g \in DOMAIN alive' : alive'[g].status = "mfu"}
      BY <1>1, <1>2, <1>3, <1>7 DEF Inv, Placed
    <2> QED
      BY <1>4, <1>7, <2>1, <2>2 DEF Placed
  <1>11. Remembered'
    BY <1>1 DEF Inv, Remembered
  <1>12. OnePlace'
    BY <1>1, <1>2, <1>3 DEF Inv, OnePlace
  <1>13. ArcLimits'
    <2>1. CASE f \in Range(mru)
      <3>1. Len(mru') = Len(mru) - 1 /\ Len(mfu') = Len(mfu) + 1
        BY <1>4, <1>5, <1>7, <1>8, <2>1
      <3> QED
        BY <1>1, <3>1, LengthsAreNat DEF Inv, ArcLimits
    <2>2. CASE f \in Range(mfu)
      <3>1. Len(mru') = Len(mru) /\ Len(mfu') = Len(mfu)
        BY <1>4, <1>5, <1>7, <1>8, <2>2, LengthsAreNat DEF Inv
      <3> QED
        BY <1>1, <3>1, LengthsAreNat DEF Inv, ArcLimits
    <2> QED
      BY <1>8, <2>1, <2>2
  <1>14. Counted'
    <2>1. Evictables' = Evictables
      BY <1>1, <1>2, <1>3 DEF Evictables
    <2> QED
      BY <1>1, <2>1 DEF Inv, Counted
  <1> QED
    BY <1>9, <1>10, <1>11, <1>12, <1>13, <1>14 DEF Inv

(* What a page that comes into a frame leaves true, whichever way it comes: *)
(* nobody else is in the frame, and the page is nowhere else.               *)
LEMMA Arrival ==
  ASSUME Inv, NEW f \in Frame \ DOMAIN alive, NEW p \in Page \ AlivePages,
         NEW s \in {"mru", "mfu"},
         alive' = Enter(alive, f, Status(p, FALSE, s)), curr_size' = curr_size
  PROVE  /\ DOMAIN alive' = DOMAIN alive \cup {f}
         /\ \A g \in DOMAIN alive : alive'[g] = alive[g]
         /\ alive'[f].page = p /\ alive'[f].status = s
         /\ \A g \in DOMAIN alive' :
              alive'[g] \in [page : Page, evictable : BOOLEAN, status : {"mru", "mfu"}]
         /\ \A g, h \in DOMAIN alive' : alive'[g].page = alive'[h].page => g = h
         /\ Counted'
         /\ f \notin Range(mru) \cup Range(mfu)
  <1>1. /\ DOMAIN alive' = DOMAIN alive \cup {f}
        /\ \A g \in DOMAIN alive : alive'[g] = alive[g]
        /\ alive'[f] = Status(p, FALSE, s)
    BY DEF Enter
  <1>2. /\ alive'[f] \in [page : Page, evictable : BOOLEAN, status : {"mru", "mfu"}]
        /\ alive'[f].page = p /\ alive'[f].status = s /\ ~alive'[f].evictable
    <2>1. [page |-> p, evictable |-> FALSE, status |-> s]
            \in [page : Page, evictable : BOOLEAN, status : {"mru", "mfu"}]
      OBVIOUS
    <2> DEFINE new == [page |-> p, evictable |-> FALSE, status |-> s]
    <2>2. alive'[f] = new
      BY <1>1 DEF Status
    <2>3. new.page = p /\ new.status = s
      OBVIOUS
    <2>4. ~new.evictable
      OBVIOUS
    <2> HIDE DEF new
    <2> QED
      BY <2>1, <2>2, <2>3, <2>4 DEF new
  <1>3. \A g \in DOMAIN alive' :
          alive'[g] \in [page : Page, evictable : BOOLEAN, status : {"mru", "mfu"}]
    BY <1>1, <1>2 DEF Inv, TypeOK
  <1>4. \A g, h \in DOMAIN alive' : alive'[g].page = alive'[h].page => g = h
    <2>1. \A g \in DOMAIN alive : alive'[g].page = alive[g].page /\ alive[g].page # p
      BY <1>1 DEF AlivePages
    <2>2. \A g, h \in DOMAIN alive : alive'[g].page = alive'[h].page => g = h
      BY <2>1 DEF Inv, OnePlace
    <2>3. \A g \in DOMAIN alive : alive'[g].page # alive'[f].page
      BY <1>2, <2>1
    <2>4. \A g \in DOMAIN alive' : g = f \/ g \in DOMAIN alive
      BY <1>1
    <2> QED
      BY <2>2, <2>3, <2>4
  <1>5. Evictables' = Evictables
    BY <1>1, <1>2 DEF Evictables
  <1>6. f \notin Range(mru) \cup Range(mfu)
    BY DEF Inv, Placed
  <1> QED
    BY <1>1, <1>2, <1>3, <1>4, <1>5, <1>6 DEF Inv, Counted

(* The target moves by a natural number: the list it divides by has a page. *)
LEMMA StepIsNat ==
  ASSUME NEW hit \in Seq(Page), NEW other \in Seq(Page)
  PROVE  Step(hit, other) \in Nat
  <1>1. Len(hit) \in Nat /\ Len(other) \in Nat
    OBVIOUS
  <1>2. CASE hit = <<>> \/ Len(hit) >= Len(other)
    BY <1>2 DEF Step
  <1>3. CASE ~(hit = <<>> \/ Len(hit) >= Len(other))
    <2>1. Len(hit) \in Nat \ {0}
      BY <1>1, <1>3
    <2>2. \A a \in Nat, b \in Nat \ {0} : a \div b \in Nat
      OBVIOUS
    <2> QED
      BY <1>1, <1>3, <2>1, <2>2 DEF Step
  <1> QED
    BY <1>2, <1>3

(* A hit on mru_ghost: the page leaves that list for the front of mfu. *)
LEMMA HitMruGhostInv ==
  ASSUME Inv, NEW f \in Frame, NEW p \in Page \ AlivePages, HitMruGhost(f, p)
  PROVE  Inv'
  <1>1. /\ f \notin DOMAIN alive /\ p \in DOMAIN ghost /\ p \in Range(mru_ghost)
        /\ mru_ghost' = Without(mru_ghost, p)
        /\ mfu' = <<f>> \o mfu
        /\ alive' = Enter(alive, f, Status(p, FALSE, "mfu"))
        /\ ghost' = Drop(ghost, p)
        /\ UNCHANGED <<mfu_ghost, mru, curr_size, fatal>>
        /\ ghost[p] = "mru_ghost"
    BY DEF HitMruGhost, Revive
  <1>2. /\ DOMAIN alive' = DOMAIN alive \cup {f}
        /\ \A g \in DOMAIN alive : alive'[g] = alive[g]
        /\ alive'[f].page = p /\ alive'[f].status = "mfu"
        /\ \A g \in DOMAIN alive' :
             alive'[g] \in [page : Page, evictable : BOOLEAN, status : {"mru", "mfu"}]
        /\ \A g, h \in DOMAIN alive' : alive'[g].page = alive'[h].page => g = h
        /\ Counted'
        /\ f \notin Range(mru) \cup Range(mfu)
    BY <1>1, Arrival
  <1>3. /\ mfu' \in Seq(Frame) /\ Len(mfu') = Len(mfu) + 1
        /\ Range(mfu') = Range(mfu) \cup {f} /\ IsInjective(mfu')
    BY <1>1, <1>2, Pushed DEF Inv, TypeOK, Placed
  <1>4. /\ mru_ghost' \in Seq(Page) /\ Len(mru_ghost') = Len(mru_ghost) - 1
        /\ Range(mru_ghost') = Range(mru_ghost) \ {p} /\ IsInjective(mru_ghost')
    BY <1>1, Erased DEF Inv, TypeOK, Remembered
  <1>5. /\ DOMAIN ghost' = DOMAIN ghost \ {p}
        /\ \A q \in DOMAIN ghost \ {p} : ghost'[q] = ghost[q]
    BY <1>1, Dropped
  <1>6. p \notin Range(mfu_ghost)
    BY <1>1 DEF Inv, Remembered
  <1>7. Remembered'
    BY <1>1, <1>4, <1>5, <1>6 DEF Inv, Remembered
  <1>8. target' \in 0..MaxTarget
    BY <1>1, StepIsNat, LengthsAreNat, ArcAssumption DEF Inv, TypeOK, HitMruGhost
  <1>9. TypeOK'
    BY <1>1, <1>2, <1>3, <1>4, <1>5, <1>8 DEF Inv, TypeOK
  <1>10. Placed'
    <2>1. Range(mru') = {g \in DOMAIN alive' : alive'[g].status = "mru"}
      BY <1>1, <1>2 DEF Inv, Placed
    <2>2. Range(mfu') = {g \in DOMAIN alive' : alive'[g].status = "mfu"}
      BY <1>2, <1>3 DEF Inv, Placed
    <2> QED
      BY <1>1, <1>3, <2>1, <2>2 DEF Inv, Placed
  <1>11. OnePlace'
    BY <1>1, <1>2, <1>4, <1>6, ZenonT(60) DEF Inv, OnePlace
  <1>12. ArcLimits'
    BY <1>1, <1>3, <1>4, LengthsAreNat DEF Inv, ArcLimits
  <1> QED
    BY <1>2, <1>7, <1>9, <1>10, <1>11, <1>12 DEF Inv

(* A hit on mfu_ghost: the page leaves that list for the front of mfu. *)
LEMMA HitMfuGhostInv ==
  ASSUME Inv, NEW f \in Frame, NEW p \in Page \ AlivePages, HitMfuGhost(f, p)
  PROVE  Inv'
  <1>1. /\ f \notin DOMAIN alive /\ p \in DOMAIN ghost /\ p \in Range(mfu_ghost)
        /\ mfu_ghost' = Without(mfu_ghost, p)
        /\ mfu' = <<f>> \o mfu
        /\ alive' = Enter(alive, f, Status(p, FALSE, "mfu"))
        /\ ghost' = Drop(ghost, p)
        /\ UNCHANGED <<mru_ghost, mru, curr_size, fatal>>
        /\ ghost[p] = "mfu_ghost"
    BY DEF HitMfuGhost, Revive
  <1>2. /\ DOMAIN alive' = DOMAIN alive \cup {f}
        /\ \A g \in DOMAIN alive : alive'[g] = alive[g]
        /\ alive'[f].page = p /\ alive'[f].status = "mfu"
        /\ \A g \in DOMAIN alive' :
             alive'[g] \in [page : Page, evictable : BOOLEAN, status : {"mru", "mfu"}]
        /\ \A g, h \in DOMAIN alive' : alive'[g].page = alive'[h].page => g = h
        /\ Counted'
        /\ f \notin Range(mru) \cup Range(mfu)
    BY <1>1, Arrival
  <1>3. /\ mfu' \in Seq(Frame) /\ Len(mfu') = Len(mfu) + 1
        /\ Range(mfu') = Range(mfu) \cup {f} /\ IsInjective(mfu')
    BY <1>1, <1>2, Pushed DEF Inv, TypeOK, Placed
  <1>4. /\ mfu_ghost' \in Seq(Page) /\ Len(mfu_ghost') = Len(mfu_ghost) - 1
        /\ Range(mfu_ghost') = Range(mfu_ghost) \ {p} /\ IsInjective(mfu_ghost')
    BY <1>1, Erased DEF Inv, TypeOK, Remembered
  <1>5. /\ DOMAIN ghost' = DOMAIN ghost \ {p}
        /\ \A q \in DOMAIN ghost \ {p} : ghost'[q] = ghost[q]
    BY <1>1, Dropped
  <1>6. p \notin Range(mru_ghost)
    BY <1>1 DEF Inv, Remembered
  <1>7. Remembered'
    BY <1>1, <1>4, <1>5, <1>6 DEF Inv, Remembered
  <1>8. target' \in 0..MaxTarget
    BY <1>1, StepIsNat, LengthsAreNat, ArcAssumption DEF Inv, TypeOK, HitMfuGhost
  <1>9. TypeOK'
    BY <1>1, <1>2, <1>3, <1>4, <1>5, <1>8 DEF Inv, TypeOK
  <1>10. Placed'
    <2>1. Range(mru') = {g \in DOMAIN alive' : alive'[g].status = "mru"}
      BY <1>1, <1>2 DEF Inv, Placed
    <2>2. Range(mfu') = {g \in DOMAIN alive' : alive'[g].status = "mfu"}
      BY <1>2, <1>3 DEF Inv, Placed
    <2> QED
      BY <1>1, <1>3, <2>1, <2>2 DEF Inv, Placed
  <1>11. OnePlace'
    BY <1>1, <1>2, <1>4, <1>6 DEF Inv, OnePlace
  <1>12. ArcLimits'
    BY <1>1, <1>3, <1>4, LengthsAreNat DEF Inv, ArcLimits
  <1> QED
    BY <1>2, <1>7, <1>9, <1>10, <1>11, <1>12 DEF Inv

(* A miss: the frame goes to the front of mru.  A ghost list that has to    *)
(* give up its back has one: the frame that comes in is on neither resident *)
(* list, so these do not fill the pool, and the ghosts make up the limit.   *)
LEMMA MissInv ==
  ASSUME Inv, NEW f \in Frame, NEW p \in Page \ AlivePages, Miss(f, p)
  PROVE  Inv'
  <1> DEFINE l1 == Len(mru) + Len(mru_ghost)
             l2 == Len(mfu) + Len(mfu_ghost)
  <1>1. /\ f \notin DOMAIN alive /\ p \notin DOMAIN ghost
        /\ l1 <= NumFrames
        /\ mru_ghost' = IF l1 = NumFrames THEN Front(mru_ghost) ELSE mru_ghost
        /\ mfu_ghost' = IF l1 # NumFrames /\ l1 + l2 = 2 * NumFrames
                         THEN Front(mfu_ghost) ELSE mfu_ghost
        /\ mru' = <<f>> \o mru
        /\ alive' = Enter(alive, f, Status(p, FALSE, "mru"))
        /\ UNCHANGED <<mfu, ghost, target, curr_size, fatal>>
    BY DEF Miss
  <1>2. /\ DOMAIN alive' = DOMAIN alive \cup {f}
        /\ \A g \in DOMAIN alive : alive'[g] = alive[g]
        /\ alive'[f].page = p /\ alive'[f].status = "mru"
        /\ \A g \in DOMAIN alive' :
             alive'[g] \in [page : Page, evictable : BOOLEAN, status : {"mru", "mfu"}]
        /\ \A g, h \in DOMAIN alive' : alive'[g].page = alive'[h].page => g = h
        /\ Counted'
        /\ f \notin Range(mru) \cup Range(mfu)
    BY <1>1, Arrival
  <1>3. /\ mru' \in Seq(Frame) /\ Len(mru') = Len(mru) + 1
        /\ Range(mru') = Range(mru) \cup {f} /\ IsInjective(mru')
    BY <1>1, <1>2, Pushed DEF Inv, TypeOK, Placed
  <1>4. Len(mru) + Len(mfu) < NumFrames
    <2>1. Range(mru) \cap Range(mfu) = {}
      BY DEF Inv, Placed
    <2> QED
      BY <1>2, <2>1, FrameLeft DEF Inv, TypeOK, Placed
  <1>5. /\ l1 = NumFrames => Len(mru_ghost) > 0
        /\ l1 # NumFrames /\ l1 + l2 = 2 * NumFrames => Len(mfu_ghost) > 0
    BY <1>1, <1>4, LengthsAreNat DEF Inv
  <1>6. /\ mru_ghost' \in Seq(Page) /\ Range(mru_ghost') \subseteq Range(mru_ghost)
        /\ IsInjective(mru_ghost')
        /\ Len(mru_ghost') = IF l1 = NumFrames THEN Len(mru_ghost) - 1 ELSE Len(mru_ghost)
    <2>1. CASE l1 = NumFrames
      <3>1. mru_ghost # <<>>
        BY <1>5, <2>1
      <3> QED
        BY <1>1, <2>1, <3>1, Popped DEF Inv, TypeOK, Remembered
    <2>2. CASE l1 # NumFrames
      BY <1>1, <2>2 DEF Inv, TypeOK, Remembered
    <2> QED
      BY <2>1, <2>2
  <1>7. /\ mfu_ghost' \in Seq(Page) /\ Range(mfu_ghost') \subseteq Range(mfu_ghost)
        /\ IsInjective(mfu_ghost')
        /\ Len(mfu_ghost') = IF l1 # NumFrames /\ l1 + l2 = 2 * NumFrames
                             THEN Len(mfu_ghost) - 1 ELSE Len(mfu_ghost)
    <2>1. CASE l1 # NumFrames /\ l1 + l2 = 2 * NumFrames
      <3>1. mfu_ghost # <<>>
        BY <1>5, <2>1
      <3> QED
        BY <1>1, <2>1, <3>1, Popped DEF Inv, TypeOK, Remembered
    <2>2. CASE ~(l1 # NumFrames /\ l1 + l2 = 2 * NumFrames)
      BY <1>1, <2>2 DEF Inv, TypeOK, Remembered
    <2> QED
      BY <2>1, <2>2
  <1>8. p \notin Range(mru_ghost) \cup Range(mfu_ghost)
    BY <1>1 DEF Inv, Remembered
  <1>9. TypeOK'
    BY <1>1, <1>2, <1>3, <1>6, <1>7 DEF Inv, TypeOK
  <1>10. Placed'
    <2>1. Range(mru') = {g \in DOMAIN alive' : alive'[g].status = "mru"}
      BY <1>2, <1>3 DEF Inv, Placed
    <2>2. Range(mfu') = {g \in DOMAIN alive' : alive'[g].status = "mfu"}
      BY <1>1, <1>2 DEF Inv, Placed
    <2> QED
      BY <1>1, <1>3, <2>1, <2>2 DEF Inv, Placed
  <1>11. Remembered'
    BY <1>1, <1>6, <1>7 DEF Inv, Remembered
  <1>12. OnePlace'
    <2>1. \A g \in DOMAIN alive :
            alive'[g].page = alive[g].page
              /\ alive[g].page \notin Range(mru_ghost) \cup Range(mfu_ghost)
      BY <1>2 DEF Inv, OnePlace
    <2>2. \A g \in DOMAIN alive' :
            alive'[g].page \notin Range(mru_ghost) \cup Range(mfu_ghost)
      BY <1>2, <1>8, <2>1
    <2>3. /\ Range(mru_ghost') \subseteq Range(mru_ghost)
          /\ Range(mfu_ghost') \subseteq Range(mfu_ghost)
      BY <1>6, <1>7
    <2> QED
      BY <1>2, <2>2, <2>3 DEF OnePlace
  <1>13. ArcLimits'
    <2>1. Len(mfu') = Len(mfu) /\ l1 <= NumFrames /\ l1 + l2 <= 2 * NumFrames
      BY <1>1, LengthsAreNat DEF Inv, ArcLimits
    <2>2. Len(mru') + Len(mru_ghost') <= NumFrames
      <3>1. CASE l1 = NumFrames
        BY <1>3, <1>6, <2>1, <3>1, LengthsAreNat DEF Inv
      <3>2. CASE l1 # NumFrames
        BY <1>3, <1>6, <2>1, <3>2, LengthsAreNat DEF Inv
      <3> QED
        BY <3>1, <3>2
    <2>3. Len(mru') + Len(mru_ghost') + Len(mfu') + Len(mfu_ghost') <= 2 * NumFrames
      <3>1. CASE l1 = NumFrames
        BY <1>3, <1>6, <1>7, <2>1, <3>1, LengthsAreNat DEF Inv
      <3>2. CASE l1 # NumFrames /\ l1 + l2 = 2 * NumFrames
        BY <1>3, <1>6, <1>7, <2>1, <3>2, LengthsAreNat DEF Inv
      <3>3. CASE l1 # NumFrames /\ l1 + l2 # 2 * NumFrames
        <4>1. Len(mru_ghost') = Len(mru_ghost) /\ Len(mfu_ghost') = Len(mfu_ghost)
          BY <1>6, <1>7, <3>3
        <4>2. l1 + l2 < 2 * NumFrames
          BY <2>1, <3>3, LengthsAreNat DEF Inv
        <4> QED
          BY <1>3, <2>1, <4>1, <4>2, LengthsAreNat DEF Inv
      <3> QED
        BY <3>1, <3>2, <3>3
    <2> QED
      BY <2>2, <2>3 DEF ArcLimits
  <1> QED
    BY <1>2, <1>9, <1>10, <1>11, <1>12, <1>13 DEF Inv

(* Pins and unpins frames: the counter follows. *)
LEMMA SetEvictablesInv ==
  ASSUME Inv, NEW F, NEW e \in BOOLEAN, SetEvictables(F, e)
  PROVE  /\ Inv'
         /\ DOMAIN alive' = DOMAIN alive
         /\ \A g \in DOMAIN alive : alive'[g].page = alive[g].page
         /\ fatal' = fatal
  <1> DEFINE changed == {g \in F \cap DOMAIN alive : alive[g].evictable # e}
  <1>1. /\ alive' = [g \in DOMAIN alive |->
             IF g \in changed THEN [alive[g] EXCEPT !.evictable = e] ELSE alive[g]]
        /\ curr_size' = IF e THEN curr_size + Cardinality(changed)
                             ELSE curr_size - Cardinality(changed)
        /\ UNCHANGED <<mru, mfu, mru_ghost, mfu_ghost, ghost, target, fatal>>
    BY DEF SetEvictables
  <1>2. \A g \in DOMAIN alive : alive[g] \in [page : Page, evictable : BOOLEAN, status : {"mru", "mfu"}]
    BY DEF Inv, TypeOK
  <1>3. /\ DOMAIN alive' = DOMAIN alive
        /\ \A g \in DOMAIN alive :
             /\ alive'[g].page = alive[g].page /\ alive'[g].status = alive[g].status
             /\ alive'[g] \in [page : Page, evictable : BOOLEAN, status : {"mru", "mfu"}]
             /\ alive'[g].evictable = IF g \in changed THEN e ELSE alive[g].evictable
    <2>1. DOMAIN alive' = DOMAIN alive
      BY <1>1
    <2>2. ASSUME NEW g \in DOMAIN alive, g \in changed
          PROVE  alive'[g] = [alive[g] EXCEPT !.evictable = e]
      BY <1>1, <2>2
    <2>3. ASSUME NEW g \in DOMAIN alive, g \notin changed PROVE alive'[g] = alive[g]
      BY <1>1, <2>3
    <2> HIDE DEF changed
    <2> QED
      BY <1>2, <2>1, <2>2, <2>3
  <1>4. IsFiniteSet(changed) /\ Cardinality(changed) \in Nat
    <2>1. IsFiniteSet(Frame) /\ changed \in SUBSET Frame
      BY ArcAssumption, FS_Interval DEF Frame, Inv, TypeOK
    <2> QED
      BY <2>1, FS_Subset, FS_CardinalityType
  <1>5. IsFiniteSet(Evictables) /\ Cardinality(Evictables) \in Nat
    BY CountIsNat DEF Inv
  <1>6. TypeOK'
    <2>1. curr_size' \in Int
      <3> HIDE DEF changed
      <3> QED
        BY <1>1, <1>4 DEF Inv, TypeOK
    <2> QED
      BY <1>1, <1>3, <2>1 DEF Inv, TypeOK
  <1>7. Placed' /\ Remembered' /\ OnePlace' /\ ArcLimits'
    <2> HIDE DEF changed
    <2>1. Placed'
      BY <1>1, <1>3 DEF Inv, Placed
    <2>2. Remembered' /\ ArcLimits'
      BY <1>1 DEF Inv, Remembered, ArcLimits
    <2>3. OnePlace'
      BY <1>1, <1>3 DEF Inv, OnePlace
    <2> QED
      BY <2>1, <2>2, <2>3
  <1>8. Counted'
    <2>1. CASE e = TRUE
      <3>1. Evictables' = Evictables \cup changed
        BY <1>2, <1>3, <2>1 DEF Evictables
      <3>2. Evictables \cap changed = {}
        BY <2>1 DEF Evictables
      <3> HIDE DEF changed
      <3>3. Cardinality(Evictables \cup changed) = Cardinality(Evictables) + Cardinality(changed)
        <4>1. Cardinality(Evictables \cup changed)
                = Cardinality(Evictables) + Cardinality(changed) - Cardinality({})
          BY <1>4, <1>5, <3>2, FS_Union
        <4>2. Cardinality({}) = 0
          BY FS_EmptySet
        <4> QED
          BY <1>4, <1>5, <4>1, <4>2
      <3> QED
        BY <1>1, <2>1, <3>1, <3>3 DEF Inv, Counted
    <2>2. CASE e = FALSE
      <3>1. Evictables' = Evictables \ changed
        BY <1>2, <1>3, <2>2 DEF Evictables
      <3>2. Evictables \cap changed = changed
        BY <1>2, <2>2 DEF Evictables
      <3> HIDE DEF changed
      <3>3. Cardinality(Evictables \ changed) = Cardinality(Evictables) - Cardinality(changed)
        BY <1>5, <3>2, FS_Difference
      <3> QED
        BY <1>1, <2>2, <3>1, <3>3 DEF Inv, Counted
    <2> QED
      BY <2>1, <2>2
  <1> QED
    BY <1>1, <1>3, <1>6, <1>7, <1>8 DEF Inv

(* Remove: an evictable frame leaves its list, and its page is forgotten. *)
LEMMA DeleteInv ==
  ASSUME Inv, NEW f \in Frame, Delete(f)
  PROVE  Inv'
  <1>1. /\ f \in DOMAIN alive /\ f \in Evictables
        /\ mru' = Without(mru, f) /\ mfu' = Without(mfu, f)
        /\ alive' = Drop(alive, f)
        /\ curr_size' = curr_size - 1
        /\ UNCHANGED <<mru_ghost, mfu_ghost, ghost, target, fatal>>
    BY DEF Delete, RemoveFrame, Evictables
  <1>2. /\ DOMAIN alive' = DOMAIN alive \ {f}
        /\ \A g \in DOMAIN alive \ {f} : alive'[g] = alive[g]
    BY <1>1, Dropped
  <1>3. /\ mru' \in Seq(Frame) /\ Range(mru') = Range(mru) \ {f} /\ IsInjective(mru')
        /\ Len(mru') \in Nat /\ Len(mru') <= Len(mru)
    <2>1. /\ mru' \in Seq(Frame) /\ Range(mru') = Range(mru) \ {f} /\ IsInjective(mru')
          /\ Len(mru') = IF f \in Range(mru) THEN Len(mru) - 1 ELSE Len(mru)
      BY <1>1, Erased DEF Inv, TypeOK, Placed
    <2>2. Len(mru') \in Nat
      BY <2>1
    <2> QED
      BY <2>1, <2>2, LengthsAreNat DEF Inv
  <1>4. /\ mfu' \in Seq(Frame) /\ Range(mfu') = Range(mfu) \ {f} /\ IsInjective(mfu')
        /\ Len(mfu') \in Nat /\ Len(mfu') <= Len(mfu)
    <2>1. /\ mfu' \in Seq(Frame) /\ Range(mfu') = Range(mfu) \ {f} /\ IsInjective(mfu')
          /\ Len(mfu') = IF f \in Range(mfu) THEN Len(mfu) - 1 ELSE Len(mfu)
      BY <1>1, Erased DEF Inv, TypeOK, Placed
    <2>2. Len(mfu') \in Nat
      BY <2>1
    <2> QED
      BY <2>1, <2>2, LengthsAreNat DEF Inv
  <1>5. TypeOK'
    <2>1. curr_size' \in Int
      BY <1>1 DEF Inv, TypeOK
    <2> QED
      BY <1>1, <1>2, <1>3, <1>4, <2>1 DEF Inv, TypeOK
  <1>6. Placed'
    BY <1>2, <1>3, <1>4 DEF Inv, Placed
  <1>7. Remembered'
    BY <1>1 DEF Inv, Remembered
  <1>8. OnePlace'
    BY <1>1, <1>2 DEF Inv, OnePlace
  <1>9. ArcLimits'
    BY <1>1, <1>3, <1>4, LengthsAreNat DEF Inv, ArcLimits
  <1>10. Counted'
    <2>1. Evictables' = Evictables \ {f}
      BY <1>2 DEF Evictables
    <2>2. Cardinality(Evictables \ {f}) = Cardinality(Evictables) - 1
      BY <1>1, CountIsNat, FS_RemoveElement DEF Inv
    <2> QED
      BY <1>1, <2>1, <2>2 DEF Inv, Counted
  <1> QED
    BY <1>5, <1>6, <1>7, <1>8, <1>9, <1>10 DEF Inv

(* A step that changes at most fatal changes nothing Inv speaks of. *)
LEMMA KeepInv ==
  ASSUME Inv, fatal' \in BOOLEAN,
         UNCHANGED <<mru, mfu, mru_ghost, mfu_ghost, alive, ghost, target, curr_size>>
  PROVE  Inv'
  BY DEF Inv, TypeOK, Placed, Remembered, OnePlace, ArcLimits, Counted, Evictables

(* An access knows the page of its frame afterwards, unless it aborts. *)
LEMMA AccessInv ==
  ASSUME Inv, NEW f \in Frame, NEW p \in Page, Access(f, p)
  PROVE  /\ Inv'
         /\ \/ fatal'
            \/ /\ fatal' = fatal
               /\ DOMAIN alive' = DOMAIN alive \cup {f} /\ alive'[f].page = p
               /\ \A g \in DOMAIN alive \ {f} : alive'[g] = alive[g]
  <1>1. CASE HitAlive(f)
    <2>1. f \in DOMAIN alive /\ alive[f].page = p
      BY <1>1 DEF HitAlive, Access
    <2>2. /\ alive' = [alive EXCEPT ![f].status = "mfu"] /\ fatal' = fatal
          /\ alive[f] \in [page : Page, evictable : BOOLEAN, status : {"mru", "mfu"}]
      BY <1>1, <2>1 DEF HitAlive, Inv, TypeOK
    <2> QED
      BY <1>1, <2>1, <2>2, HitAliveInv
  <1>2. CASE HitForgotten(f, p)
    BY <1>2, KeepInv DEF HitForgotten
  <1>3. f \notin DOMAIN alive => p \notin AlivePages
    BY DEF Access
  <1>4. ASSUME NEW s, alive' = Enter(alive, f, Status(p, FALSE, s)), f \notin DOMAIN alive
        PROVE  /\ DOMAIN alive' = DOMAIN alive \cup {f} /\ alive'[f].page = p
               /\ \A g \in DOMAIN alive \ {f} : alive'[g] = alive[g]
    BY <1>4 DEF Enter, Status
  <1>5. CASE HitMruGhost(f, p)
    <2>1. p \in Page \ AlivePages
      BY <1>3, <1>5 DEF HitMruGhost
    <2> QED
      BY <1>4, <1>5, <2>1, HitMruGhostInv DEF HitMruGhost, Revive
  <1>6. CASE HitMfuGhost(f, p)
    <2>1. p \in Page \ AlivePages
      BY <1>3, <1>6 DEF HitMfuGhost
    <2> QED
      BY <1>4, <1>6, <2>1, HitMfuGhostInv DEF HitMfuGhost, Revive
  <1>7. CASE Miss(f, p)
    <2>1. p \in Page \ AlivePages
      BY <1>3, <1>7 DEF Miss
    <2> QED
      BY <1>4, <1>7, <2>1, MissInv DEF Miss
  <1> QED
    BY <1>1, <1>2, <1>5, <1>6, <1>7 DEF Access, RecordAccess

(* A frame that is removed is forgotten, unless it was pinned. *)
LEMMA RemoveInv ==
  ASSUME Inv, NEW f \in Frame, RemoveFrame(f)
  PROVE  /\ Inv'
         /\ \/ fatal'
            \/ /\ fatal' = fatal
               /\ DOMAIN alive' = DOMAIN alive \ {f}
               /\ \A g \in DOMAIN alive \ {f} : alive'[g] = alive[g]
  <1>1. CASE UNCHANGED arc /\ f \notin DOMAIN alive
    BY <1>1, KeepInv DEF arc, Inv, TypeOK
  <1>2. CASE ~Delete(f) /\ fatal' = TRUE
    <2>1. UNCHANGED <<mru, mfu, mru_ghost, mfu_ghost, alive, ghost, target, curr_size>>
      BY <1>2 DEF RemoveFrame, Delete, arc
    <2> QED
      BY <1>2, <2>1, KeepInv
  <1>3. CASE Delete(f)
    <2>1. alive' = Drop(alive, f) /\ fatal' = fatal
      BY <1>3 DEF Delete, RemoveFrame
    <2> QED
      BY <1>3, <2>1, DeleteInv, Dropped
  <1> QED
    BY <1>1, <1>2, <1>3 DEF RemoveFrame, Delete

(* Every call of the replacer, as the pool makes it, keeps the invariant. *)
THEOREM Invariance == Spec => []Inv
  <1>1. Inv /\ [Next]_arc => Inv'
    <2> SUFFICES ASSUME Inv, [Next]_arc PROVE Inv'
      OBVIOUS
    <2>1. ASSUME NEW f \in Frame, NEW p \in Page, Access(f, p) PROVE Inv'
      BY <2>1, AccessInv
    <2>2. ASSUME NEW f \in Frame, NEW e \in BOOLEAN, f \in DOMAIN alive, SetEvictable(f, e)
          PROVE Inv'
      BY <2>2, SetEvictablesInv DEF SetEvictable
    <2>3. ASSUME NEW f \in Frame, Delete(f) PROVE Inv'
      BY <2>3, DeleteInv
    <2>4. CASE Evict
      BY <2>4, EvictInv
    <2>5. CASE UNCHANGED arc
      <3>1. fatal \in BOOLEAN
        BY DEF Inv, TypeOK
      <3> QED
        BY <2>5, <3>1, KeepInv DEF arc
    <2> QED
      BY <2>1, <2>2, <2>3, <2>4, <2>5 DEF Next
  <1> QED
    BY InitInv, <1>1, PTL DEF Spec

(* Every variable keeps its type, the target and the counter included. *)
THEOREM Typed == Spec => []TypeOK
  BY Invariance, PTL DEF Inv

(* The directory stays within the limits of ARC for every number of frames: *)
(* the trims in RecordAccess make up for Evict, which looks at no limit.    *)
THEOREM DirectoryIsBounded == Spec => []ArcLimits
  BY Invariance, PTL DEF Inv

(* Size() counts the frames Evict may take, and Evict fails only at size 0. *)
THEOREM SizeIsRight == Spec => []SizeCountsVictims
  <1>1. Inv => SizeCountsVictims
    <2> SUFFICES ASSUME Inv PROVE SizeCountsVictims
      OBVIOUS
    <2>1. IsFiniteSet(Evictables) /\ Cardinality(Evictables) \in Nat
      BY CountIsNat DEF Inv
    <2>2. curr_size > 0 <=> Evictables # {}
      BY <2>1, FS_EmptySet DEF Inv, Counted
    <2>3. Evictables # {} <=> Victim # NoFrame
      BY VictimIsEvictable DEF Inv
    <2> QED
      BY <2>2, <2>3 DEF Inv, Counted, SizeCountsVictims, Evictables
  <1> QED
    BY Invariance, <1>1, PTL

(* Two lists that name different things, each once, joined. *)
LEMMA Joined ==
  ASSUME NEW S, NEW a \in Seq(S), NEW b \in Seq(S),
         IsInjective(a), IsInjective(b), Range(a) \cap Range(b) = {}
  PROVE  /\ a \o b \in Seq(S) /\ IsInjective(a \o b)
         /\ Range(a \o b) = Range(a) \cup Range(b)
  <1> DEFINE c == a \o b
  <1>1. Len(a) \in Nat /\ Len(b) \in Nat /\ DOMAIN a = 1..Len(a) /\ DOMAIN b = 1..Len(b)
    OBVIOUS
  <1>2. c \in Seq(S) /\ Len(c) = Len(a) + Len(b) /\ DOMAIN c = 1..Len(c)
    BY ConcatProperties
  <1>3. /\ \A i \in DOMAIN a : c[i] = a[i]
        /\ \A i \in DOMAIN b : c[i + Len(a)] = b[i]
    BY <1>1
  <1> HIDE DEF c
  <1>4. \A i \in DOMAIN c : i \in DOMAIN a \/ (i > Len(a) /\ i - Len(a) \in DOMAIN b)
    BY <1>1, <1>2
  <1>5. \A i \in DOMAIN c : i > Len(a) => c[i] = b[i - Len(a)]
    <2> SUFFICES ASSUME NEW i \in DOMAIN c, i > Len(a) PROVE c[i] = b[i - Len(a)]
      OBVIOUS
    <2>1. i - Len(a) \in DOMAIN b /\ (i - Len(a)) + Len(a) = i
      BY <1>1, <1>2
    <2> QED
      BY <1>3, <2>1
  <1>6. IsInjective(c)
    <2> SUFFICES ASSUME NEW i \in DOMAIN c, NEW j \in DOMAIN c, c[i] = c[j] PROVE i = j
      BY DEF IsInjective
    <2>1. CASE i \in DOMAIN a /\ j \in DOMAIN a
      BY <1>3, <2>1 DEF IsInjective
    <2>2. CASE i > Len(a) /\ j > Len(a)
      <3>1. b[i - Len(a)] = b[j - Len(a)]
        BY <1>5, <2>2
      <3>2. i - Len(a) = j - Len(a)
        BY <1>1, <1>4, <2>2, <3>1 DEF IsInjective
      <3> QED
        BY <1>1, <1>2, <3>2
    <2>3. CASE i \in DOMAIN a /\ j > Len(a)
      <3>1. j - Len(a) \in DOMAIN b
        BY <1>1, <1>4, <2>3
      <3>2. a[i] \in Range(a) /\ b[j - Len(a)] \in Range(b)
        BY <2>3, <3>1 DEF Range
      <3>3. a[i] = b[j - Len(a)]
        BY <1>3, <1>5, <2>3
      <3> QED
        BY <3>2, <3>3
    <2>4. CASE i > Len(a) /\ j \in DOMAIN a
      <3>1. i - Len(a) \in DOMAIN b
        BY <1>1, <1>4, <2>4
      <3>2. a[j] \in Range(a) /\ b[i - Len(a)] \in Range(b)
        BY <2>4, <3>1 DEF Range
      <3>3. a[j] = b[i - Len(a)]
        BY <1>3, <1>5, <2>4
      <3> QED
        BY <3>2, <3>3
    <2> QED
      BY <1>4, <2>1, <2>2, <2>3, <2>4
  <1>7. Range(c) = Range(a) \cup Range(b)
    <2>1. ASSUME NEW i \in DOMAIN c PROVE c[i] \in Range(a) \cup Range(b)
      BY <1>1, <1>3, <1>4, <1>5 DEF Range
    <2>2. ASSUME NEW i \in DOMAIN a PROVE a[i] \in Range(c)
      <3> i \in DOMAIN c /\ c[i] = a[i]
        BY <1>1, <1>2, <1>3
      <3> QED
        BY DEF Range
    <2>3. ASSUME NEW i \in DOMAIN b PROVE b[i] \in Range(c)
      <3> i + Len(a) \in DOMAIN c /\ c[i + Len(a)] = b[i]
        BY <1>1, <1>2, <1>3
      <3> QED
        BY DEF Range
    <2> QED
      BY <2>1, <2>2, <2>3 DEF Range
  <1> QED
    BY <1>2, <1>6, <1>7 DEF c

(* The lists and the maps agree, and no page is in two places: what a miss, *)
(* three kinds of hit, an eviction and a removal keep up by hand.           *)
THEOREM ListsAgree == Spec => []ListsMatchMaps
  <1> DEFINE pages(list) == [i \in DOMAIN list |-> alive[list[i]].page]
  <1>1. Inv => ListsMatchMaps
    <2> SUFFICES ASSUME Inv PROVE ListsMatchMaps
      OBVIOUS
    <2>1. IsInjective(mru \o mfu)
      <3>1. Range(mru) \cap Range(mfu) = {}
        BY DEF Inv, Placed
      <3> QED
        BY <3>1, Joined DEF Inv, TypeOK, Placed
    <2>2. ASSUME NEW list \in Seq(Frame), IsInjective(list), Range(list) \subseteq DOMAIN alive
          PROVE  /\ pages(list) \in Seq(Page) /\ IsInjective(pages(list))
                 /\ Range(pages(list)) = {alive[f].page : f \in Range(list)}
      <3>1. Len(list) \in Nat /\ DOMAIN list = 1..Len(list)
        OBVIOUS
      <3>2. \A i \in DOMAIN list : list[i] \in DOMAIN alive /\ alive[list[i]].page \in Page
        BY <2>2 DEF Range, Inv, TypeOK
      <3>3. pages(list) \in Seq(Page)
        BY <3>1, <3>2
      <3>4. IsInjective(pages(list))
        BY <2>2, <3>2 DEF IsInjective, Inv, OnePlace
      <3>5. Range(pages(list)) = {alive[f].page : f \in Range(list)}
        BY DEF Range
      <3> QED
        BY <3>3, <3>4, <3>5
    <2>3. /\ pages(mru) \in Seq(Page) /\ IsInjective(pages(mru))
          /\ Range(pages(mru)) = {alive[f].page : f \in Range(mru)}
      BY <2>2 DEF Inv, TypeOK, Placed
    <2>4. /\ pages(mfu) \in Seq(Page) /\ IsInjective(pages(mfu))
          /\ Range(pages(mfu)) = {alive[f].page : f \in Range(mfu)}
      BY <2>2 DEF Inv, TypeOK, Placed
    <2>5. Range(pages(mru)) \cap Range(pages(mfu)) = {}
      BY <2>3, <2>4 DEF Inv, Placed, OnePlace
    <2>6. /\ Range(pages(mru)) \cap Range(mru_ghost) = {}
          /\ Range(pages(mfu)) \cap Range(mru_ghost) = {}
          /\ Range(pages(mru)) \cap Range(mfu_ghost) = {}
          /\ Range(pages(mfu)) \cap Range(mfu_ghost) = {}
          /\ Range(mru_ghost) \cap Range(mfu_ghost) = {}
      BY <2>3, <2>4 DEF Inv, Placed, OnePlace, Remembered
    <2> DEFINE a == pages(mru) \o pages(mfu)
               b == a \o mru_ghost
    <2> HIDE DEF pages
    <2>7. /\ a \in Seq(Page) /\ IsInjective(a)
          /\ Range(a) = Range(pages(mru)) \cup Range(pages(mfu))
      <3> DEFINE m == pages(mru)
                 n == pages(mfu)
      <3>1. m \in Seq(Page) /\ IsInjective(m) /\ n \in Seq(Page) /\ IsInjective(n)
        BY <2>3, <2>4
      <3>2. Range(m) \cap Range(n) = {}
        BY <2>5
      <3>3. a = m \o n
        OBVIOUS
      <3> HIDE DEF a, m, n
      <3>4. /\ m \o n \in Seq(Page) /\ IsInjective(m \o n)
            /\ Range(m \o n) = Range(m) \cup Range(n)
        BY <3>1, <3>2, Joined
      <3> QED
        BY <3>3, <3>4 DEF m, n
    <2>8. /\ mru_ghost \in Seq(Page) /\ IsInjective(mru_ghost)
          /\ mfu_ghost \in Seq(Page) /\ IsInjective(mfu_ghost)
      BY DEF Inv, TypeOK, Remembered
    <2>9. b \in Seq(Page) /\ IsInjective(b) /\ Range(b) = Range(a) \cup Range(mru_ghost)
      <3> HIDE DEF a
      <3>1. Range(a) \cap Range(mru_ghost) = {}
        BY <2>6, <2>7
      <3> QED
        BY <2>7, <2>8, <3>1, Joined
    <2>10. IsInjective(b \o mfu_ghost)
      <3> HIDE DEF a, b
      <3>1. Range(b) \cap Range(mfu_ghost) = {}
        BY <2>6, <2>7, <2>9
      <3> QED
        BY <2>8, <2>9, <3>1, Joined
    <2> QED
      BY <2>1, <2>10 DEF ListsMatchMaps, Inv, Placed, Remembered, pages
  <1> QED
    BY Invariance, <1>1, PTL

-----------------------------------------------------------------------------
(* The order of use. *)

(* a comes before b in the list. *)
Precedes(list, a, b) == \E i, j \in DOMAIN list : i < j /\ list[i] = a /\ list[j] = b

(* A new first element comes before the others; their order stays. *)
LEMMA PrecedesPushed ==
  ASSUME NEW S, NEW list \in Seq(S), NEW x \in S, NEW a, NEW b
  PROVE  Precedes(<<x>> \o list, a, b)
           <=> (a = x /\ b \in Range(list)) \/ Precedes(list, a, b)
  <1> DEFINE r == <<x>> \o list
  <1>1. /\ r \in Seq(S) /\ Len(r) = Len(list) + 1 /\ Len(list) \in Nat
        /\ DOMAIN r = 1..(Len(list) + 1) /\ DOMAIN list = 1..Len(list)
        /\ r[1] = x /\ \A i \in 1..Len(list) : r[i + 1] = list[i]
    OBVIOUS
  <1> HIDE DEF r
  <1>2. ASSUME Precedes(r, a, b)
        PROVE  (a = x /\ b \in Range(list)) \/ Precedes(list, a, b)
    <2>1. PICK i \in DOMAIN r, j \in DOMAIN r : i < j /\ r[i] = a /\ r[j] = b
      BY <1>2 DEF Precedes
    <2>2. j - 1 \in DOMAIN list /\ list[j - 1] = b
      BY <1>1, <2>1
    <2>3. CASE i = 1
      BY <1>1, <2>1, <2>2, <2>3 DEF Range
    <2>4. CASE i # 1
      <3>1. i - 1 \in DOMAIN list /\ list[i - 1] = a /\ i - 1 < j - 1
        BY <1>1, <2>1, <2>4
      <3> QED
        BY <2>2, <3>1 DEF Precedes
    <2> QED
      BY <2>3, <2>4
  <1>3. ASSUME a = x, b \in Range(list) PROVE Precedes(r, a, b)
    <2>1. PICK j \in DOMAIN list : list[j] = b
      BY <1>3 DEF Range
    <2>2. 1 \in DOMAIN r /\ j + 1 \in DOMAIN r /\ 1 < j + 1 /\ r[1] = a /\ r[j + 1] = b
      BY <1>1, <1>3, <2>1
    <2> QED
      BY <2>2 DEF Precedes
  <1>4. ASSUME Precedes(list, a, b) PROVE Precedes(r, a, b)
    <2>1. PICK i \in DOMAIN list, j \in DOMAIN list : i < j /\ list[i] = a /\ list[j] = b
      BY <1>4 DEF Precedes
    <2>2. /\ i + 1 \in DOMAIN r /\ j + 1 \in DOMAIN r /\ i + 1 < j + 1
          /\ r[i + 1] = a /\ r[j + 1] = b
      BY <1>1, <2>1
    <2> QED
      BY <2>2 DEF Precedes
  <1> QED
    BY <1>2, <1>3, <1>4 DEF r

(* An erasure keeps the order of the others. *)
LEMMA PrecedesErased ==
  ASSUME NEW S, NEW list \in Seq(S), NEW x, IsInjective(list), NEW a, NEW b
  PROVE  Precedes(Without(list, x), a, b) <=> Precedes(list, a, b) /\ a # x /\ b # x
  <1>1. Len(list) \in Nat /\ DOMAIN list = 1..Len(list)
    OBVIOUS
  <1>2. CASE x \notin Range(list)
    <2>1. Without(list, x) = list
      BY <1>2 DEF Without, Range
    <2> QED
      BY <1>2, <2>1 DEF Precedes, Range
  <1>3. CASE x \in Range(list)
    <2>1. PICK n \in DOMAIN list : list[n] = x /\ Without(list, x) = RemoveAt(list, n)
      BY <1>3 DEF Range, Without
    <2> DEFINE r == RemoveAt(list, n)
    <2>2. /\ DOMAIN r = 1..(Len(list) - 1)
          /\ \A i \in 1..(Len(list) - 1) : r[i] = IF i < n THEN list[i] ELSE list[i + 1]
      BY RemovedAt
    <2> HIDE DEF r
    <2>3. ASSUME Precedes(r, a, b) PROVE Precedes(list, a, b) /\ a # x /\ b # x
      <3>1. PICK i \in DOMAIN r, j \in DOMAIN r : i < j /\ r[i] = a /\ r[j] = b
        BY <2>3 DEF Precedes
      <3> DEFINE k == IF i < n THEN i ELSE i + 1
                 l == IF j < n THEN j ELSE j + 1
      <3>2. /\ k \in DOMAIN list /\ l \in DOMAIN list /\ k < l /\ k # n /\ l # n
            /\ list[k] = a /\ list[l] = b
        BY <1>1, <2>2, <3>1
      <3> HIDE DEF k, l
      <3> QED
        BY <2>1, <3>2 DEF Precedes, IsInjective
    <2>4. ASSUME Precedes(list, a, b), a # x, b # x PROVE Precedes(r, a, b)
      <3>1. PICK i \in DOMAIN list, j \in DOMAIN list : i < j /\ list[i] = a /\ list[j] = b
        BY <2>4 DEF Precedes
      <3> DEFINE k == IF i < n THEN i ELSE i - 1
                 l == IF j < n THEN j ELSE j - 1
      <3>2. i # n /\ j # n
        BY <2>1, <2>4, <3>1
      <3>3. /\ k \in DOMAIN r /\ l \in DOMAIN r /\ k < l
            /\ r[k] = a /\ r[l] = b
        BY <1>1, <2>2, <3>1, <3>2
      <3> HIDE DEF k, l
      <3> QED
        BY <3>3 DEF Precedes
    <2> QED
      BY <2>1, <2>3, <2>4 DEF r
  <1> QED
    BY <1>2, <1>3

(* The lists of frames are in the order of use, and no page of a frame is  *)
(* in the ghost map, where Evict puts the page it takes.                   *)
InOrderOfUse ==
  /\ used \in Seq(Frame) /\ IsInjective(used)
  /\ DOMAIN alive \subseteq Range(used)
  /\ \A a, b \in Frame : Precedes(mru, a, b) \/ Precedes(mfu, a, b) => Precedes(used, a, b)
  /\ \A f \in DOMAIN alive : alive[f].page \notin DOMAIN ghost

(* What comes before or after something is in the list. *)
LEMMA PrecedesInList ==
  ASSUME NEW list, NEW a, NEW b, Precedes(list, a, b)
  PROVE  a \in Range(list) /\ b \in Range(list)
  BY DEF Precedes, Range

(* The lists hold frames that are alive, and these have been used. *)
LEMMA ListedIsUsed ==
  ASSUME Inv, InOrderOfUse
  PROVE  /\ mru \in Seq(Frame) /\ mfu \in Seq(Frame)
         /\ IsInjective(mru) /\ IsInjective(mfu)
         /\ Range(mru) \cup Range(mfu) \subseteq DOMAIN alive
         /\ DOMAIN alive \subseteq Range(used) /\ DOMAIN alive \subseteq Frame
  BY DEF Inv, TypeOK, Placed, InOrderOfUse

(* A frame used again is the most recent; the order of the others stays. *)
LEMMA UsedAgain ==
  ASSUME InOrderOfUse, NEW f \in Frame, used' = <<f>> \o Without(used, f)
  PROVE  /\ used' \in Seq(Frame) /\ IsInjective(used') /\ Range(used') = Range(used) \cup {f}
         /\ \A b \in Range(used) \ {f} : Precedes(used', f, b)
         /\ \A a, b \in Frame \ {f} : Precedes(used, a, b) => Precedes(used', a, b)
  <1> DEFINE rest == Without(used, f)
  <1>0. used \in Seq(Frame) /\ IsInjective(used)
    BY DEF InOrderOfUse
  <1>1. rest \in Seq(Frame) /\ IsInjective(rest) /\ Range(rest) = Range(used) \ {f}
    BY <1>0, Erased
  <1>2. \A a, b : Precedes(rest, a, b) <=> Precedes(used, a, b) /\ a # f /\ b # f
    BY <1>0, PrecedesErased
  <1> HIDE DEF rest
  <1>3. \A a, b : Precedes(<<f>> \o rest, a, b)
                    <=> (a = f /\ b \in Range(rest)) \/ Precedes(rest, a, b)
    BY <1>1, PrecedesPushed
  <1>4. used' = <<f>> \o rest
    BY DEF rest
  <1>5. used' \in Seq(Frame) /\ IsInjective(used') /\ Range(used') = Range(used) \cup {f}
    <2>1. f \notin Range(rest)
      BY <1>1
    <2>2. /\ <<f>> \o rest \in Seq(Frame) /\ IsInjective(<<f>> \o rest)
          /\ Range(<<f>> \o rest) = Range(rest) \cup {f}
      BY <1>1, <2>1, Pushed
    <2>3. f \in {f} /\ Range(rest) \cup {f} = Range(used) \cup {f}
      BY <1>1
    <2> QED
      BY <1>4, <2>2, <2>3
  <1>6. \A a, b : Precedes(used', a, b) <=> (a = f /\ b \in Range(rest)) \/ Precedes(rest, a, b)
    BY <1>3, <1>4
  <1>7. \A b \in Range(used) \ {f} : Precedes(used', f, b)
    BY <1>1, <1>6
  <1>8. \A a, b \in Frame \ {f} : Precedes(used, a, b) => Precedes(used', a, b)
    BY <1>2, <1>6
  <1> QED
    BY <1>5, <1>7, <1>8

(* An access moves its frame to the front of a list and of the order. *)
LEMMA AccessInOrder ==
  ASSUME Inv, InOrderOfUse, NEW f \in Frame, NEW p \in Page, Access(f, p),
         used' = <<f>> \o Without(used, f)
  PROVE  InOrderOfUse'
  <1>1. /\ used' \in Seq(Frame) /\ IsInjective(used') /\ Range(used') = Range(used) \cup {f}
        /\ \A b \in Range(used) \ {f} : Precedes(used', f, b)
        /\ \A a, b \in Frame \ {f} : Precedes(used, a, b) => Precedes(used', a, b)
    BY UsedAgain
  <1>2. /\ mru \in Seq(Frame) /\ mfu \in Seq(Frame)
        /\ IsInjective(mru) /\ IsInjective(mfu)
        /\ Range(mru) \cup Range(mfu) \subseteq DOMAIN alive
        /\ DOMAIN alive \subseteq Range(used) /\ DOMAIN alive \subseteq Frame
    BY ListedIsUsed
  <1>3. \A a, b \in Frame : Precedes(mru, a, b) \/ Precedes(mfu, a, b) => Precedes(used, a, b)
    BY DEF InOrderOfUse
  <1>4. \A g \in DOMAIN alive : alive[g].page \notin DOMAIN ghost
    BY DEF InOrderOfUse
  <1>5. CASE HitAlive(f)
    <2>1. /\ f \in DOMAIN alive
          /\ mru' = Without(mru, f) /\ mfu' = <<f>> \o Without(mfu, f)
          /\ alive' = [alive EXCEPT ![f].status = "mfu"] /\ ghost' = ghost
      BY <1>5 DEF HitAlive
    <2>2. DOMAIN alive' = DOMAIN alive /\ \A g \in DOMAIN alive : alive'[g].page = alive[g].page
      BY <2>1
    <2>3. \A a, b : Precedes(mru', a, b) => Precedes(mru, a, b) /\ a # f /\ b # f
      BY <1>2, <2>1, PrecedesErased
    <2>4. Without(mfu, f) \in Seq(Frame) /\ Range(Without(mfu, f)) = Range(mfu) \ {f}
      BY <1>2, Erased
    <2>5. \A a, b : Precedes(mfu', a, b)
            => (a = f /\ b \in Range(mfu) \ {f}) \/ Precedes(Without(mfu, f), a, b)
      BY <2>1, <2>4, PrecedesPushed
    <2>6. \A a, b : Precedes(Without(mfu, f), a, b) => Precedes(mfu, a, b) /\ a # f /\ b # f
      BY <1>2, PrecedesErased
    <2>7. \A a, b \in Frame : Precedes(mru', a, b) \/ Precedes(mfu', a, b) => Precedes(used', a, b)
      BY <1>1, <1>2, <1>3, <2>3, <2>5, <2>6
    <2> QED
      BY <1>1, <1>2, <1>4, <2>1, <2>2, <2>7 DEF InOrderOfUse
  <1>6. \A a, b : Precedes(mru, a, b) \/ Precedes(mfu, a, b) => a \in DOMAIN alive /\ b \in DOMAIN alive
    BY <1>2, PrecedesInList
  <1>7. ASSUME f \notin DOMAIN alive
        PROVE  \A a, b \in Frame : Precedes(mru, a, b) \/ Precedes(mfu, a, b) => Precedes(used', a, b)
    BY <1>1, <1>3, <1>6, <1>7
  <1>8. ASSUME f \notin DOMAIN alive, NEW list \in {mru, mfu}
        PROVE  \A a, b \in Frame : Precedes(<<f>> \o list, a, b) => Precedes(used', a, b)
    <2>1. list \in Seq(Frame) /\ Range(list) \subseteq Range(used) \ {f}
      BY <1>2, <1>8
    <2>2. \A a, b : Precedes(<<f>> \o list, a, b)
            <=> (a = f /\ b \in Range(list)) \/ Precedes(list, a, b)
      BY <2>1, PrecedesPushed
    <2> QED
      BY <1>1, <1>7, <1>8, <2>1, <2>2
  <1>9. ASSUME f \notin DOMAIN alive, NEW s, alive' = Enter(alive, f, Status(p, FALSE, s))
        PROVE  /\ DOMAIN alive' = DOMAIN alive \cup {f} /\ alive'[f].page = p
               /\ \A g \in DOMAIN alive : alive'[g].page = alive[g].page
    BY <1>9 DEF Enter, Status
  <1>10. CASE HitMruGhost(f, p) \/ HitMfuGhost(f, p)
    <2>1. /\ f \notin DOMAIN alive /\ mfu' = <<f>> \o mfu /\ mru' = mru
          /\ alive' = Enter(alive, f, Status(p, FALSE, "mfu")) /\ ghost' = Drop(ghost, p)
      BY <1>10 DEF HitMruGhost, HitMfuGhost, Revive
    <2>2. DOMAIN ghost' = DOMAIN ghost \ {p}
      BY <2>1, Dropped
    <2>3. \A a, b \in Frame : Precedes(mru', a, b) \/ Precedes(mfu', a, b) => Precedes(used', a, b)
      BY <1>7, <1>8, <2>1
    <2> QED
      BY <1>1, <1>2, <1>4, <1>9, <2>1, <2>2, <2>3 DEF InOrderOfUse
  <1>11. CASE HitForgotten(f, p)
    <2>1. f \notin DOMAIN alive /\ UNCHANGED <<mru, mfu, alive, ghost>>
      BY <1>11 DEF HitForgotten
    <2> QED
      BY <1>1, <1>2, <1>4, <1>7, <2>1 DEF InOrderOfUse
  <1>12. CASE Miss(f, p)
    <2>1. /\ f \notin DOMAIN alive /\ p \notin DOMAIN ghost /\ mru' = <<f>> \o mru /\ mfu' = mfu
          /\ alive' = Enter(alive, f, Status(p, FALSE, "mru")) /\ ghost' = ghost
      BY <1>12 DEF Miss
    <2>2. \A a, b \in Frame : Precedes(mru', a, b) \/ Precedes(mfu', a, b) => Precedes(used', a, b)
      BY <1>7, <1>8, <2>1
    <2> QED
      BY <1>1, <1>2, <1>4, <1>9, <2>1, <2>2 DEF InOrderOfUse
  <1> QED
    BY <1>5, <1>10, <1>11, <1>12 DEF Access, RecordAccess

(* A frame that leaves the lists leaves the others in their order. *)
LEMMA LeavesInOrder ==
  ASSUME Inv, InOrderOfUse, NEW f, UNCHANGED used,
         mru' \in {mru, Without(mru, f)}, mfu' \in {mfu, Without(mfu, f)},
         alive' = Drop(alive, f),
         \A g \in DOMAIN alive \ {f} : alive[g].page \notin DOMAIN ghost'
  PROVE  InOrderOfUse'
  <1>1. /\ mru \in Seq(Frame) /\ mfu \in Seq(Frame) /\ IsInjective(mru) /\ IsInjective(mfu)
    BY ListedIsUsed
  <1>2. \A a, b : /\ Precedes(mru', a, b) => Precedes(mru, a, b)
                  /\ Precedes(mfu', a, b) => Precedes(mfu, a, b)
    BY <1>1, PrecedesErased
  <1>3. /\ DOMAIN alive' = DOMAIN alive \ {f}
        /\ \A g \in DOMAIN alive \ {f} : alive'[g] = alive[g]
    BY Dropped
  <1> QED
    BY <1>2, <1>3 DEF InOrderOfUse

(* The frame Evict takes is not alive any more, and its page is a ghost. *)
LEMMA EvictInOrder ==
  ASSUME Inv, InOrderOfUse, Evict, UNCHANGED used
  PROVE  InOrderOfUse' /\ Victim \in DOMAIN alive
  <1>1. Victim \in Evictables
    BY VictimIsEvictable DEF Inv, Evict
  <1>2. PICK f \in DOMAIN alive : f = Victim
    BY <1>1 DEF Evictables
  <1>3. /\ alive' = Drop(alive, f)
        /\ mru' \in {mru, Without(mru, f)} /\ mfu' \in {mfu, Without(mfu, f)}
        /\ DOMAIN ghost' = DOMAIN ghost \cup {alive[f].page}
    BY <1>2 DEF Evict, Enter
  <1>4. \A g \in DOMAIN alive \ {f} : alive[g].page \notin DOMAIN ghost'
    BY <1>3 DEF Inv, OnePlace, InOrderOfUse
  <1>5. InOrderOfUse'
    BY <1>3, <1>4, LeavesInOrder
  <1> QED
    BY <1>2, <1>5

(* A flag does not change the order. *)
LEMMA FlagInOrder ==
  ASSUME InOrderOfUse, NEW F, NEW e, SetEvictables(F, e), UNCHANGED used
  PROVE  InOrderOfUse'
  <1>1. /\ UNCHANGED <<mru, mfu, ghost>> /\ DOMAIN alive' = DOMAIN alive
        /\ \A g \in DOMAIN alive : alive'[g].page = alive[g].page
    BY DEF SetEvictables
  <1> QED
    BY <1>1 DEF InOrderOfUse

(* Every step keeps the order, along with the invariant of the replacer.   *)
THEOREM OrderInvariance == MCSpec => [](Inv /\ InOrderOfUse)
  <1>1. MCInit => Inv /\ InOrderOfUse
    <2> SUFFICES ASSUME MCInit PROVE Inv /\ InOrderOfUse
      OBVIOUS
    <2>1. Inv
      BY InitInv DEF MCInit
    <2>2. /\ mru = <<>> /\ mfu = <<>> /\ alive = <<>> /\ used = <<>>
          /\ DOMAIN <<>> = {} /\ <<>> \in Seq(Frame)
      BY DEF MCInit, Init
    <2> QED
      BY <2>1, <2>2 DEF InOrderOfUse, Precedes, IsInjective
  <1>2. Inv /\ InOrderOfUse /\ [MCNext]_MCVars => (Inv /\ InOrderOfUse)'
    <2> SUFFICES ASSUME Inv, InOrderOfUse, [MCNext]_MCVars PROVE Inv' /\ InOrderOfUse'
      OBVIOUS
    <2>1. ASSUME NEW f \in Frame, NEW p \in Page, Access(f, p),
                 used' = <<f>> \o Without(used, f)
          PROVE  Inv' /\ InOrderOfUse'
      BY <2>1, AccessInv, AccessInOrder
    <2>2. ASSUME NEW f \in Frame, Delete(f), UNCHANGED used PROVE Inv' /\ InOrderOfUse'
      <3>1. /\ alive' = Drop(alive, f) /\ mru' = Without(mru, f) /\ mfu' = Without(mfu, f)
            /\ ghost' = ghost
        BY <2>2 DEF Delete, RemoveFrame
      <3>2. InOrderOfUse'
        BY <2>2, <3>1, LeavesInOrder DEF InOrderOfUse
      <3> QED
        BY <2>2, <3>2, DeleteInv
    <2>3. ASSUME NEW f \in DOMAIN alive, NEW e \in BOOLEAN, SetEvictable(f, e), UNCHANGED used
          PROVE  Inv' /\ InOrderOfUse'
      BY <2>3, SetEvictablesInv, FlagInOrder DEF SetEvictable
    <2>4. CASE Evict /\ UNCHANGED used
      BY <2>4, EvictInv, EvictInOrder
    <2>5. CASE UNCHANGED MCVars
      <3>1. Inv'
        BY <2>5, KeepInv DEF MCVars, arc, Inv, TypeOK
      <3> QED
        BY <2>5, <3>1 DEF MCVars, arc, InOrderOfUse
    <2> QED
      BY <2>1, <2>2, <2>3, <2>4, <2>5 DEF MCNext
  <1> QED
    BY <1>1, <1>2, PTL DEF MCSpec

(* What a scan finds is behind every other evictable frame of its list. *)
LEMMA ScanFindsLast ==
  ASSUME NEW list \in Seq(Frame), NEW g \in Range(list), alive[g].evictable
  PROVE  g = LastEvictable(list) \/ Precedes(list, g, LastEvictable(list))
  <1> DEFINE e == {i \in DOMAIN list : alive[list[i]].evictable}
  <1>1. Len(list) \in Nat /\ DOMAIN list = 1..Len(list)
    OBVIOUS
  <1>2. PICK j \in DOMAIN list : list[j] = g
    BY DEF Range
  <1>3. e \in SUBSET (1..Len(list)) /\ j \in e
    BY <1>1, <1>2
  <1>4. LastEvictable(list) = list[Max(e)]
    BY <1>3 DEF LastEvictable
  <1> HIDE DEF e
  <1>5. Max(e) \in e /\ j <= Max(e)
    BY <1>1, <1>3, GreatestExists
  <1>6. CASE j = Max(e)
    BY <1>2, <1>4, <1>6
  <1>7. CASE j < Max(e)
    BY <1>1, <1>2, <1>3, <1>4, <1>5, <1>7 DEF Precedes
  <1> QED
    BY <1>1, <1>3, <1>5, <1>6, <1>7

(* The victim is behind every other evictable frame of its list. *)
LEMMA VictimIsLast ==
  ASSUME Inv, Victim # NoFrame, NEW g \in Evictables, alive[g].status = alive[Victim].status
  PROVE  g = Victim \/ Precedes(mru, g, Victim) \/ Precedes(mfu, g, Victim)
  <1>1. /\ mru \in Seq(Frame) /\ mfu \in Seq(Frame)
        /\ Range(mru) = {f \in DOMAIN alive : alive[f].status = "mru"}
        /\ Range(mfu) = {f \in DOMAIN alive : alive[f].status = "mfu"}
    BY DEF Inv, TypeOK, Placed
  <1>2. PICK list \in {mru, mfu} : Victim = LastEvictable(list) /\ LastEvictable(list) # NoFrame
    BY DEF Victim
  <1>3. Victim \in Range(list)
    BY <1>1, <1>2, ScanFinds
  <1>4. g \in Range(list) /\ alive[g].evictable
    BY <1>1, <1>3 DEF Evictables
  <1> QED
    BY <1>1, <1>2, <1>4, ScanFindsLast

(* Of each class, the frame Evict takes is the least recently used of those *)
(* it may take, for any number of frames and any history of accesses.       *)
THEOREM EvictsLeastRecentlyUsed == MCSpec => LeastRecentlyUsedFirst
  <1> DEFINE Right(f) ==
        alive[f].page \in DOMAIN ghost' =>
          /\ alive[f].evictable
          /\ \A i, j \in DOMAIN used :
               /\ used[i] = f /\ i < j
               /\ used[j] \in DOMAIN alive /\ alive[used[j]].status = alive[f].status
               => ~alive[used[j]].evictable
  <1>1. Inv /\ InOrderOfUse /\ [MCNext]_MCVars
          => [\A f \in DOMAIN alive \ DOMAIN alive' : Right(f)]_MCVars
    <2> SUFFICES ASSUME Inv, InOrderOfUse, MCNext, NEW f \in DOMAIN alive, f \notin DOMAIN alive'
                 PROVE  Right(f)
      OBVIOUS
    <2>1. ASSUME NEW g \in Frame, NEW p \in Page, Access(g, p) PROVE Right(f)
      <3>1. UNCHANGED alive \/ DOMAIN alive' = DOMAIN alive \cup {g}
        BY <2>1 DEF Access, RecordAccess, HitAlive, HitMruGhost, HitMfuGhost, Revive,
                    HitForgotten, Miss, Enter
      <3> QED
        BY <3>1
    <2>2. ASSUME NEW g \in Frame, Delete(g) PROVE Right(f)
      <3>1. ghost' = ghost
        BY <2>2 DEF Delete, RemoveFrame
      <3> QED
        BY <3>1 DEF InOrderOfUse
    <2>3. ASSUME NEW g \in DOMAIN alive, NEW e \in BOOLEAN, SetEvictable(g, e) PROVE Right(f)
      BY <2>3 DEF SetEvictable, SetEvictables
    <2>4. CASE Evict
      <3>1. Victim # NoFrame /\ alive' = Drop(alive, Victim)
        BY <2>4 DEF Evict
      <3>2. f = Victim
        BY <3>1, Dropped
      <3>3. f \in Evictables
        BY <3>1, <3>2, VictimIsEvictable DEF Inv
      <3>4. ASSUME NEW i \in DOMAIN used, NEW j \in DOMAIN used, used[i] = f, i < j,
                   used[j] \in Evictables, alive[used[j]].status = alive[f].status
            PROVE  FALSE
        <4>1. used \in Seq(Frame) /\ IsInjective(used)
          BY DEF InOrderOfUse
        <4>2. used[j] = f \/ Precedes(mru, used[j], f) \/ Precedes(mfu, used[j], f)
          BY <3>1, <3>2, <3>4, VictimIsLast
        <4>3. used[j] # f
          BY <3>4, <4>1 DEF IsInjective
        <4>4. used[j] \in Frame /\ f \in Frame
          BY <4>1, <3>4
        <4>5. Precedes(used, used[j], f)
          BY <4>2, <4>3, <4>4 DEF InOrderOfUse
        <4>6. PICK k \in DOMAIN used, l \in DOMAIN used : k < l /\ used[k] = used[j] /\ used[l] = f
          BY <4>5 DEF Precedes
        <4>7. k = j /\ l = i
          BY <3>4, <4>1, <4>6 DEF IsInjective
        <4>8. i \in Nat /\ j \in Nat
          BY <4>1
        <4> QED
          BY <3>4, <4>6, <4>7, <4>8
      <3> QED
        BY <3>3, <3>4 DEF Evictables
    <2>5. CASE UNCHANGED MCVars
      BY <2>5 DEF MCVars, arc
    <2> QED
      BY <2>1, <2>2, <2>3, <2>4, <2>5 DEF MCNext
  <1> QED
    BY <1>1, OrderInvariance, PTL DEF MCSpec, LeastRecentlyUsedFirst
=============================================================================
