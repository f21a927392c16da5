-------------------------- MODULE SlottedPageProofs --------------------------
(***************************************************************************)
(* Proofs about MCSlottedPage, for every size of page, header and slot and *)
(* every set of records: the space of a page is accounted for, insertions  *)
(* land where they were asked for, and the page implements RecordList.     *)
(***************************************************************************)
EXTENDS MCSlottedPage, ListLemmas, FiniteSetTheorems, SequenceTheorems

-----------------------------------------------------------------------------
(* Sets, counted.                                                          *)

(* One image for each member. *)
LEMMA ImageSize ==
  ASSUME NEW S, IsFiniteSet(S), NEW f, \A i, j \in S : f[i] = f[j] => i = j
  PROVE  IsFiniteSet({f[i] : i \in S}) /\ Cardinality({f[i] : i \in S}) = Cardinality(S)
  <1> DEFINE T == {f[i] : i \in S}
             g == [i \in S |-> f[i]]
  <1>1. g \in Bijection(S, T)
    BY DEF Bijection, Injection, Surjection, IsInjective
  <1>2. ExistsBijection(S, T)
    BY <1>1 DEF ExistsBijection
  <1> QED
    BY <1>2, FS_Bijection

(* As many, when each is the image of one. *)
LEMMA SameSize ==
  ASSUME NEW S, IsFiniteSet(S), NEW T, NEW f, \A i, j \in S : f[i] = f[j] => i = j,
         T = {f[i] : i \in S}
  PROVE  IsFiniteSet(T) /\ Cardinality(T) = Cardinality(S)
  BY ImageSize

(* How many members of S are below or at x. *)
UpTo(S, x) == Cardinality({i \in S : i <= x})

(* How many members of S are mapped below x. *)
Below(S, f, x) == Cardinality({i \in S : f[i] < x})

Image(S, f) == {f[i] : i \in S}

ImageAnd(S, f, x) == Image(S, f) \cup {x}

(* S goes over into numbers in the same order. *)
OrderKept(S, f) ==
  /\ \A i \in S : f[i] \in Nat
  /\ \A i, j \in S : i < j => f[i] < f[j]

(* One more member among the images of the others, which keep their order: *)
(* what is behind it is counted one place further.                         *)
LEMMA OneMore ==
  ASSUME NEW S, IsFiniteSet(S), S \in SUBSET Nat, NEW f, OrderKept(S, f),
         NEW x \in Nat, x \notin Image(S, f)
  PROVE  /\ Cardinality(ImageAnd(S, f, x)) = Cardinality(S) + 1
         /\ Below(S, f, x) \in 0..Cardinality(S)
         /\ UpTo(ImageAnd(S, f, x), x) = Below(S, f, x) + 1
         /\ \A i \in S : f[i] < x =>
              UpTo(ImageAnd(S, f, x), f[i]) = UpTo(S, i) /\ UpTo(S, i) <= Below(S, f, x)
         /\ \A i \in S : x < f[i] =>
              UpTo(ImageAnd(S, f, x), f[i]) = UpTo(S, i) + 1 /\ Below(S, f, x) < UpTo(S, i)
  <1> DEFINE T == ImageAnd(S, f, x)
             below == {i \in S : f[i] < x}
             to(i) == {j \in S : j <= i}
  <1>0. /\ T = {f[i] : i \in S} \cup {x} /\ Below(S, f, x) = Cardinality(below)
        /\ S \subseteq Nat
    BY DEF Image, ImageAnd, Below
  <1> HIDE DEF T
  <1> USE DEF OrderKept
  <1>10. \A i \in S : f[i] # x
    BY DEF Image
  <1>1. \A i, j \in S : f[i] = f[j] => i = j
    <2> SUFFICES ASSUME NEW i \in S, NEW j \in S, f[i] = f[j] PROVE i = j
      OBVIOUS
    <2>1. ~(i < j) /\ ~(j < i) /\ i \in Nat /\ j \in Nat
      OBVIOUS
    <2> QED
      BY <2>1
  <1>2. \A i, j \in S : f[i] <= f[j] <=> i <= j
    <2> SUFFICES ASSUME NEW i \in S, NEW j \in S PROVE f[i] <= f[j] <=> i <= j
      OBVIOUS
    <2>1. i \in Nat /\ j \in Nat /\ f[i] \in Nat /\ f[j] \in Nat
      OBVIOUS
    <2>2. (i < j => f[i] < f[j]) /\ (j < i => f[j] < f[i])
      OBVIOUS
    <2> QED
      BY <2>1, <2>2
  <1>3. /\ IsFiniteSet(below) /\ Cardinality(below) \in 0..Cardinality(S)
        /\ \A i \in S : IsFiniteSet(to(i)) /\ Cardinality(to(i)) \in Nat
    <2>1. below \in SUBSET S /\ \A i \in S : to(i) \in SUBSET S
      OBVIOUS
    <2> HIDE DEF below, to
    <2>2. Cardinality(S) \in Nat
      BY FS_CardinalityType
    <2>3. IsFiniteSet(below) /\ Cardinality(below) <= Cardinality(S)
      BY <2>1, FS_Subset
    <2>4. Cardinality(below) \in Nat
      BY <2>3, FS_CardinalityType
    <2>5. \A i \in S : IsFiniteSet(to(i))
      BY <2>1, FS_Subset
    <2>6. \A i \in S : Cardinality(to(i)) \in Nat
      BY <2>5, FS_CardinalityType
    <2> QED
      BY <2>2, <2>3, <2>4, <2>5, <2>6
  <1>4. IsFiniteSet(T) /\ Cardinality(T) = Cardinality(S) + 1
    <2> DEFINE im == {f[i] : i \in S}
    <2>1. IsFiniteSet(im) /\ Cardinality(im) = Cardinality(S)
      BY <1>1, ImageSize
    <2>2. x \notin im
      BY <1>10
    <2>3. T = im \cup {x}
      BY <1>0
    <2> HIDE DEF im
    <2> QED
      BY ONLY <2>1, <2>2, <2>3, FS_AddElement
  <1>5. UpTo(T, x) = Cardinality(below) + 1
    <2> DEFINE im == {f[i] : i \in below}
    <2>1. \A i, j \in below : f[i] = f[j] => i = j
      BY <1>1
    <2>2. IsFiniteSet(im) /\ Cardinality(im) = Cardinality(below)
      <3> HIDE DEF below
      <3> QED
        BY <1>3, <2>1, ImageSize
    <2>3. x \notin im
      BY <1>10
    <2>4. {t \in T : t <= x} = im \cup {x}
      <3>1. ASSUME NEW i \in S PROVE f[i] <= x <=> f[i] < x
        <4>1. f[i] \in Nat /\ f[i] # x
          BY <1>10
        <4> QED
          BY <4>1
      <3>2. x <= x
        OBVIOUS
      <3> QED
        BY <1>0, <3>1, <3>2
    <2> HIDE DEF im, below
    <2> QED
      BY ONLY <2>2, <2>3, <2>4, FS_AddElement DEF UpTo
  <1>6. ASSUME NEW i \in S PROVE {f[j] : j \in to(i)} = {t \in {f[j] : j \in S} : t <= f[i]}
    <2>1. \A j \in S : j \in to(i) <=> f[j] <= f[i]
      BY <1>2
    <2>2. to(i) \subseteq S
      OBVIOUS
    <2> HIDE DEF to
    <2> QED
      BY Zenon, <2>1, <2>2
  <1>7. ASSUME NEW i \in S
        PROVE  /\ IsFiniteSet({f[j] : j \in to(i)})
               /\ Cardinality({f[j] : j \in to(i)}) = UpTo(S, i)
    <2>1. \A j, k \in to(i) : f[j] = f[k] => j = k
      BY <1>1
    <2>2. UpTo(S, i) = Cardinality(to(i))
      BY DEF UpTo
    <2> HIDE DEF to
    <2> QED
      BY <1>3, <2>1, <2>2, ImageSize
  <1>8. ASSUME NEW i \in S, f[i] < x
        PROVE  UpTo(T, f[i]) = UpTo(S, i) /\ UpTo(S, i) <= Cardinality(below)
    <2>1. ~(x <= f[i])
      BY <1>8
    <2>2. {t \in T : t <= f[i]} = {f[j] : j \in to(i)}
      BY <1>0, <1>6, <2>1
    <2>3. UpTo(T, f[i]) = UpTo(S, i)
      BY <1>7, <2>2 DEF UpTo
    <2>4. to(i) \in SUBSET below
      <3> SUFFICES ASSUME NEW j \in S, j <= i PROVE f[j] < x
        OBVIOUS
      <3>1. f[j] <= f[i] /\ f[j] \in Nat /\ f[i] \in Nat
        BY <1>2
      <3> QED
        BY <1>8, <3>1
    <2>5. Cardinality(to(i)) <= Cardinality(below)
      <3> HIDE DEF to, below
      <3> QED
        BY <1>3, <2>4, FS_Subset
    <2> QED
      BY <2>3, <2>5 DEF UpTo
  <1>9. ASSUME NEW i \in S, x < f[i]
        PROVE  UpTo(T, f[i]) = UpTo(S, i) + 1 /\ Cardinality(below) < UpTo(S, i)
    <2>1. x <= f[i]
      BY <1>9
    <2>2. {t \in T : t <= f[i]} = {f[j] : j \in to(i)} \cup {x}
      BY <1>0, <1>6, <2>1
    <2>3. x \notin {f[j] : j \in to(i)}
      BY <1>10
    <2>4. UpTo(T, f[i]) = UpTo(S, i) + 1
      <3> DEFINE im == {f[j] : j \in to(i)}
      <3>1. IsFiniteSet(im) /\ Cardinality(im) = UpTo(S, i) /\ x \notin im
        BY <1>7, <2>3
      <3>2. {t \in T : t <= f[i]} = im \cup {x}
        BY <2>2
      <3> HIDE DEF im
      <3> QED
        BY ONLY <3>1, <3>2, FS_AddElement DEF UpTo
    <2>5. below \subseteq to(i) /\ i \in to(i) /\ i \notin below
      <3>1. \A j \in S : f[j] < x => j <= i
        <4> SUFFICES ASSUME NEW j \in S, f[j] < x PROVE j <= i
          OBVIOUS
        <4>1. f[j] <= f[i]
          BY <1>9
        <4> QED
          BY <1>2, <4>1
      <3>2. f[i] \in Nat
        OBVIOUS
      <3>3. ~(f[i] < x) /\ i <= i
        BY <1>9, <3>2
      <3> QED
        BY <3>1, <3>3
    <2>6. Cardinality(below) < Cardinality(to(i))
      <3> HIDE DEF to, below
      <3> QED
        BY <1>3, <2>5, FewerIn
    <2> QED
      BY <2>4, <2>6 DEF UpTo
  <1> QED
    BY <1>0, <1>3, <1>4, <1>5, <1>8, <1>9 DEF T

(* As many members, in the same order. *)
LEMMA SameOrder ==
  ASSUME NEW S, IsFiniteSet(S), S \in SUBSET Nat, NEW f, OrderKept(S, f), NEW T, T = Image(S, f)
  PROVE  /\ Cardinality(T) = Cardinality(S)
         /\ \A i \in S : UpTo(T, f[i]) = UpTo(S, i)
  <1>0. T = {f[i] : i \in S} /\ S \subseteq Nat
    BY DEF Image
  <1> USE DEF OrderKept
  <1>1. \A i, j \in S : f[i] = f[j] => i = j
    <2> SUFFICES ASSUME NEW i \in S, NEW j \in S, f[i] = f[j] PROVE i = j
      OBVIOUS
    <2>1. ~(i < j) /\ ~(j < i) /\ i \in Nat /\ j \in Nat
      OBVIOUS
    <2> QED
      BY <2>1
  <1>2. \A i, j \in S : f[i] <= f[j] <=> i <= j
    <2> SUFFICES ASSUME NEW i \in S, NEW j \in S PROVE f[i] <= f[j] <=> i <= j
      OBVIOUS
    <2>1. i \in Nat /\ j \in Nat /\ f[i] \in Nat /\ f[j] \in Nat
      OBVIOUS
    <2>2. (i < j => f[i] < f[j]) /\ (j < i => f[j] < f[i])
      OBVIOUS
    <2> QED
      BY <2>1, <2>2
  <1>3. ASSUME NEW i \in S PROVE UpTo(T, f[i]) = UpTo(S, i)
    <2> DEFINE to == {j \in S : j <= i}
    <2>1. to \in SUBSET S
      OBVIOUS
    <2>2. {t \in T : t <= f[i]} = {f[j] : j \in to}
      BY <1>0, <1>2
    <2>3. \A j, k \in to : f[j] = f[k] => j = k
      BY <1>1
    <2>4. UpTo(S, i) = Cardinality(to)
      BY DEF UpTo
    <2> HIDE DEF to
    <2>5. IsFiniteSet(to)
      BY <2>1, FS_Subset
    <2> QED
      BY <2>2, <2>3, <2>4, <2>5, ImageSize DEF UpTo
  <1>4. Cardinality(T) = Cardinality(S)
    BY <1>0, <1>1, SameSize
  <1> QED
    BY <1>3, <1>4

-----------------------------------------------------------------------------
(* The order of the live slots.                                            *)

LEMMA Lives ==
  ASSUME NEW p, Len(p.slots) \in Nat
  PROVE  /\ LiveSlots(p) \subseteq 1..Len(p.slots)
         /\ IsFiniteSet(LiveSlots(p)) /\ Cardinality(LiveSlots(p)) \in Nat
         /\ Cardinality(LiveSlots(p)) <= Len(p.slots)
         /\ \A i \in 1..Len(p.slots) : i \in LiveSlots(p) <=> Live(p.slots[i])
         /\ \A x : /\ IsFiniteSet({i \in LiveSlots(p) : i <= x})
                   /\ LiveBefore(p, x) \in Nat
  <1>1. LiveSlots(p) \in SUBSET (1..Len(p.slots))
    BY DEF LiveSlots
  <1>2. IsFiniteSet(1..Len(p.slots)) /\ Cardinality(1..Len(p.slots)) = Len(p.slots)
    BY FS_Interval, SMTT(60)
  <1>3. IsFiniteSet(LiveSlots(p)) /\ Cardinality(LiveSlots(p)) <= Len(p.slots)
    BY <1>1, <1>2, FS_Subset
  <1>4. Cardinality(LiveSlots(p)) \in Nat
    BY <1>3, FS_CardinalityType
  <1>5. \A i \in 1..Len(p.slots) : i \in LiveSlots(p) <=> Live(p.slots[i])
    BY DEF LiveSlots
  <1>6. ASSUME NEW x PROVE IsFiniteSet({i \in LiveSlots(p) : i <= x}) /\ LiveBefore(p, x) \in Nat
    <2>1. {i \in LiveSlots(p) : i <= x} \in SUBSET LiveSlots(p)
      OBVIOUS
    <2>2. IsFiniteSet({i \in LiveSlots(p) : i <= x})
      BY <1>3, <2>1, FS_Subset
    <2> QED
      BY <2>2, FS_CardinalityType DEF LiveBefore
  <1> QED
    BY <1>1, <1>3, <1>4, <1>5, <1>6

(* What the recursion in LiveInOrder adds to the list for one slot. *)
Listed(list, p, i) == IF Live(p.slots[i]) THEN Append(list, i) ELSE list

Lists(f, p) == f = [i \in 0..Len(p.slots) |-> IF i = 0 THEN <<>> ELSE Listed(f[i - 1], p, i)]

ListUpTo(p) == CHOOSE f : Lists(f, p)

LEMMA LiveInOrderUnfolds == \A p : LiveInOrder(p) = ListUpTo(p)[Len(p.slots)]
  BY Zenon DEF LiveInOrder, ListUpTo, Lists, Listed

(* The function that LiveInOrder defines by recursion exists. *)
LEMMA ListExists ==
  ASSUME NEW p, Len(p.slots) \in Nat
  PROVE  /\ ListUpTo(p)[0] = <<>>
         /\ \A i \in 1..Len(p.slots) : ListUpTo(p)[i] = Listed(ListUpTo(p)[i - 1], p, i)
  <1> DEFINE N == Len(p.slots)
             Does(f, n) == f = [i \in 0..n |-> IF i = 0 THEN <<>> ELSE Listed(f[i - 1], p, i)]
             S == {n \in Nat : \E f : Does(f, n)}
  <1>1. 0 \in S
    <2> DEFINE f == [i \in 0..0 |-> <<>>]
    <2>1. f = [i \in 0..0 |-> IF i = 0 THEN <<>> ELSE Listed(f[i - 1], p, i)]
      OBVIOUS
    <2>2. Does(f, 0)
      BY <2>1
    <2> QED
      BY <2>2
  <1>2. ASSUME NEW n \in 0..(N - 1), n \in S PROVE n + 1 \in S
    <2>1. PICK f : Does(f, n)
      BY <1>2
    <2> DEFINE g == [i \in 0..(n + 1) |-> IF i = n + 1 THEN Listed(f[n], p, n + 1) ELSE f[i]]
    <2>2. \A i \in 0..n : f[i] = IF i = 0 THEN <<>> ELSE Listed(f[i - 1], p, i)
      BY <2>1
    <2>3. /\ \A i \in 0..n : g[i] = f[i]
          /\ g[n + 1] = Listed(f[n], p, n + 1)
          /\ g = [i \in 0..(n + 1) |-> g[i]]
      OBVIOUS
    <2> HIDE DEF g
    <2>4. ASSUME NEW i \in 0..(n + 1) PROVE g[i] = IF i = 0 THEN <<>> ELSE Listed(g[i - 1], p, i)
      <3>1. CASE i = n + 1
        <4>1. i - 1 = n /\ n \in 0..n /\ i # 0
          BY <3>1
        <4> QED
          BY <2>3, <3>1, <4>1
      <3>2. CASE i \in 1..n
        <4> i - 1 \in 0..n /\ i \in 0..n
          BY <3>2
        <4> QED
          BY <2>2, <2>3, <3>2
      <3>3. CASE i = 0
        <4>1. 0 \in 0..n
          OBVIOUS
        <4> QED
          BY <2>2, <2>3, <3>3, <4>1
      <3> QED
        BY <3>1, <3>2, <3>3
    <2>5. Does(g, n + 1)
      BY <2>3, <2>4
    <2> HIDE DEF Does
    <2> QED
      BY <2>5
  <1> HIDE DEF S
  <1>3. N \in S
    <2>1. \A n \in 0..(N - 1) : n \in S => n + 1 \in S
      BY <1>2
    <2>2. \A n \in 0..N : n \in S
      BY <1>1, <2>1, Counting
    <2> QED
      BY <2>2
  <1>4. \E f : Lists(f, p)
    BY <1>3 DEF S, Lists
  <1> DEFINE u == ListUpTo(p)
  <1>5. Lists(u, p)
    BY <1>4 DEF ListUpTo
  <1> HIDE DEF u
  <1>6. u = [i \in 0..N |-> IF i = 0 THEN <<>> ELSE Listed(u[i - 1], p, i)]
    BY <1>5 DEF Lists
  <1>7. u[0] = <<>> /\ \A i \in 1..N : u[i] = Listed(u[i - 1], p, i)
    BY <1>6
  <1> QED
    BY <1>7 DEF u

(* LiveInOrder lists the live slots, each at the place that LiveBefore     *)
(* counts.                                                                 *)
LEMMA LiveOrder ==
  ASSUME NEW p, Len(p.slots) \in Nat
  PROVE  /\ LiveInOrder(p) \in Seq(Nat)
         /\ Len(LiveInOrder(p)) = Cardinality(LiveSlots(p))
         /\ DOMAIN LiveInOrder(p) = 1..Cardinality(LiveSlots(p))
         /\ \A k \in 1..Cardinality(LiveSlots(p)) :
              LiveInOrder(p)[k] \in LiveSlots(p) /\ LiveBefore(p, LiveInOrder(p)[k]) = k
         /\ \A i \in LiveSlots(p) :
              /\ LiveBefore(p, i) \in 1..Cardinality(LiveSlots(p))
              /\ LiveInOrder(p)[LiveBefore(p, i)] = i
  <1> DEFINE N == Len(p.slots)
             u == ListUpTo(p)
             Good(i) ==
               /\ u[i] \in Seq(Nat) /\ Len(u[i]) = LiveBefore(p, i)
               /\ \A k \in 1..LiveBefore(p, i) :
                    u[i][k] \in LiveSlots(p) /\ LiveBefore(p, u[i][k]) = k
               /\ \A j \in LiveSlots(p) : j <= i =>
                    LiveBefore(p, j) \in 1..LiveBefore(p, i) /\ u[i][LiveBefore(p, j)] = j
             S == {i \in 0..N : Good(i)}
  <1>1. 0 \in S
    <2>1. {i \in LiveSlots(p) : i <= 0} = {}
      BY DEF LiveSlots
    <2>2. LiveBefore(p, 0) = 0
      BY <2>1, FS_EmptySet DEF LiveBefore
    <2>3. u[0] = <<>>
      BY ListExists
    <2>4. ~ \E j \in LiveSlots(p) : j <= 0
      BY DEF LiveSlots
    <2>5. Good(0)
      BY <2>2, <2>3, <2>4
    <2> HIDE DEF Good
    <2> QED
      BY <2>5
  <1>2. ASSUME NEW i \in 0..(N - 1), i \in S PROVE i + 1 \in S
    <2> DEFINE before == LiveBefore(p, i)
    <2>1. before \in Nat /\ LiveBefore(p, i + 1) \in Nat
      BY Lives
    <2>2. Good(i) /\ u[i + 1] = Listed(u[i], p, i + 1)
      <3>1. i + 1 \in 1..N /\ (i + 1) - 1 = i
        OBVIOUS
      <3>2. u[i + 1] = Listed(u[(i + 1) - 1], p, i + 1)
        BY <3>1, ListExists
      <3> QED
        BY <1>2, <3>1, <3>2
    <2>3. CASE Live(p.slots[i + 1])
      <3>1. i + 1 \in LiveSlots(p)
        BY <2>3 DEF LiveSlots
      <3>2. {j \in LiveSlots(p) : j <= i + 1} = {j \in LiveSlots(p) : j <= i} \cup {i + 1}
        <4> LiveSlots(p) \subseteq Int
          BY DEF LiveSlots
        <4> QED
          BY <3>1
      <3>3. LiveBefore(p, i + 1) = before + 1
        <4>1. IsFiniteSet({j \in LiveSlots(p) : j <= i})
          BY Lives
        <4>2. i + 1 \notin {j \in LiveSlots(p) : j <= i}
          OBVIOUS
        <4> QED
          BY <3>2, <4>1, <4>2, FS_AddElement DEF LiveBefore
      <3>4. u[i + 1] = Append(u[i], i + 1)
        BY <2>2, <2>3 DEF Listed
      <3>5. /\ u[i + 1] \in Seq(Nat) /\ Len(u[i + 1]) = before + 1
            /\ u[i + 1][before + 1] = i + 1
            /\ \A k \in 1..before : u[i + 1][k] = u[i][k]
        <4>1. u[i] \in Seq(Nat) /\ Len(u[i]) = before /\ i + 1 \in Nat
          BY <2>2
        <4> HIDE DEF u
        <4> QED
          BY <3>4, <4>1, AppendProperties
      <3>6. ASSUME NEW k \in 1..(before + 1)
            PROVE  u[i + 1][k] \in LiveSlots(p) /\ LiveBefore(p, u[i + 1][k]) = k
        <4>1. CASE k = before + 1
          BY <3>1, <3>3, <3>5, <4>1
        <4>2. CASE k \in 1..before
          BY <2>2, <3>5, <4>2
        <4> QED
          BY <2>1, <4>1, <4>2
      <3>7. ASSUME NEW j \in LiveSlots(p), j <= i + 1
            PROVE  LiveBefore(p, j) \in 1..(before + 1) /\ u[i + 1][LiveBefore(p, j)] = j
        <4>1. CASE j = i + 1
          BY <2>1, <3>3, <3>5, <4>1
        <4>2. CASE j # i + 1
          <5>1. j <= i
            BY <3>7, <4>2 DEF LiveSlots
          <5>2. LiveBefore(p, j) \in 1..before /\ u[i][LiveBefore(p, j)] = j
            BY <2>2, <5>1
          <5> QED
            BY <2>1, <3>5, <5>2, SMTT(60)
        <4> QED
          BY <4>1, <4>2
      <3>8. Good(i + 1)
        BY <3>3, <3>5, <3>6, <3>7
      <3> HIDE DEF Good
      <3> QED
        BY <3>8
    <2>4. CASE ~Live(p.slots[i + 1])
      <3>1. i + 1 \notin LiveSlots(p)
        BY <2>4 DEF LiveSlots
      <3>2. \A j \in LiveSlots(p) : j <= i + 1 <=> j <= i
        BY <3>1 DEF LiveSlots
      <3>3. {j \in LiveSlots(p) : j <= i + 1} = {j \in LiveSlots(p) : j <= i}
        BY <3>2
      <3>4. LiveBefore(p, i + 1) = before /\ u[i + 1] = u[i]
        BY <2>2, <2>4, <3>3 DEF LiveBefore, Listed
      <3>5. Good(i + 1)
        BY <2>2, <3>2, <3>4
      <3> HIDE DEF Good
      <3> QED
        BY <3>5
    <2> QED
      BY <2>3, <2>4
  <1>3. N \in S
    <2> HIDE DEF S
    <2>1. \A i \in 0..(N - 1) : i \in S => i + 1 \in S
      BY <1>2
    <2>2. \A i \in 0..N : i \in S
      BY <1>1, <2>1, Counting
    <2> QED
      BY <2>2
  <1>4. LiveSlots(p) = {i \in LiveSlots(p) : i <= N}
    BY DEF LiveSlots
  <1>5. LiveBefore(p, N) = Cardinality(LiveSlots(p))
    BY <1>4 DEF LiveBefore
  <1>6. Good(N) /\ LiveInOrder(p) = u[N]
    BY <1>3, LiveInOrderUnfolds
  <1>7. DOMAIN u[N] = 1..Len(u[N])
    BY <1>6
  <1> HIDE DEF u
  <1> QED
    BY <1>4, <1>5, <1>6, <1>7

-----------------------------------------------------------------------------
(* The bytes of a page.                                                    *)

Cell == {<<>>} \cup (Name \X Nat)

PageSlot == [offset : {0} \cup Address, size : 1..(PageSize - HeaderSize)]

Page == [slots : Seq(PageSlot), free_space_ptr : HeaderSize..PageSize, data : [Address -> Cell]]

LEMMA Sizes ==
  /\ PageSize \in Nat /\ HeaderSize \in Nat /\ SlotSize \in Nat /\ Word \in Nat
  /\ 0 < HeaderSize /\ HeaderSize < PageSize /\ 0 < SlotSize /\ PageSize < Word
  /\ \A a : a \in Address <=> a \in Int /\ HeaderSize <= a /\ a < PageSize
  /\ 0 \notin Address
  <1>1. /\ PageSize \in Nat /\ HeaderSize \in Nat /\ SlotSize \in Nat /\ Word \in Nat
        /\ 0 < HeaderSize /\ HeaderSize < PageSize /\ 0 < SlotSize /\ PageSize < Word
    BY PageAssumption
  <1>2. \A a : a \in Address <=> a \in Int /\ HeaderSize <= a /\ a < PageSize
    BY <1>1 DEF Address
  <1> QED
    BY <1>1, <1>2

LEMMA Loaded ==
  ASSUME NEW data \in [Address -> Cell], NEW at \in Int, NEW size \in Nat,
         HeaderSize <= at, at + size <= PageSize
  PROVE  /\ Load(data, at, size) \in Seq(Cell) /\ Len(Load(data, at, size)) = size
         /\ \A k \in 1..size : Load(data, at, size)[k] = data[at + k - 1]
  <1> DEFINE l == Load(data, at, size)
  <1>1. l = [k \in 1..size |-> data[at + k - 1]]
    BY DEF Load
  <1>2. ASSUME NEW k \in 1..size PROVE data[at + k - 1] \in Cell
    <2>1. at + k - 1 \in Address
      BY Sizes
    <2> QED
      BY <2>1
  <1>3. l \in [1..size -> Cell]
    BY <1>1, <1>2
  <1> HIDE DEF l
  <1>4. l \in Seq(Cell) /\ Len(l) = size
    BY <1>3
  <1> QED
    BY <1>1, <1>4 DEF l

(* What is stored is there, and nothing else has changed. *)
LEMMA Stored ==
  ASSUME NEW data \in [Address -> Cell], NEW bytes \in Seq(Cell), NEW to \in Int,
         HeaderSize <= to, to + Len(bytes) <= PageSize
  PROVE  /\ Store(data, to, bytes) \in [Address -> Cell]
         /\ Load(Store(data, to, bytes), to, Len(bytes)) = bytes
         /\ \A at \in Int, size \in Nat :
              /\ HeaderSize <= at /\ at + size <= PageSize
              /\ at + size <= to \/ to + Len(bytes) <= at
              => Load(Store(data, to, bytes), at, size) = Load(data, at, size)
  <1> DEFINE d == Store(data, to, bytes)
             n == Len(bytes)
  <1>1. d = [a \in Address |-> IF a \in to..(to + n - 1) THEN bytes[a - to + 1] ELSE data[a]]
    BY DEF Store
  <1>2. n \in Nat /\ \A k \in 1..n : bytes[k] \in Cell
    OBVIOUS
  <1>3. ASSUME NEW a \in Address, a \in to..(to + n - 1) PROVE a - to + 1 \in 1..n
    BY <1>2, <1>3
  <1>4. d \in [Address -> Cell]
    BY <1>1, <1>2, <1>3
  <1> HIDE DEF d, n
  <1>5. Load(d, to, n) = bytes
    <2>1. Load(d, to, n) \in Seq(Cell) /\ Len(Load(d, to, n)) = n
      BY <1>2, <1>4, Loaded DEF n
    <2>2. ASSUME NEW k \in 1..n PROVE Load(d, to, n)[k] = bytes[k]
      <3>1. to + k - 1 \in Address /\ to + k - 1 \in to..(to + n - 1) /\ (to + k - 1) - to + 1 = k
        BY <1>2, Sizes DEF n
      <3>2. d[to + k - 1] = bytes[k]
        BY <1>1, <3>1
      <3>3. Load(d, to, n)[k] = d[to + k - 1]
        BY <1>2, <1>4, Loaded DEF n
      <3> QED
        BY <3>2, <3>3
    <2> QED
      BY <1>2, <2>1, <2>2, SeqEqual DEF n
  <1>6. ASSUME NEW at \in Int, NEW size \in Nat, HeaderSize <= at, at + size <= PageSize,
               at + size <= to \/ to + n <= at
        PROVE  Load(d, at, size) = Load(data, at, size)
    <2>1. ASSUME NEW k \in 1..size PROVE d[at + k - 1] = data[at + k - 1]
      <3>1. at + k - 1 \in Address /\ at + k - 1 \notin to..(to + n - 1)
        BY <1>2, <1>6, Sizes
      <3> QED
        BY <1>1, <3>1
    <2> QED
      BY <2>1 DEF Load
  <1> QED
    BY <1>4, <1>5, <1>6 DEF d, n

LEMMA RecordBytes ==
  ASSUME NEW r \in Record
  PROVE  /\ Bytes(r) \in Seq(Cell) /\ Len(Bytes(r)) = r.size
         /\ r.size \in Nat /\ 0 < r.size /\ r.size + SlotSize < Word
  <1>1. r.size \in Size /\ r.name \in Name
    BY DEF Record
  <1>2. r.size \in Nat /\ 0 < r.size /\ r.size + SlotSize < Word
    <2>1. r.size \in 1..(Word - 1) /\ r.size + SlotSize < Word
      BY <1>1, PageAssumption, LengthAssumption
    <2> QED
      BY <2>1, Sizes
  <1> DEFINE n == r.size
             b == [k \in 1..n |-> <<r.name, k>>]
  <1>3. ASSUME NEW k \in 1..n PROVE <<r.name, k>> \in Cell
    BY <1>1, <1>2 DEF Cell
  <1>4. b \in [1..n -> Cell]
    BY <1>3
  <1> HIDE DEF b, n
  <1>5. n \in Nat
    BY <1>2 DEF n
  <1>6. b \in Seq(Cell) /\ Len(b) = n
    BY <1>4, <1>5
  <1> QED
    BY <1>2, <1>6 DEF b, n, Bytes

-----------------------------------------------------------------------------
(* The records of a page, as its users read them.                          *)

Within(p, i) ==
  /\ p.free_space_ptr <= p.slots[i].offset
  /\ p.slots[i].offset + p.slots[i].size <= PageSize

Apart(p, i, j) ==
  \/ p.slots[i].offset + p.slots[i].size <= p.slots[j].offset
  \/ p.slots[j].offset + p.slots[j].size <= p.slots[i].offset

(* A page whose records lie in its heap. *)
Readable(p) == p \in Page /\ \A i \in LiveSlots(p) : Within(p, i)

RecordAt(p, i) == Load(p.data, p.slots[i].offset, p.slots[i].size)

LEMMA Slots ==
  ASSUME NEW p \in Page
  PROVE  /\ p.slots \in Seq(PageSlot) /\ Len(p.slots) \in Nat /\ DOMAIN p.slots = 1..Len(p.slots)
         /\ p.free_space_ptr \in Int /\ HeaderSize <= p.free_space_ptr /\ p.free_space_ptr <= PageSize
         /\ p.data \in [Address -> Cell]
         /\ \A i \in 1..Len(p.slots) :
              /\ p.slots[i] \in PageSlot
              /\ p.slots[i].offset \in Nat
              /\ p.slots[i].size \in Nat /\ 0 < p.slots[i].size
              /\ p.slots[i].size <= PageSize - HeaderSize
  <1>1. p.slots \in Seq(PageSlot) /\ p.free_space_ptr \in HeaderSize..PageSize /\ p.data \in [Address -> Cell]
    BY DEF Page
  <1>2. Len(p.slots) \in Nat /\ DOMAIN p.slots = 1..Len(p.slots)
    BY <1>1
  <1>3. ASSUME NEW i \in 1..Len(p.slots)
        PROVE  /\ p.slots[i] \in PageSlot
               /\ p.slots[i].offset \in Nat
               /\ p.slots[i].size \in Nat /\ 0 < p.slots[i].size
               /\ p.slots[i].size <= PageSize - HeaderSize
    <2>1. p.slots[i] \in PageSlot
      BY <1>1
    <2>2. p.slots[i].offset \in {0} \cup Address /\ p.slots[i].size \in 1..(PageSize - HeaderSize)
      BY <2>1 DEF PageSlot
    <2> QED
      BY <2>1, <2>2, Sizes
  <1> QED
    BY <1>1, <1>2, <1>3, Sizes

LEMMA RecordsRead ==
  ASSUME NEW p, Readable(p), NEW i \in LiveSlots(p)
  PROVE  RecordAt(p, i) \in Seq(Cell) /\ Len(RecordAt(p, i)) = p.slots[i].size
  <1>1. p \in Page /\ i \in 1..Len(p.slots)
    BY DEF Readable, LiveSlots
  <1>2. /\ p.slots[i].offset \in Int /\ p.slots[i].size \in Nat
        /\ HeaderSize <= p.slots[i].offset /\ p.slots[i].offset + p.slots[i].size <= PageSize
    BY <1>1, Slots, Sizes, SMTT(60) DEF Readable, Within
  <1> QED
    BY <1>1, <1>2, Slots, Loaded DEF RecordAt

(* The contents are the live records, each at the place that LiveBefore    *)
(* counts.                                                                 *)
LEMMA ContentsAre ==
  ASSUME NEW p, Readable(p)
  PROVE  /\ Contents(p) \in Seq(Seq(Cell))
         /\ Len(Contents(p)) = Cardinality(LiveSlots(p))
         /\ \A i \in LiveSlots(p) :
              LiveBefore(p, i) \in 1..Len(Contents(p)) /\ Contents(p)[LiveBefore(p, i)] = RecordAt(p, i)
         /\ \A k \in 1..Len(Contents(p)) : \E i \in LiveSlots(p) : LiveBefore(p, i) = k
  <1> DEFINE e == LiveInOrder(p)
             n == Cardinality(LiveSlots(p))
             c == [k \in 1..n |-> RecordAt(p, e[k])]
  <1>1. p \in Page /\ Len(p.slots) \in Nat
    BY Slots DEF Readable
  <1>2. /\ DOMAIN e = 1..n /\ n \in Nat
        /\ \A k \in 1..n : e[k] \in LiveSlots(p) /\ LiveBefore(p, e[k]) = k
        /\ \A i \in LiveSlots(p) : LiveBefore(p, i) \in 1..n /\ e[LiveBefore(p, i)] = i
    BY <1>1, LiveOrder, Lives
  <1>3. Contents(p) = c
    BY <1>2 DEF Contents, RecordAt
  <1> HIDE DEF e, n
  <1>4. c \in [1..n -> Seq(Cell)]
    BY <1>2, RecordsRead
  <1>5. c \in Seq(Seq(Cell)) /\ Len(c) = n
    <2> HIDE DEF c
    <2> QED
      BY <1>2, <1>4
  <1> QED
    BY <1>2, <1>3, <1>5 DEF n

(* One live slot more, among the images of the others: one record more, at *)
(* its place.  And the same told backwards, for one live slot less.        *)
LEMMA ContentsGain ==
  ASSUME NEW p, Readable(p), NEW q, Readable(q), NEW f, NEW x \in Nat,
         OrderKept(LiveSlots(p), f), x \notin Image(LiveSlots(p), f),
         \A i \in LiveSlots(p) : RecordAt(q, f[i]) = RecordAt(p, i),
         LiveSlots(q) = ImageAnd(LiveSlots(p), f, x),
         NEW c, c = Below(LiveSlots(p), f, x)
  PROVE  /\ c \in 0..Len(Contents(p))
         /\ LiveBefore(q, x) = c + 1
         /\ Contents(q) = InsertAt(Contents(p), c + 1, RecordAt(q, x))
         /\ Contents(p) = RemoveAt(Contents(q), c + 1)
  <1> DEFINE S == LiveSlots(p)
             T == LiveSlots(q)
             n == Len(Contents(p))
             r == RecordAt(q, x)
             cp == Contents(p)
             cq == Contents(q)
  <1>1. /\ IsFiniteSet(S) /\ S \subseteq Nat /\ n = Cardinality(S) /\ n \in Nat
        /\ \A y : LiveBefore(p, y) = UpTo(S, y) /\ LiveBefore(q, y) = UpTo(T, y)
    <2>1. Len(p.slots) \in Nat
      BY Slots DEF Readable
    <2> QED
      BY <2>1, Lives, ContentsAre DEF LiveBefore, UpTo
  <1>2. /\ Cardinality(T) = n + 1 /\ c \in 0..n /\ LiveBefore(q, x) = c + 1
        /\ \A i \in S : f[i] < x => LiveBefore(q, f[i]) = LiveBefore(p, i) /\ LiveBefore(p, i) <= c
        /\ \A i \in S : x < f[i] => LiveBefore(q, f[i]) = LiveBefore(p, i) + 1 /\ c < LiveBefore(p, i)
    <2> HIDE DEF S, T, n
    <2>1. /\ OrderKept(S, f) /\ x \notin Image(S, f) /\ T = ImageAnd(S, f, x)
          /\ c = Below(S, f, x) /\ S \in SUBSET Nat
      BY <1>1 DEF S, T
    <2> DEFINE U == ImageAnd(S, f, x)
    <2>2. /\ Cardinality(U) = Cardinality(S) + 1
          /\ Below(S, f, x) \in 0..Cardinality(S)
          /\ UpTo(U, x) = Below(S, f, x) + 1
          /\ \A i \in S : f[i] < x => UpTo(U, f[i]) = UpTo(S, i) /\ UpTo(S, i) <= Below(S, f, x)
          /\ \A i \in S : x < f[i] => UpTo(U, f[i]) = UpTo(S, i) + 1 /\ Below(S, f, x) < UpTo(S, i)
      BY <1>1, <2>1, OneMore
    <2> QED
      BY <1>1, <2>1, <2>2
  <1>3. /\ cp \in Seq(Seq(Cell)) /\ cq \in Seq(Seq(Cell)) /\ Len(cq) = n + 1
        /\ r \in Seq(Cell)
    <2>1. x \in T
      BY DEF Image, ImageAnd
    <2> QED
      BY <1>2, <2>1, ContentsAre, RecordsRead
  <1>4. cq[c + 1] = r
    BY <1>2, ContentsAre DEF Image, ImageAnd
  <1>5. ASSUME NEW k \in 1..n PROVE cp[k] = IF k <= c THEN cq[k] ELSE cq[k + 1]
    <2>1. PICK i \in S : LiveBefore(p, i) = k
      BY ContentsAre
    <2>2. cp[k] = RecordAt(p, i) /\ f[i] \in T /\ RecordAt(q, f[i]) = RecordAt(p, i)
      BY <2>1, ContentsAre DEF Image, ImageAnd
    <2>3. cq[LiveBefore(q, f[i])] = RecordAt(q, f[i])
      BY <2>2, ContentsAre
    <2>4. f[i] \in Nat /\ f[i] # x
      BY DEF Image, OrderKept
    <2>5. CASE f[i] < x
      <3>1. LiveBefore(q, f[i]) = k /\ k <= c
        BY <1>2, <2>1, <2>5
      <3> QED
        BY <2>2, <2>3, <3>1
    <2>6. CASE x < f[i]
      <3>1. LiveBefore(q, f[i]) = k + 1 /\ c < k
        BY <1>2, <2>1, <2>6
      <3>2. ~(k <= c)
        BY <1>1, <1>2, <3>1
      <3> QED
        BY <2>2, <2>3, <3>1, <3>2
    <2> QED
      BY <2>4, <2>5, <2>6
  <1> HIDE DEF S, T, r, cp, cq
  <1>6. cq = InsertAt(cp, c + 1, r)
    <2> DEFINE i == InsertAt(cp, c + 1, r)
    <2>1. Len(cp) = n
      BY DEF cp
    <2> HIDE DEF n
    <2>2. c + 1 \in 1..(Len(cp) + 1)
      BY <1>1, <1>2, <2>1
    <2>3. /\ i \in Seq(Seq(Cell)) /\ Len(i) = n + 1
          /\ \A k \in 1..(n + 1) :
               i[k] = IF k < c + 1 THEN cp[k] ELSE IF k = c + 1 THEN r ELSE cp[k - 1]
      <3> DEFINE at == c + 1
      <3> HIDE DEF at
      <3>1. at \in 1..(Len(cp) + 1)
        BY <2>2 DEF at
      <3>2. IsInsertion(InsertAt(cp, at, r), cp, at, r, Seq(Cell))
        BY <1>3, <3>1, InsertedAt
      <3> QED
        BY <2>1, <3>2 DEF at, IsInsertion
    <2> HIDE DEF i
    <2>4. ASSUME NEW k \in 1..(n + 1) PROVE cq[k] = i[k]
      <3>1. CASE k < c + 1
        <4>1. k \in 1..n /\ k <= c
          BY <1>1, <1>2, <3>1
        <4> QED
          BY <1>5, <2>3, <3>1, <4>1
      <3>2. CASE k = c + 1
        BY <1>1, <1>2, <1>4, <2>3, <3>2
      <3>3. CASE k > c + 1
        <4>1. k - 1 \in 1..n /\ ~(k - 1 <= c) /\ (k - 1) + 1 = k /\ ~(k < c + 1) /\ k # c + 1
          BY <1>1, <1>2, <3>3
        <4>2. cp[k - 1] = cq[(k - 1) + 1]
          BY <1>5, <4>1
        <4> QED
          BY <2>3, <4>1, <4>2
      <3> QED
        BY <1>1, <1>2, <3>1, <3>2, <3>3
    <2>5. \A k \in 1..Len(cq) : cq[k] = i[k]
      BY <1>3, <2>4
    <2>6. Len(cq) = Len(i)
      BY <1>3, <2>3
    <2>7. cq = i
      BY <1>3, <2>3, <2>5, <2>6, SeqEqual
    <2> QED
      BY <2>7 DEF i
  <1>7. cp = RemoveAt(cq, c + 1)
    <2> DEFINE d == RemoveAt(cq, c + 1)
    <2>1. Len(cp) = n
      BY DEF cp
    <2> HIDE DEF n
    <2>2. c + 1 \in DOMAIN cq
      BY <1>1, <1>2, <1>3
    <2>3. /\ d \in Seq(Seq(Cell)) /\ Len(d) = Len(cq) - 1
          /\ \A k \in 1..(Len(cq) - 1) : d[k] = IF k < c + 1 THEN cq[k] ELSE cq[k + 1]
      <3>1. /\ RemoveAt(cq, c + 1) \in Seq(Seq(Cell)) /\ Len(RemoveAt(cq, c + 1)) = Len(cq) - 1
            /\ \A k \in 1..(Len(cq) - 1) :
                 RemoveAt(cq, c + 1)[k] = IF k < c + 1 THEN cq[k] ELSE cq[(k + 1)]
        BY ONLY <1>3, <2>2, RemovedAt
      <3> QED
        BY <3>1
    <2>4. Len(cq) - 1 = n /\ \A k \in 1..n : (k < c + 1 <=> k <= c)
      <3>1. \A k \in 1..n : (k < c + 1 <=> k <= c)
        BY <1>1, <1>2
      <3> QED
        BY <1>1, <1>3, <3>1
    <2> HIDE DEF d
    <2>5. \A k \in 1..Len(cp) : cp[k] = d[k]
      BY <1>5, <2>1, <2>3, <2>4
    <2>6. Len(cp) = Len(d)
      BY <2>1, <2>3, <2>4
    <2>7. cp = d
      BY <1>3, <2>3, <2>5, <2>6, SeqEqual
    <2> QED
      BY <2>7 DEF d
  <1> QED
    BY <1>2, <1>6, <1>7 DEF n, cp, cq, r

(* The same records in the same order, wherever their slots are now. *)
LEMMA ContentsKept ==
  ASSUME NEW p, Readable(p), NEW q, Readable(q), NEW f,
         OrderKept(LiveSlots(p), f), \A i \in LiveSlots(p) : RecordAt(q, f[i]) = RecordAt(p, i),
         LiveSlots(q) = Image(LiveSlots(p), f)
  PROVE  Contents(q) = Contents(p)
  <1> DEFINE S == LiveSlots(p)
             T == LiveSlots(q)
             cp == Contents(p)
             cq == Contents(q)
  <1>1. /\ IsFiniteSet(S) /\ S \subseteq Nat
        /\ \A y : LiveBefore(p, y) = UpTo(S, y) /\ LiveBefore(q, y) = UpTo(T, y)
    <2>1. Len(p.slots) \in Nat
      BY Slots DEF Readable
    <2> QED
      BY <2>1, Lives DEF LiveBefore, UpTo
  <1>2. Cardinality(T) = Cardinality(S) /\ \A i \in S : LiveBefore(q, f[i]) = LiveBefore(p, i)
    <2> HIDE DEF S, T
    <2>1. OrderKept(S, f) /\ T = Image(S, f) /\ S \in SUBSET Nat
      BY <1>1 DEF S, T
    <2>2. Cardinality(T) = Cardinality(S) /\ \A i \in S : UpTo(T, f[i]) = UpTo(S, i)
      BY <1>1, <2>1, SameOrder, ZenonT(60)
    <2> QED
      BY <1>1, <2>2
  <1>3. cp \in Seq(Seq(Cell)) /\ cq \in Seq(Seq(Cell)) /\ Len(cq) = Len(cp)
    BY <1>2, ContentsAre
  <1>4. ASSUME NEW k \in 1..Len(cp) PROVE cp[k] = cq[k]
    <2>1. PICK i \in S : LiveBefore(p, i) = k
      BY ContentsAre
    <2>2. cp[k] = RecordAt(p, i) /\ f[i] \in T /\ RecordAt(q, f[i]) = RecordAt(p, i)
      BY <2>1, ContentsAre DEF Image, ImageAnd
    <2>3. cq[LiveBefore(q, f[i])] = RecordAt(q, f[i])
      BY <2>2, ContentsAre
    <2> QED
      BY <1>2, <2>1, <2>2, <2>3
  <1> HIDE DEF cp, cq
  <1>5. cp = cq
    BY <1>3, <1>4, SeqEqual
  <1> QED
    BY <1>5 DEF cp, cq

(* One record written over. *)
LEMMA ContentsChanged ==
  ASSUME NEW p, Readable(p), NEW q, Readable(q), LiveSlots(q) = LiveSlots(p),
         NEW x \in LiveSlots(p), \A i \in LiveSlots(p) : i # x => RecordAt(q, i) = RecordAt(p, i)
  PROVE  Contents(q) = [Contents(p) EXCEPT ![LiveBefore(p, x)] = RecordAt(q, x)]
  <1> DEFINE S == LiveSlots(p)
             cp == Contents(p)
             cq == Contents(q)
             at == LiveBefore(p, x)
             r == RecordAt(q, x)
             d == [cp EXCEPT ![at] = r]
  <1>1. \A y : LiveBefore(q, y) = LiveBefore(p, y)
    BY DEF LiveBefore
  <1>2. /\ cp \in Seq(Seq(Cell)) /\ cq \in Seq(Seq(Cell)) /\ Len(cq) = Len(cp)
        /\ r \in Seq(Cell) /\ at \in 1..Len(cp)
    BY ContentsAre, RecordsRead
  <1>3. ASSUME NEW k \in 1..Len(cp) PROVE cq[k] = IF k = at THEN r ELSE cp[k]
    <2>1. PICK i \in S : LiveBefore(p, i) = k
      BY ContentsAre
    <2>2. cp[k] = RecordAt(p, i) /\ cq[k] = RecordAt(q, i)
      BY <1>1, <2>1, ContentsAre
    <2>3. cq[at] = r
      BY <1>1, ContentsAre
    <2> QED
      BY <2>1, <2>2, <2>3
  <1> HIDE DEF S, cp, cq, at, r
  <1>4. d \in Seq(Seq(Cell)) /\ Len(d) = Len(cp) /\ \A k \in 1..Len(cp) : d[k] = IF k = at THEN r ELSE cp[k]
    BY <1>2, ExceptSeq
  <1> HIDE DEF d
  <1>5. Len(d) = Len(cq) /\ \A k \in 1..Len(cq) : cq[k] = d[k]
    BY <1>2, <1>3, <1>4
  <1>6. cq = d
    BY <1>2, <1>4, <1>5, SeqEqual
  <1> QED
    BY <1>6 DEF cp, cq, at, r, d

-----------------------------------------------------------------------------
(* How much of the heap some slots take.                                   *)

BytesOf(slots, ids) == UNION {{i} \X (1..slots[i].size) : i \in ids}

Sized(slots, ids) == IsFiniteSet(ids) /\ \A i \in ids : slots[i].size \in 0..PageSize

LEMMA BytesCounted ==
  ASSUME NEW slots, NEW ids, Sized(slots, ids)
  PROVE  /\ IsFiniteSet(BytesOf(slots, ids))
         /\ HeapBytes(slots, ids) = Cardinality(BytesOf(slots, ids))
         /\ HeapBytes(slots, ids) \in Nat
         /\ \A b : b \in BytesOf(slots, ids) <=>
              \E i \in ids : \E k \in Nat : k \in 1..slots[i].size /\ b = <<i, k>>
  <1> DEFINE U == BytesOf(slots, ids)
  <1>1. HeapBytes(slots, ids) = Cardinality(U)
    BY DEF HeapBytes, BytesOf
  <1>2. ASSUME NEW b PROVE b \in U <=> \E i \in ids : \E k \in Nat : k \in 1..slots[i].size /\ b = <<i, k>>
    <2>1. b \in U <=> \E i \in ids : b \in {i} \X (1..slots[i].size)
      BY DEF BytesOf
    <2>2. ASSUME NEW i \in ids
          PROVE  b \in {i} \X (1..slots[i].size) <=> \E k \in Nat : k \in 1..slots[i].size /\ b = <<i, k>>
      OBVIOUS
    <2> QED
      BY <2>1, <2>2
  <1>3. U \in SUBSET (ids \X (1..PageSize))
    <2> SUFFICES ASSUME NEW b \in U PROVE b \in ids \X (1..PageSize)
      OBVIOUS
    <2>1. PICK i \in ids, k \in Nat : k \in 1..slots[i].size /\ b = <<i, k>>
      BY <1>2
    <2>2. slots[i].size \in 0..PageSize
      BY DEF Sized
    <2>3. k \in 1..PageSize
      BY <2>1, <2>2, Sizes
    <2> QED
      BY <2>1, <2>3
  <1>4. IsFiniteSet(ids \X (1..PageSize))
    <2>1. IsFiniteSet(1..PageSize) /\ IsFiniteSet(ids)
      BY Sizes, FS_Interval DEF Sized
    <2> QED
      BY <2>1, FS_Product
  <1>5. IsFiniteSet(U)
    <2> HIDE DEF U
    <2> QED
      BY <1>3, <1>4, FS_Subset
  <1>6. Cardinality(U) \in Nat
    BY <1>5, FS_CardinalityType
  <1> QED
    BY <1>1, <1>2, <1>5, <1>6

(* Sets of slots with none in common. *)
LEMMA HeapBytesSplit ==
  ASSUME NEW slots, NEW A, NEW B, Sized(slots, A), Sized(slots, B), A \cap B = {}
  PROVE  /\ Sized(slots, A \cup B)
         /\ HeapBytes(slots, A \cup B) = HeapBytes(slots, A) + HeapBytes(slots, B)
  <1> DEFINE U == BytesOf(slots, A)
             V == BytesOf(slots, B)
             W == BytesOf(slots, A \cup B)
  <1>1. Sized(slots, A \cup B)
    BY FS_Union DEF Sized
  <1>2. /\ IsFiniteSet(U) /\ IsFiniteSet(V)
        /\ \A b : b \in U <=> \E i \in A : \E k \in Nat : k \in 1..slots[i].size /\ b = <<i, k>>
        /\ \A b : b \in V <=> \E i \in B : \E k \in Nat : k \in 1..slots[i].size /\ b = <<i, k>>
        /\ \A b : b \in W <=> \E i \in A \cup B : \E k \in Nat : k \in 1..slots[i].size /\ b = <<i, k>>
    BY <1>1, BytesCounted
  <1>3. W = U \cup V
    <2> HIDE DEF U, V, W
    <2>1. ASSUME NEW b \in W PROVE b \in U \cup V
      <3>1. PICK i \in A \cup B : \E k \in Nat : k \in 1..slots[i].size /\ b = <<i, k>>
        BY <1>2
      <3> QED
        BY <1>2, <3>1
    <2>2. ASSUME NEW b \in U \cup V PROVE b \in W
      BY <1>2
    <2> QED
      BY <2>1, <2>2
  <1>4. U \cap V = {}
    <2> HIDE DEF U, V, W
    <2> SUFFICES ASSUME NEW b \in U, b \in V PROVE FALSE
      OBVIOUS
    <2>1. PICK i \in A, k \in Nat : k \in 1..slots[i].size /\ b = <<i, k>>
      BY <1>2
    <2>2. PICK j \in B, m \in Nat : m \in 1..slots[j].size /\ b = <<j, m>>
      BY <1>2
    <2>3. i = j
      BY <2>1, <2>2
    <2> QED
      BY <2>3
  <1>5. Cardinality(W) = Cardinality(U) + Cardinality(V)
    <2> HIDE DEF U, V, W
    <2>1. Cardinality(U \cup V) = Cardinality(U) + Cardinality(V) - Cardinality({})
      BY <1>2, <1>4, FS_Union
    <2>2. Cardinality({}) = 0 /\ Cardinality(U) \in Nat /\ Cardinality(V) \in Nat
      BY <1>2, FS_EmptySet, FS_CardinalityType
    <2> QED
      BY <1>3, <2>1, <2>2
  <1> QED
    BY <1>1, <1>5, BytesCounted

LEMMA HeapBytesOne ==
  ASSUME NEW slots, NEW i, slots[i].size \in 0..PageSize
  PROVE  Sized(slots, {i}) /\ HeapBytes(slots, {i}) = slots[i].size
  <1> DEFINE n == slots[i].size
  <1>1. Sized(slots, {i})
    BY FS_Singleton DEF Sized
  <1>2. HeapBytes(slots, {i}) = Cardinality({i} \X (1..n))
    <2>1. UNION {{j} \X (1..slots[j].size) : j \in {i}} = {i} \X (1..n)
      OBVIOUS
    <2> QED
      BY <2>1 DEF HeapBytes
  <1>3. n \in Nat
    BY Sizes
  <1> HIDE DEF n
  <1>4. IsFiniteSet(1..n) /\ Cardinality(1..n) = n
    <2>1. n \in Int /\ 1 \in Int
      BY <1>3
    <2>2. IsFiniteSet(1..n) /\ Cardinality(1..n) = IF 1 > n THEN 0 ELSE n - 1 + 1
      BY ONLY <2>1, FS_Interval
    <2> QED
      BY <1>3, <2>2
  <1>5. IsFiniteSet({i}) /\ Cardinality({i}) = 1
    BY FS_Singleton
  <1>6. Cardinality({i} \X (1..n)) = 1 * n
    <2> DEFINE A == {i}
               B == 1..n
    <2>1. IsFiniteSet(A) /\ IsFiniteSet(B) /\ Cardinality(A) = 1 /\ Cardinality(B) = n
      BY <1>4, <1>5
    <2> HIDE DEF A, B
    <2>2. Cardinality(A \X B) = Cardinality(A) * Cardinality(B)
      BY ONLY <2>1, FS_Product, ZenonT(60)
    <2> QED
      BY <2>1, <2>2 DEF A, B
  <1> QED
    BY <1>1, <1>2, <1>3, <1>6 DEF n

LEMMA HeapBytesNone == \A slots : Sized(slots, {}) /\ HeapBytes(slots, {}) = 0
  <1> TAKE slots
  <1>1. UNION {{j} \X (1..slots[j].size) : j \in {}} = {}
    OBVIOUS
  <1> QED
    BY <1>1, FS_EmptySet DEF HeapBytes, Sized

(* The same slots under other numbers. *)
LEMMA HeapBytesMoved ==
  ASSUME NEW slots, NEW A, Sized(slots, A), NEW f, \A i, j \in A : f[i] = f[j] => i = j,
         NEW moved, \A i \in A : moved[f[i]].size = slots[i].size
  PROVE  Sized(moved, Image(A, f)) /\ HeapBytes(moved, Image(A, f)) = HeapBytes(slots, A)
  <1> DEFINE U == BytesOf(slots, A)
             V == BytesOf(moved, Image(A, f))
             g == [b \in U |-> <<f[b[1]], b[2]>>]
  <1>1. Sized(moved, Image(A, f))
    <2>1. IsFiniteSet(Image(A, f))
      BY ImageSize DEF Image, Sized
    <2> QED
      BY <2>1 DEF Image, Sized
  <1>2. /\ IsFiniteSet(U)
        /\ \A b : b \in U <=> \E i \in A : \E k \in Nat : k \in 1..slots[i].size /\ b = <<i, k>>
        /\ \A b : b \in V <=> \E i \in Image(A, f) : \E k \in Nat : k \in 1..moved[i].size /\ b = <<i, k>>
    BY <1>1, BytesCounted
  <1> HIDE DEF U, V
  <1>3. \A b, c \in U : g[b] = g[c] => b = c
    <2> SUFFICES ASSUME NEW b \in U, NEW c \in U, g[b] = g[c] PROVE b = c
      OBVIOUS
    <2>1. PICK i \in A, k \in Nat : k \in 1..slots[i].size /\ b = <<i, k>>
      BY <1>2
    <2>2. PICK j \in A, m \in Nat : m \in 1..slots[j].size /\ c = <<j, m>>
      BY <1>2
    <2>3. <<f[i], k>> = <<f[j], m>>
      BY <2>1, <2>2
    <2> QED
      BY <2>1, <2>2, <2>3
  <1>4. V = {g[b] : b \in U}
    <2>1. ASSUME NEW b \in U PROVE g[b] \in V
      <3>1. PICK i \in A, k \in Nat : k \in 1..slots[i].size /\ b = <<i, k>>
        BY <1>2
      <3>2. g[b] = <<f[i], k>>
        BY <3>1
      <3>3. f[i] \in Image(A, f) /\ k \in 1..moved[f[i]].size
        BY <3>1 DEF Image
      <3> HIDE DEF g
      <3> QED
        BY <1>2, <3>1, <3>2, <3>3
    <2>2. ASSUME NEW v \in V PROVE \E b \in U : v = g[b]
      <3>1. PICK t \in Image(A, f), k \in Nat : k \in 1..moved[t].size /\ v = <<t, k>>
        BY <1>2
      <3>2. PICK i \in A : t = f[i]
        BY DEF Image
      <3>3. k \in 1..slots[i].size
        BY <3>1, <3>2
      <3>4. <<i, k>> \in U
        BY <1>2, <3>3
      <3>5. g[<<i, k>>] = v
        BY <3>1, <3>2, <3>4
      <3> HIDE DEF g
      <3> QED
        BY <3>4, <3>5
    <2> HIDE DEF g
    <2> QED
      BY <2>1, <2>2
  <1> HIDE DEF g
  <1>5. Cardinality(V) = Cardinality(U)
    BY <1>2, <1>3, <1>4, ImageSize
  <1> QED
    BY <1>1, <1>5, BytesCounted DEF U, V

(* The sizes are all that counts. *)
LEMMA HeapBytesSame ==
  ASSUME NEW slots, NEW A, NEW other, \A i \in A : other[i].size = slots[i].size
  PROVE  /\ HeapBytes(other, A) = HeapBytes(slots, A)
         /\ Sized(slots, A) => Sized(other, A)
  BY DEF HeapBytes, Sized

(* One slot more. *)
LEMMA HeapBytesAdd ==
  ASSUME NEW slots, NEW A, Sized(slots, A), NEW i, i \notin A, slots[i].size \in 0..PageSize
  PROVE  /\ Sized(slots, A \cup {i})
         /\ HeapBytes(slots, A \cup {i}) = HeapBytes(slots, A) + slots[i].size
  <1>1. Sized(slots, {i}) /\ HeapBytes(slots, {i}) = slots[i].size
    BY HeapBytesOne
  <1>2. A \cap {i} = {}
    OBVIOUS
  <1> QED
    BY <1>1, <1>2, HeapBytesSplit

LEMMA PageSized ==
  ASSUME NEW p \in Page, NEW ids \in SUBSET (1..Len(p.slots))
  PROVE  Sized(p.slots, ids) /\ HeapBytes(p.slots, ids) \in Nat
  <1>1. IsFiniteSet(1..Len(p.slots))
    BY Slots, FS_Interval
  <1>2. IsFiniteSet(ids)
    BY <1>1, FS_Subset
  <1>3. \A i \in ids : p.slots[i].size \in 0..PageSize
    BY Slots, Sizes
  <1>4. Sized(p.slots, ids)
    BY <1>2, <1>3 DEF Sized
  <1> QED
    BY <1>4, BytesCounted

-----------------------------------------------------------------------------
(* A compaction.                                                           *)

(* A page whose records lie in its heap, none over another, and leave room *)
(* for the slots and for the tombstones' bytes.                            *)
WellFormed(p) ==
  /\ Readable(p)
  /\ HeaderSize + SlotSize * Len(p.slots) <= p.free_space_ptr
  /\ \A i, j \in LiveSlots(p) : i # j => Apart(p, i, j)
  /\ p.free_space_ptr + HeapBytes(p.slots, 1..Len(p.slots)) <= PageSize

(* s is what a compaction has made of p when the records in moved are in   *)
(* their new places: the others are where they were, and whole.            *)
PartPacked(p, s, moved) ==
  /\ s \in Page /\ Len(s.slots) = Len(p.slots)
  /\ \A i \in 1..Len(p.slots) : s.slots[i].size = p.slots[i].size
  /\ \A i \in 1..Len(p.slots) : i \notin moved => s.slots[i] = p.slots[i]
  /\ s.free_space_ptr = PageSize - HeapBytes(p.slots, moved)
  /\ p.free_space_ptr <= s.free_space_ptr
  /\ \A i \in moved : Within(s, i)
  /\ \A i, j \in moved : i # j => Apart(s, i, j)
  /\ \A i \in LiveSlots(p) : i \notin moved => p.slots[i].offset + p.slots[i].size <= s.free_space_ptr
  /\ \A i \in LiveSlots(p) : RecordAt(s, i) = RecordAt(p, i)

(* The highest of the records that are left moves up against those moved   *)
(* before it, over bytes that are no record's any more or its own.         *)
LEMMA PackOne ==
  ASSUME NEW p, WellFormed(p), NEW s, NEW moved \in SUBSET LiveSlots(p), PartPacked(p, s, moved),
         NEW i \in LiveSlots(p), i \notin moved,
         \A j \in LiveSlots(p) : j \notin moved /\ j # i => p.slots[j].offset < p.slots[i].offset
  PROVE  PartPacked(p, Pack(s, i), moved \cup {i})
  <1> DEFINE q == Pack(s, i)
             z == p.slots[i].size
             o == p.slots[i].offset
             to == s.free_space_ptr - z
             bytes == RecordAt(p, i)
             N == Len(p.slots)
  <1>1. /\ p \in Page /\ s \in Page /\ Readable(p) /\ N \in Nat /\ Len(s.slots) = N
        /\ i \in 1..N /\ LiveSlots(p) \subseteq 1..N
        /\ \A j \in 1..N : s.slots[j].size = p.slots[j].size
        /\ s.slots[i] = p.slots[i]
    BY Slots DEF WellFormed, Readable, PartPacked, LiveSlots
  <1>2. /\ o \in Nat /\ z \in Nat /\ 0 < z
        /\ p.free_space_ptr \in Int /\ s.free_space_ptr \in Int
        /\ HeaderSize <= p.free_space_ptr /\ p.free_space_ptr <= o
        /\ o + z <= s.free_space_ptr /\ s.free_space_ptr <= PageSize
    BY <1>1, Slots DEF Readable, Within, PartPacked
  <1>3. /\ to \in Int /\ o <= to /\ HeaderSize <= to /\ p.free_space_ptr <= to
        /\ to < PageSize /\ to + z = s.free_space_ptr
    BY <1>2, Sizes
  <1>4. bytes \in Seq(Cell) /\ Len(bytes) = z /\ RecordAt(s, i) = bytes
    BY <1>1, RecordsRead DEF PartPacked
  <1>5. /\ s.slots \in Seq(PageSlot) /\ DOMAIN s.slots = 1..N /\ s.data \in [Address -> Cell]
        /\ \A j \in 1..N : /\ s.slots[j].offset \in Nat /\ s.slots[j].size \in Nat
                           /\ s.slots[j] \in PageSlot
        /\ DOMAIN s = {"slots", "free_space_ptr", "data"}
    BY <1>1, Slots DEF Page
  <1> DEFINE slot == [s.slots[i] EXCEPT !.offset = to]
             slots == [s.slots EXCEPT ![i] = slot]
             data == Store(s.data, to, bytes)
  <1>6. /\ q.free_space_ptr = to /\ q.slots = slots /\ q.data = data
        /\ q = [slots |-> slots, free_space_ptr |-> to, data |-> data]
    <2>1. Load(s.data, s.slots[i].offset, s.slots[i].size) = bytes
      BY <1>4 DEF RecordAt
    <2>2. s = [slots |-> s.slots, free_space_ptr |-> s.free_space_ptr, data |-> s.data]
      BY <1>1 DEF Page
    <2>3. s.free_space_ptr - s.slots[i].size = to
      BY <1>1
    <2>4. q = [s EXCEPT !.free_space_ptr = to, !.slots[i].offset = to, !.data = data]
      BY <2>1, <2>3 DEF Pack
    <2> HIDE DEF q, to, data, bytes
    <2> QED
      BY <2>2, <2>4
  <1>7. slot \in PageSlot /\ slot.offset = to /\ slot.size = z
    <2>1. s.slots[i] \in PageSlot /\ to \in Address /\ s.slots[i].size = z
      BY <1>1, <1>3, <1>5, Sizes
    <2> HIDE DEF to, z
    <2> QED
      BY <2>1 DEF PageSlot
  <1> HIDE DEF slot, bytes
  <1>8. /\ slots \in Seq(PageSlot) /\ Len(slots) = N
        /\ \A j \in 1..N : slots[j] = IF j = i THEN slot ELSE s.slots[j]
    BY <1>1, <1>5, <1>7, ExceptSeq
  <1>9. /\ data \in [Address -> Cell] /\ Load(data, to, z) = bytes
        /\ \A at \in Int, size \in Nat :
             /\ HeaderSize <= at /\ at + size <= PageSize
             /\ at + size <= to \/ to + z <= at
             => Load(data, at, size) = Load(s.data, at, size)
    <2>1. to + Len(bytes) <= PageSize
      BY <1>2, <1>3, <1>4
    <2> DEFINE old == s.data
    <2> HIDE DEF to, z, data
    <2>2. /\ old \in [Address -> Cell] /\ bytes \in Seq(Cell) /\ to \in Int
          /\ HeaderSize <= to /\ to + Len(bytes) <= PageSize
      BY <1>3, <1>4, <1>5, <2>1
    <2> HIDE DEF old
    <2>3. /\ Store(old, to, bytes) \in [Address -> Cell]
          /\ Load(Store(old, to, bytes), to, Len(bytes)) = bytes
          /\ \A at \in Int, size \in Nat :
               /\ HeaderSize <= at /\ at + size <= PageSize
               /\ at + size <= to \/ to + Len(bytes) <= at
               => Load(Store(old, to, bytes), at, size) = Load(old, at, size)
      BY ONLY <2>2, Stored
    <2>4. Len(bytes) = z /\ data = Store(old, to, bytes)
      BY <1>4 DEF data, old
    <2> HIDE DEF data
    <2> QED
      BY ONLY <2>3, <2>4 DEF old
  <1> HIDE DEF slots, data, q, to, o, z, N
  <1>10. /\ q \in Page /\ Len(q.slots) = N
         /\ \A j \in 1..N : q.slots[j] = IF j = i THEN slot ELSE s.slots[j]
    <2>1. to \in HeaderSize..PageSize
      BY <1>3, Sizes
    <2>2. q \in Page
      BY <1>6, <1>8, <1>9, <2>1 DEF Page
    <2> QED
      BY <1>6, <1>8, <2>2
  <1>11. \A j \in 1..N : q.slots[j].size = p.slots[j].size
    BY <1>1, <1>7, <1>10 DEF z
  <1>12. \A j \in 1..N : j \notin moved \cup {i} => q.slots[j] = p.slots[j]
    BY <1>10 DEF PartPacked, N
  <1>13. q.free_space_ptr = PageSize - HeapBytes(p.slots, moved \cup {i})
    <2>1. moved \in SUBSET (1..N) /\ z \in 0..PageSize
      BY <1>1, Slots, Sizes DEF z, N
    <2>2. Sized(p.slots, moved) /\ HeapBytes(p.slots, moved) \in Nat
      BY <1>1, <2>1, PageSized DEF N
    <2>3. HeapBytes(p.slots, moved \cup {i}) = HeapBytes(p.slots, moved) + z
      BY <2>1, <2>2, HeapBytesAdd DEF z
    <2>4. s.free_space_ptr = PageSize - HeapBytes(p.slots, moved)
      BY DEF PartPacked
    <2> QED
      BY <1>2, <1>6, <2>2, <2>3, <2>4, Sizes DEF to
  <1>14. ASSUME NEW j \in LiveSlots(p), j # i
         PROVE  /\ q.slots[j] = s.slots[j] /\ RecordAt(q, j) = RecordAt(p, j)
                /\ j \in moved => to + z <= s.slots[j].offset
                /\ j \notin moved => p.slots[j].offset + p.slots[j].size <= to
    <2> DEFINE at == s.slots[j].offset
               size == s.slots[j].size
    <2>1. q.slots[j] = s.slots[j] /\ j \in 1..N
      BY <1>1, <1>10, <1>14
    <2>2. at \in Int /\ size \in Nat
      BY <1>5, <2>1
    <2>3. HeaderSize <= at /\ at + size <= PageSize /\ (at + size <= to \/ to + z <= at)
      <3>1. CASE j \in moved
        <4>1. s.free_space_ptr <= at /\ at + size <= PageSize
          BY <3>1 DEF PartPacked, Within
        <4> QED
          BY <1>2, <1>3, <2>2, <4>1, Sizes
      <3>2. CASE j \notin moved
        <4>1. s.slots[j] = p.slots[j]
          BY <2>1, <3>2 DEF PartPacked, N
        <4>2. at < o /\ Within(p, j) /\ Apart(p, i, j)
          BY <1>14, <3>2, <4>1 DEF WellFormed, Readable, o
        <4>3. p.free_space_ptr <= at /\ at + size <= PageSize /\ (o + z <= at \/ at + size <= o)
          BY <4>1, <4>2 DEF Within, Apart, o, z
        <4> QED
          BY <1>2, <1>3, <2>2, <4>2, <4>3, Sizes
      <3> QED
        BY <3>1, <3>2
    <2>4. RecordAt(q, j) = RecordAt(p, j)
      <3>1. Load(data, at, size) = Load(s.data, at, size)
        BY <1>9, <2>2, <2>3
      <3>2. RecordAt(q, j) = RecordAt(s, j)
        BY <1>6, <2>1, <3>1 DEF RecordAt
      <3> QED
        BY <3>2 DEF PartPacked
    <2>5. j \in moved => to + z <= at
      BY <1>3 DEF PartPacked, Within
    <2>6. ASSUME j \notin moved PROVE p.slots[j].offset + p.slots[j].size <= to
      <3>1. s.slots[j] = p.slots[j]
        BY <2>1, <2>6 DEF PartPacked, N
      <3>2. at < o
        BY <1>14, <2>6, <3>1 DEF o
      <3>3. at + size <= to
        BY <1>2, <1>3, <2>2, <2>3, <3>2
      <3> QED
        BY <3>1, <3>3
    <2> QED
      BY <2>1, <2>4, <2>5, <2>6
  <1>15. RecordAt(q, i) = RecordAt(p, i)
    BY <1>1, <1>6, <1>7, <1>9, <1>10 DEF RecordAt, bytes
  <1>16. \A j \in moved \cup {i} : Within(q, j)
    <2>1. Within(q, i)
      BY <1>1, <1>2, <1>3, <1>6, <1>7, <1>10 DEF Within
    <2>2. ASSUME NEW j \in moved PROVE Within(q, j)
      <3>1. j \in LiveSlots(p) /\ j # i /\ j \in 1..N
        BY <1>1
      <3>2. q.slots[j] = s.slots[j] /\ to + z <= s.slots[j].offset
        BY <1>14, <3>1
      <3>3. s.slots[j].offset + s.slots[j].size <= PageSize
        BY DEF PartPacked, Within
      <3>4. to <= s.slots[j].offset
        BY <1>2, <1>3, <1>5, <3>1, <3>2
      <3> QED
        BY <1>6, <3>2, <3>3, <3>4 DEF Within
    <2> QED
      BY <2>1, <2>2
  <1>17. ASSUME NEW j \in moved \cup {i}, NEW k \in moved \cup {i}, j # k PROVE Apart(q, j, k)
    <2>1. ASSUME NEW m \in moved
          PROVE  /\ q.slots[m] = s.slots[m]
                 /\ q.slots[i].offset + q.slots[i].size <= q.slots[m].offset
      BY <1>1, <1>7, <1>10, <1>14
    <2>2. CASE j = i
      BY <1>17, <2>1, <2>2 DEF Apart
    <2>3. CASE k = i
      BY <1>17, <2>1, <2>3 DEF Apart
    <2>4. CASE j \in moved /\ k \in moved
      BY <1>17, <2>1, <2>4 DEF Apart, PartPacked
    <2> QED
      BY <2>2, <2>3, <2>4
  <1>18. \A j \in LiveSlots(p) : RecordAt(q, j) = RecordAt(p, j)
    BY <1>14, <1>15
  <1>19. \A j \in LiveSlots(p) :
           j \notin moved \cup {i} => p.slots[j].offset + p.slots[j].size <= q.free_space_ptr
    BY <1>6, <1>14
  <1>20. p.free_space_ptr <= q.free_space_ptr
    BY <1>3, <1>6
  <1> QED
    BY <1>10, <1>11, <1>12, <1>13, <1>16, <1>17, <1>18, <1>19, <1>20 DEF PartPacked, N, q

Packs(f, p, order) ==
  f = [k \in 0..Len(order) |->
         IF k = 0 THEN [p EXCEPT !.free_space_ptr = PageSize] ELSE Pack(f[k - 1], order[k])]

Packing(p, order) == CHOOSE f : Packs(f, p, order)

LEMMA PackInOrderUnfolds ==
  \A p, order : PackInOrder(p, order) = CloseUp(Packing(p, order)[Len(order)])
  BY Zenon DEF PackInOrder, Packing, Packs

(* The function that PackInOrder defines by recursion exists. *)
LEMMA PackingExists ==
  ASSUME NEW p, NEW order, Len(order) \in Nat
  PROVE  /\ Packing(p, order)[0] = [p EXCEPT !.free_space_ptr = PageSize]
         /\ \A k \in 1..Len(order) : Packing(p, order)[k] = Pack(Packing(p, order)[k - 1], order[k])
  <1> DEFINE N == Len(order)
             first == [p EXCEPT !.free_space_ptr = PageSize]
             Does(f, n) == f = [k \in 0..n |-> IF k = 0 THEN first ELSE Pack(f[k - 1], order[k])]
             S == {n \in Nat : \E f : Does(f, n)}
  <1>0. \A f : Does(f, N) <=> Packs(f, p, order)
    BY DEF Packs
  <1> HIDE DEF first
  <1>1. 0 \in S
    <2> DEFINE f == [k \in 0..0 |-> first]
    <2>1. f = [k \in 0..0 |-> IF k = 0 THEN first ELSE Pack(f[k - 1], order[k])]
      OBVIOUS
    <2>2. Does(f, 0)
      BY <2>1
    <2> QED
      BY <2>2
  <1>2. ASSUME NEW n \in 0..(N - 1), n \in S PROVE n + 1 \in S
    <2>1. PICK f : Does(f, n)
      BY <1>2
    <2> DEFINE g == [k \in 0..(n + 1) |-> IF k = n + 1 THEN Pack(f[n], order[n + 1]) ELSE f[k]]
    <2>2. \A k \in 0..n : f[k] = IF k = 0 THEN first ELSE Pack(f[k - 1], order[k])
      BY <2>1
    <2>3. /\ \A k \in 0..n : g[k] = f[k]
          /\ g[n + 1] = Pack(f[n], order[n + 1])
          /\ g = [k \in 0..(n + 1) |-> g[k]]
      OBVIOUS
    <2> HIDE DEF g
    <2>4. ASSUME NEW k \in 0..(n + 1) PROVE g[k] = IF k = 0 THEN first ELSE Pack(g[k - 1], order[k])
      <3>1. CASE k = n + 1
        <4>1. k - 1 = n /\ n \in 0..n /\ k # 0
          BY <3>1
        <4> QED
          BY <2>3, <3>1, <4>1
      <3>2. CASE k \in 1..n
        <4> k - 1 \in 0..n /\ k \in 0..n
          BY <3>2
        <4> QED
          BY <2>2, <2>3, <3>2
      <3>3. CASE k = 0
        <4>1. 0 \in 0..n
          OBVIOUS
        <4> QED
          BY <2>2, <2>3, <3>3, <4>1
      <3> QED
        BY <3>1, <3>2, <3>3
    <2>5. Does(g, n + 1)
      BY <2>3, <2>4
    <2> HIDE DEF Does
    <2> QED
      BY <2>5
  <1> HIDE DEF S
  <1>3. N \in S
    <2>1. \A n \in 0..(N - 1) : n \in S => n + 1 \in S
      BY <1>2
    <2>2. \A n \in 0..N : n \in S
      BY <1>1, <2>1, Counting
    <2> QED
      BY <2>2
  <1>4. \E f : Packs(f, p, order)
    <2>1. PICK f : Does(f, N)
      BY <1>3 DEF S
    <2> HIDE DEF Does
    <2> QED
      BY <1>0, <2>1
  <1> DEFINE u == Packing(p, order)
  <1>5. Packs(u, p, order)
    BY <1>4 DEF Packing
  <1> HIDE DEF u
  <1>6. u = [k \in 0..N |-> IF k = 0 THEN first ELSE Pack(u[k - 1], order[k])]
    BY <1>0, <1>5
  <1>7. u[0] = first /\ \A k \in 1..N : u[k] = Pack(u[k - 1], order[k])
    BY <1>6
  <1> QED
    BY <1>7 DEF u, first

(* Nothing has moved yet. *)
LEMMA PackNone ==
  ASSUME NEW p, WellFormed(p)
  PROVE  PartPacked(p, [p EXCEPT !.free_space_ptr = PageSize], {})
  <1> DEFINE s == [p EXCEPT !.free_space_ptr = PageSize]
  <1>1. p \in Page /\ Readable(p)
    BY DEF WellFormed, Readable
  <1>2. PageSize \in HeaderSize..PageSize
    BY Sizes
  <1>3. s \in Page /\ s.slots = p.slots /\ s.data = p.data /\ s.free_space_ptr = PageSize
    BY <1>1, <1>2 DEF Page
  <1>4. \A i \in 1..Len(p.slots) : i \in LiveSlots(p) => Within(p, i)
    BY <1>1 DEF Readable
  <1>5. s.free_space_ptr = PageSize - HeapBytes(p.slots, {})
    BY <1>3, HeapBytesNone, Sizes
  <1>6. \A i : RecordAt(s, i) = RecordAt(p, i)
    BY <1>3 DEF RecordAt
  <1>7. p.free_space_ptr <= s.free_space_ptr
    BY <1>1, <1>3, Slots
  <1>8. \A i \in LiveSlots(p) : p.slots[i].offset + p.slots[i].size <= s.free_space_ptr
    BY <1>1, <1>3 DEF Readable, Within
  <1> HIDE DEF s
  <1>9. PartPacked(p, s, {})
    BY <1>3, <1>5, <1>6, <1>7, <1>8 DEF PartPacked
  <1> QED
    BY <1>9 DEF s

(* From the highest offset down, every record finds its way. *)
LEMMA PackAll ==
  ASSUME NEW p, WellFormed(p), NEW n, n = Cardinality(LiveSlots(p)),
         NEW order, order \in [1..n -> LiveSlots(p)],
         \A j, k \in 1..n : j < k => p.slots[order[j]].offset > p.slots[order[k]].offset
  PROVE  Len(order) = n /\ PartPacked(p, Packing(p, order)[n], LiveSlots(p))
  <1> DEFINE u == Packing(p, order)
             done(k) == {order[j] : j \in 1..k}
             S == {k \in 0..n : PartPacked(p, u[k], done(k))}
             off(i) == p.slots[i].offset
             L == LiveSlots(p)
  <1>1. p \in Page /\ IsFiniteSet(L) /\ n \in Nat /\ \A i \in L : off(i) \in Nat
    <2>1. p \in Page
      BY DEF WellFormed, Readable
    <2> QED
      BY <2>1, Slots, Lives
  <1>2. Len(order) = n
    BY <1>1
  <1>3. /\ \A j, k \in 1..n : order[j] = order[k] => j = k
        /\ \A i \in L : \E k \in 1..n : order[k] = i
    <2>1. \A j, k \in 1..n : j < k => order[j] # order[k]
      <3> SUFFICES ASSUME NEW j \in 1..n, NEW k \in 1..n, j < k, order[j] = order[k] PROVE FALSE
        OBVIOUS
      <3>1. off(order[j]) > off(order[k]) /\ off(order[k]) \in Nat
        BY <1>1
      <3> QED
        BY <3>1
    <2> HIDE DEF L
    <2>2. IsFiniteSet(L) /\ n = Cardinality(L)
      BY <1>1 DEF L
    <2>3. Enumerates(order, n, L)
      BY <2>1 DEF Enumerates, L
    <2> QED
      BY ONLY <2>2, <2>3, OrderIsOnto
  <1>4. /\ u[0] = [p EXCEPT !.free_space_ptr = PageSize]
        /\ \A k \in 1..n : u[k] = Pack(u[k - 1], order[k])
    BY <1>1, <1>2, PackingExists
  <1> HIDE DEF u
  <1>5. 0 \in S
    <2>1. done(0) = {}
      OBVIOUS
    <2>2. PartPacked(p, u[0], done(0))
      BY <1>4, <2>1, PackNone
    <2>3. 0 \in 0..n
      BY <1>1
    <2> QED
      BY <2>2, <2>3
  <1>6. ASSUME NEW k \in 0..(n - 1), k \in S PROVE k + 1 \in S
    <2> DEFINE i == order[k + 1]
    <2>1. k + 1 \in 1..n /\ (k + 1) - 1 = k /\ k + 1 \in 0..n /\ k \in Nat
      BY <1>1
    <2>2. i \in L /\ PartPacked(p, u[k], done(k)) /\ u[k + 1] = Pack(u[k], i)
      BY <1>4, <1>6, <2>1
    <2>3. \A j \in 1..k : j \in 1..n /\ j # k + 1
      BY <1>1, <2>1
    <2>4. i \notin done(k)
      BY <1>3, <2>1, <2>3
    <2>5. done(k) \in SUBSET L
      BY <2>3
    <2>6. done(k + 1) = done(k) \cup {i}
      <3>1. \A j \in Nat : j \in 1..(k + 1) <=> j \in 1..k \/ j = k + 1
        BY <2>1
      <3>2. ASSUME NEW j \in 1..(k + 1) PROVE order[j] \in done(k) \cup {i}
        <4>1. j \in 1..k \/ j = k + 1
          BY <3>1
        <4> QED
          BY <4>1
      <3>3. \A j \in 1..k : j \in 1..(k + 1)
        BY <2>1
      <3>4. k + 1 \in 1..(k + 1)
        BY <2>1
      <3> QED
        BY <3>2, <3>3, <3>4
    <2>7. ASSUME NEW j \in L, j \notin done(k), j # i PROVE off(j) < off(i)
      <3>1. PICK m \in 1..n : order[m] = j
        BY <1>3
      <3>2. m \notin 1..k /\ m # k + 1
        BY <2>7, <3>1
      <3>3. k + 1 < m
        BY <1>1, <2>1, <3>2
      <3>4. off(order[k + 1]) > off(order[m]) /\ off(j) \in Nat /\ off(i) \in Nat
        BY <1>1, <2>1, <2>2, <3>3
      <3> QED
        BY <3>1, <3>4
    <2> DEFINE moved == done(k)
               s == u[k]
    <2>8. /\ moved \in SUBSET LiveSlots(p) /\ PartPacked(p, s, moved) /\ i \in LiveSlots(p)
          /\ i \notin moved
          /\ \A j \in LiveSlots(p) : j \notin moved /\ j # i => p.slots[j].offset < p.slots[i].offset
      BY <2>2, <2>4, <2>5, <2>7
    <2>9. u[k + 1] = Pack(s, i) /\ done(k + 1) = moved \cup {i}
      BY <2>2, <2>6
    <2> HIDE DEF moved, s, i, done
    <2>10. PartPacked(p, Pack(s, i), moved \cup {i})
      BY <2>8, PackOne
    <2> QED
      BY <2>1, <2>9, <2>10
  <1>7. n \in S
    <2> HIDE DEF S
    <2>1. \A k \in 0..(n - 1) : k \in S => k + 1 \in S
      BY <1>6
    <2>2. \A k \in 0..n : k \in S
      BY <1>1, <1>5, <2>1, Counting
    <2> QED
      BY <1>1, <2>2
  <1>8. done(n) = L
    BY <1>3
  <1> QED
    BY <1>2, <1>7, <1>8 DEF u

(* More slots take more room. *)
LEMMA SlotsTake == \A m, n \in Int : m <= n => SlotSize * m <= SlotSize * n
  BY Sizes

(* A slot closer to the front has fewer live ones before it. *)
LEMMA LiveBeforeRises ==
  ASSUME NEW p, Len(p.slots) \in Nat, NEW i \in LiveSlots(p), NEW j \in LiveSlots(p), i < j
  PROVE  LiveBefore(p, i) < LiveBefore(p, j)
  <1> DEFINE S == {k \in LiveSlots(p) : k <= j}
             T == {k \in LiveSlots(p) : k <= i}
  <1>1. LiveSlots(p) \subseteq Int
    BY Lives
  <1>2. IsFiniteSet(S)
    BY Lives
  <1>3. T \subseteq S /\ j \in S /\ j \notin T
    BY <1>1
  <1>4. LiveBefore(p, i) = Cardinality(T) /\ LiveBefore(p, j) = Cardinality(S)
    BY DEF LiveBefore
  <1> HIDE DEF S, T
  <1> QED
    BY <1>2, <1>3, <1>4, FewerIn

(* When all records are in their places the tombstones go: the page is the *)
(* same list, and its heap has no byte to spare.                           *)
LEMMA Closed ==
  ASSUME NEW p, WellFormed(p), NEW s, PartPacked(p, s, LiveSlots(p)), NEW q, q = CloseUp(s),
         NEW n, n = Cardinality(LiveSlots(p))
  PROVE  /\ WellFormed(q) /\ Len(q.slots) = n /\ LiveSlots(q) = 1..n
         /\ q.free_space_ptr = PageSize - HeapBytes(p.slots, LiveSlots(p))
         /\ HeapBytes(q.slots, 1..n) = HeapBytes(p.slots, LiveSlots(p))
         /\ Contents(q) = Contents(p)
  <1> DEFINE N == Len(p.slots)
             L == LiveSlots(p)
             e == LiveInOrder(s)
             slots == [k \in 1..n |-> s.slots[e[k]]]
  <1>1. /\ p \in Page /\ s \in Page /\ Readable(p) /\ N \in Nat /\ Len(s.slots) = N
        /\ L \subseteq 1..N /\ IsFiniteSet(L) /\ n \in Nat /\ n <= N
        /\ \A j \in 1..N : s.slots[j].size = p.slots[j].size
    <2>1. p \in Page /\ s \in Page /\ Readable(p) /\ Len(s.slots) = N
      BY DEF WellFormed, Readable, PartPacked
    <2>2. N \in Nat
      BY <2>1, Slots
    <2> QED
      BY <2>1, <2>2, Lives DEF PartPacked
  <1>2. LiveSlots(s) = L
    <2> SUFFICES ASSUME NEW i \in 1..N PROVE i \in LiveSlots(s) <=> i \in L
      BY <1>1 DEF LiveSlots
    <2>1. (i \in LiveSlots(s) <=> Live(s.slots[i])) /\ (i \in L <=> Live(p.slots[i]))
      BY <1>1 DEF LiveSlots
    <2>2. CASE i \in L
      <3>1. s.free_space_ptr <= s.slots[i].offset
        BY <2>2 DEF PartPacked, Within
      <3>2. s.slots[i].offset # 0
        BY <1>1, <3>1, Slots, Sizes
      <3> QED
        BY <2>1, <2>2, <3>2 DEF Live
    <2>3. CASE i \notin L
      BY <2>1, <2>3 DEF PartPacked
    <2> QED
      BY <2>2, <2>3
  <1>3. /\ DOMAIN e = 1..n
        /\ \A k \in 1..n : e[k] \in L /\ LiveBefore(s, e[k]) = k
        /\ \A i \in L : LiveBefore(s, i) \in 1..n /\ e[LiveBefore(s, i)] = i
    BY <1>1, <1>2, LiveOrder
  <1>4. /\ q.slots = slots /\ q.free_space_ptr = s.free_space_ptr /\ q.data = s.data
        /\ q = [slots |-> slots, free_space_ptr |-> s.free_space_ptr, data |-> s.data]
    BY <1>1, <1>3 DEF CloseUp, Page
  <1> HIDE DEF e
  <1>5. /\ slots \in Seq(PageSlot) /\ Len(slots) = n
        /\ \A k \in 1..n : slots[k] = s.slots[e[k]]
    <2>1. \A k \in 1..n : s.slots[e[k]] \in PageSlot
      BY <1>1, <1>3, Slots
    <2>2. slots \in [1..n -> PageSlot]
      BY <2>1
    <2> QED
      BY <1>1, <2>2
  <1> HIDE DEF slots
  <1>6. q \in Page
    BY <1>1, <1>4, <1>5 DEF Page
  <1>7. LiveSlots(q) = 1..n
    <2>1. \A k \in 1..n : Live(q.slots[k])
      BY <1>2, <1>3, <1>4, <1>5 DEF LiveSlots
    <2> QED
      BY <1>4, <1>5, <2>1 DEF LiveSlots
  <1>8. \A k \in 1..n : Within(q, k)
    BY <1>3, <1>4, <1>5 DEF PartPacked, Within
  <1>9. Readable(q)
    BY <1>6, <1>7, <1>8 DEF Readable
  <1> DEFINE f == [i \in L |-> LiveBefore(s, i)]
  <1>10. OrderKept(L, f)
    <2>1. \A i \in L : f[i] \in Nat
      BY <1>3
    <2>2. \A i, j \in L : i < j => f[i] < f[j]
      BY <1>1, <1>2, LiveBeforeRises
    <2> QED
      BY <2>1, <2>2 DEF OrderKept
  <1>11. \A i \in L : f[i] \in 1..n /\ e[f[i]] = i /\ slots[f[i]] = s.slots[i]
    BY <1>3, <1>5
  <1>12. LiveSlots(q) = Image(L, f)
    <2>1. \A k \in 1..n : e[k] \in L /\ f[e[k]] = k
      BY <1>3
    <2> HIDE DEF f
    <2> QED
      BY <1>7, <1>11, <2>1 DEF Image
  <1> HIDE DEF f
  <1>13. \A i \in L : RecordAt(q, f[i]) = RecordAt(p, i)
    BY <1>4, <1>11 DEF RecordAt, PartPacked
  <1>14. Contents(q) = Contents(p)
    BY <1>1, <1>9, <1>10, <1>12, <1>13, ContentsKept
  <1>15. HeapBytes(q.slots, 1..n) = HeapBytes(p.slots, L)
    <2> DEFINE old == p.slots
               new == q.slots
    <2>1. Sized(old, L)
      BY <1>1, PageSized
    <2>2. \A i, j \in L : f[i] = f[j] => i = j
      BY <1>11
    <2>3. \A i \in L : new[f[i]].size = old[i].size
      BY <1>1, <1>4, <1>11
    <2> HIDE DEF L, old, new
    <2>4. HeapBytes(new, Image(L, f)) = HeapBytes(old, L)
      BY <2>1, <2>2, <2>3, HeapBytesMoved
    <2> QED
      BY <1>7, <1>12, <2>4 DEF old, new
  <1>16. \A j, k \in 1..n : j # k => Apart(q, j, k)
    <2> SUFFICES ASSUME NEW j \in 1..n, NEW k \in 1..n, j # k PROVE Apart(q, j, k)
      OBVIOUS
    <2>1. e[j] # e[k] /\ e[j] \in L /\ e[k] \in L
      BY <1>3
    <2>2. Apart(s, e[j], e[k])
      BY <2>1 DEF PartPacked
    <2> QED
      BY <1>4, <1>5, <2>2 DEF Apart
  <1>17. q.free_space_ptr = PageSize - HeapBytes(p.slots, L) /\ p.free_space_ptr <= q.free_space_ptr
    BY <1>4 DEF PartPacked
  <1>18. HeaderSize + SlotSize * n <= q.free_space_ptr
    <2>1. HeaderSize + SlotSize * N <= p.free_space_ptr
      BY DEF WellFormed
    <2>2. SlotSize * n <= SlotSize * N /\ SlotSize * n \in Int /\ SlotSize * N \in Int
      BY <1>1, SlotsTake, Sizes
    <2>3. p.free_space_ptr \in Int /\ q.free_space_ptr \in Int
      BY <1>1, <1>6, Slots
    <2> HIDE DEF N
    <2> QED
      BY <1>17, <2>1, <2>2, <2>3, Sizes
  <1>19. q.free_space_ptr + HeapBytes(q.slots, 1..n) = PageSize
    <2>1. HeapBytes(p.slots, L) \in Nat
      BY <1>1, PageSized
    <2> HIDE DEF L
    <2> QED
      BY <1>15, <1>17, <2>1, Sizes
  <1>20. Len(q.slots) = n
    BY <1>4, <1>5
  <1>21. WellFormed(q)
    BY <1>7, <1>9, <1>16, <1>18, <1>19, <1>20, Sizes DEF WellFormed
  <1> QED
    BY <1>7, <1>14, <1>15, <1>17, <1>20, <1>21

(* So it is, whatever the order in which the slots' records lie.           *)
LEMMA Compacted ==
  ASSUME NEW p, WellFormed(p), NEW q, q = Packed(p), NEW n, n = Cardinality(LiveSlots(p))
  PROVE  /\ WellFormed(q) /\ Len(q.slots) = n /\ LiveSlots(q) = 1..n
         /\ q.free_space_ptr = PageSize - HeapBytes(p.slots, LiveSlots(p))
         /\ HeapBytes(q.slots, 1..n) = HeapBytes(p.slots, LiveSlots(p))
         /\ Contents(q) = Contents(p)
  <1> DEFINE L == LiveSlots(p)
             Falls(order) == \A j, k \in 1..n : j < k => p.slots[order[j]].offset > p.slots[order[k]].offset
             In(order) == \A j, k \in DOMAIN order : j < k => p.slots[order[j]].offset > p.slots[order[k]].offset
             key == [i \in L |-> 0 - p.slots[i].offset]
  <1>1. /\ p \in Page /\ IsFiniteSet(L) /\ n \in Nat /\ L \subseteq 1..Len(p.slots)
        /\ \A i \in L : p.slots[i].offset \in Nat /\ p.slots[i].size \in Nat /\ 0 < p.slots[i].size
    <2>1. p \in Page
      BY DEF WellFormed, Readable
    <2> QED
      BY <2>1, Slots, Lives
  <1>2. \A i, j \in L : key[i] = key[j] => i = j
    <2> SUFFICES ASSUME NEW i \in L, NEW j \in L, key[i] = key[j], i # j PROVE FALSE
      OBVIOUS
    <2>1. p.slots[i].offset = p.slots[j].offset
      BY <1>1
    <2>2. Apart(p, i, j)
      BY DEF WellFormed
    <2> QED
      BY <1>1, <2>1, <2>2 DEF Apart
  <1>3. \E order \in [1..n -> L] : \A j, k \in 1..n : j < k => key[order[j]] < key[order[k]]
    <2>1. \A i \in L : key[i] \in Int
      BY <1>1
    <2> HIDE DEF L, key
    <2>2. n = Cardinality(L)
      BY DEF L
    <2> QED
      BY <1>1, <1>2, <2>1, <2>2, CanBeOrdered
  <1>4. \E order \in Orders(p) : In(order)
    <2>1. PICK order \in [1..n -> L] : \A j, k \in 1..n : j < k => key[order[j]] < key[order[k]]
      BY <1>3
    <2>2. Falls(order)
      <3> SUFFICES ASSUME NEW j \in 1..n, NEW k \in 1..n, j < k
                   PROVE  p.slots[order[j]].offset > p.slots[order[k]].offset
        OBVIOUS
      <3>1. order[j] \in L /\ order[k] \in L /\ key[order[j]] < key[order[k]]
        BY <2>1
      <3> QED
        BY <1>1, <3>1
    <2>3. order \in Orders(p) /\ DOMAIN order = 1..n
      BY DEF Orders
    <2> QED
      BY <2>2, <2>3
  <1> DEFINE order == CHOOSE o \in Orders(p) : In(o)
  <1>5. order \in Orders(p) /\ In(order)
    BY <1>4
  <1>6. Packed(p) = PackInOrder(p, order)
    BY DEF Packed
  <1> HIDE DEF order
  <1>7. order \in [1..n -> L] /\ Falls(order)
    <2>1. order \in [1..n -> L]
      BY <1>5 DEF Orders
    <2>2. DOMAIN order = 1..n
      BY <2>1
    <2> QED
      BY <1>5, <2>1, <2>2
  <1> DEFINE s == Packing(p, order)[n]
  <1>8. Len(order) = n /\ PartPacked(p, s, L)
    BY <1>7, PackAll
  <1>9. q = CloseUp(s)
    BY <1>6, <1>8, PackInOrderUnfolds
  <1> HIDE DEF s
  <1> QED
    BY <1>8, <1>9, Closed

-----------------------------------------------------------------------------
(* The space of a page.                                                    *)

Gap(p) == p.free_space_ptr - (HeaderSize + SlotSize * Len(p.slots))

(* The page has kept the bytes of all its slots, the tombstones' too.      *)
Charged(p) == p.free_space_ptr + HeapBytes(p.slots, 1..Len(p.slots))

LEMMA SpaceIs ==
  ASSUME NEW p, WellFormed(p), NEW n, n = Cardinality(LiveSlots(p))
  PROVE  /\ FreeSpace(p) = Gap(p) /\ Gap(p) \in Nat
         /\ Charged(p) \in Nat /\ HeapBytes(p.slots, LiveSlots(p)) \in Nat
         /\ TotalFreeSpace(p) =
              Charged(p) - HeapBytes(p.slots, LiveSlots(p)) - HeaderSize - SlotSize * n
         /\ TotalFreeSpace(p) >= Gap(p)
  <1> DEFINE N == Len(p.slots)
             L == LiveSlots(p)
             dead == (1..N) \ L
             a == SlotSize * N
             b == SlotSize * n
             c == SlotSize * Cardinality(dead)
             fsp == p.free_space_ptr
             all == HeapBytes(p.slots, 1..N)
             live == HeapBytes(p.slots, L)
             lost == HeapBytes(p.slots, dead)
             gap == fsp - (HeaderSize + a)
             total == gap + lost + c
  <1>1. p \in Page /\ N \in Nat /\ IsFiniteSet(L) /\ n \in Nat /\ L \subseteq 1..N /\ n <= N
    <2>1. p \in Page
      BY DEF WellFormed, Readable
    <2> QED
      BY <2>1, Slots, Lives
  <1>2. Cardinality(dead) = N - n
    <2> DEFINE ids == 1..N
    <2> HIDE DEF L, N
    <2>1. IsFiniteSet(ids) /\ Cardinality(ids) = N
      BY <1>1, FS_Interval
    <2>2. ids \cap L = L /\ n = Cardinality(L) /\ dead = ids \ L
      BY <1>1 DEF L
    <2> HIDE DEF ids, dead
    <2> QED
      BY ONLY <2>1, <2>2, FS_Difference
  <1>3. all \in Nat /\ live \in Nat /\ lost \in Nat /\ all = live + lost
    <2> DEFINE slots == p.slots
    <2>1. Sized(slots, L) /\ Sized(slots, dead)
      BY <1>1, PageSized
    <2>2. L \cap dead = {} /\ L \cup dead = 1..N
      BY <1>1
    <2>3. HeapBytes(slots, L) \in Nat /\ HeapBytes(slots, dead) \in Nat /\ HeapBytes(slots, 1..N) \in Nat
      BY <1>1, PageSized
    <2> HIDE DEF slots, L, dead
    <2>4. HeapBytes(slots, L \cup dead) = HeapBytes(slots, L) + HeapBytes(slots, dead)
      BY ONLY <2>1, <2>2, HeapBytesSplit
    <2>5. HeapBytes(slots, 1..N) = HeapBytes(slots, L) + HeapBytes(slots, dead)
      BY ONLY <2>2, <2>4
    <2> QED
      BY <2>3, <2>5 DEF slots
  <1>4. a \in Int /\ b \in Int /\ c \in Int /\ 0 <= b /\ 0 <= c /\ a = b + c
    <2>1. Cardinality(dead) \in Int /\ 0 <= Cardinality(dead) /\ n + Cardinality(dead) = N
      BY <1>1, <1>2
    <2>2. \A x, y \in Int : SlotSize * (x + y) = SlotSize * x + SlotSize * y
      BY Sizes
    <2>3. \A x \in Int : SlotSize * x \in Int /\ SlotSize * 0 = 0 /\ (0 <= x => SlotSize * 0 <= SlotSize * x)
      BY Sizes, SlotsTake
    <2> HIDE DEF dead, N
    <2> QED
      BY <1>1, <2>1, <2>2, <2>3
  <1>5. fsp \in Int /\ HeaderSize + a <= fsp /\ fsp + all <= PageSize
    BY <1>1, Slots DEF WellFormed
  <1>6. FreeSpace(p) = gap % Word /\ TotalFreeSpace(p) = Max({0, total}) % Word
    BY DEF FreeSpace, TotalFreeSpace
  <1>7. Gap(p) = gap /\ Charged(p) = fsp + all
    BY DEF Gap, Charged
  <1> HIDE DEF a, b, c, fsp, all, live, lost
  <1>8. gap \in 0..(Word - 1)
    BY <1>3, <1>4, <1>5, Sizes
  <1>9. total \in 0..(Word - 1) /\ total >= gap /\ total = fsp + all - live - HeaderSize - b
    BY <1>3, <1>4, <1>5, Sizes
  <1>10. \A x \in 0..(Word - 1) : x % Word = x
    BY Sizes
  <1> HIDE DEF gap, total
  <1>11. Max({0, total}) = total
    <2>1. total \in Int /\ 0 <= total
      BY <1>9, Sizes
    <2>2. \A x \in {0, total} : (\A y \in {0, total} : x >= y) => x = total
      BY <2>1
    <2>3. \A y \in {0, total} : total >= y
      BY <2>1
    <2> DEFINE m == Max({0, total})
    <2>4. m \in {0, total} /\ \A y \in {0, total} : m >= y
      BY <2>3 DEF Max
    <2> HIDE DEF m
    <2> QED
      BY <2>2, <2>4 DEF m
  <1>12. FreeSpace(p) = gap /\ TotalFreeSpace(p) = total
    BY <1>6, <1>8, <1>9, <1>10, <1>11
  <1>13. gap \in Nat /\ Charged(p) \in Nat
    BY <1>3, <1>4, <1>5, <1>7, <1>8, Sizes
  <1>14. TotalFreeSpace(p) = Charged(p) - live - HeaderSize - b
    BY <1>3, <1>4, <1>5, <1>7, <1>9, <1>12, Sizes
  <1> QED
    BY <1>3, <1>7, <1>9, <1>12, <1>13, <1>14 DEF b, live

(* An insertion that is not refused has its room, if only after a           *)
(* compaction.                                                             *)
LEMMA RoomMade ==
  ASSUME WellFormed(page), NEW r \in Record, NEW growth \in {0, SlotSize}, Fits(r, growth),
         NEW p, p = Room(r, growth)
  PROVE  /\ WellFormed(p) /\ Contents(p) = Contents(page) /\ r.size + growth <= Gap(p)
         /\ CanInsertContigious(page, r.size, growth) => p = page
         /\ ~CanInsertContigious(page, r.size, growth) => p = Packed(page)
         /\ Charged(page) = PageSize => Charged(p) = PageSize
  <1> DEFINE n == Cardinality(LiveSlots(page))
             q == Packed(page)
             need == r.size + growth
             live == HeapBytes(page.slots, LiveSlots(page))
  <1>1. need \in Nat /\ need < Word /\ need % Word = need
    <2>1. need \in Nat /\ need < Word
      BY RecordBytes, Sizes
    <2> HIDE DEF need
    <2> QED
      BY <2>1, Sizes
  <1>2. /\ FreeSpace(page) = Gap(page) /\ Charged(page) \in Nat /\ live \in Nat
        /\ TotalFreeSpace(page) = Charged(page) - live - HeaderSize - SlotSize * n
    BY SpaceIs
  <1>3. /\ WellFormed(q) /\ Contents(q) = Contents(page) /\ Len(q.slots) = n /\ LiveSlots(q) = 1..n
        /\ q.free_space_ptr = PageSize - live /\ HeapBytes(q.slots, 1..n) = live
    BY Compacted
  <1>4. Charged(q) = PageSize /\ Gap(q) = PageSize - live - (HeaderSize + SlotSize * n)
    <2> HIDE DEF n, q, live
    <2> QED
      BY <1>2, <1>3, Sizes DEF Charged, Gap
  <1>5. Charged(page) <= PageSize
    BY DEF WellFormed, Charged
  <1>6. need <= TotalFreeSpace(page)
    BY <1>1 DEF Fits
  <1>7. need <= Gap(q)
    <2> DEFINE b == SlotSize * n
    <2>1. b \in Int
      <3>1. n \in Nat
        BY <1>3, Slots DEF WellFormed, Readable
      <3> HIDE DEF n
      <3> QED
        BY <3>1, Sizes
    <2>2. TotalFreeSpace(page) = Charged(page) - live - HeaderSize - b
      BY <1>2
    <2>3. Gap(q) = PageSize - live - (HeaderSize + b)
      BY <1>4
    <2> HIDE DEF b, need, live, q
    <2> QED
      BY <1>1, <1>2, <1>5, <1>6, <2>1, <2>2, <2>3, Sizes
  <1>8. CASE CanInsertContigious(page, r.size, growth)
    <2>1. p = page /\ need <= Gap(page)
      <3>1. FreeSpace(page) >= need
        BY <1>8 DEF CanInsertContigious
      <3> QED
        BY <1>1, <1>2, <1>8, <3>1, SpaceIs DEF Room
    <2> QED
      BY <1>8, <2>1
  <1>9. CASE ~CanInsertContigious(page, r.size, growth)
    <2>1. p = q
      BY <1>9 DEF Room
    <2> QED
      BY <1>3, <1>4, <1>7, <1>9, <2>1
  <1> QED
    BY <1>8, <1>9

-----------------------------------------------------------------------------
(* The operations, on a page that has the room.                            *)

(* The new record lies on top of the heap, the others are where they were. *)
LEMMA PushedOnTop ==
  ASSUME NEW p, WellFormed(p), NEW r \in Record, r.size <= Gap(p), NEW t, t = Push(p, r)
  PROVE  /\ t \in Page /\ t.slots = p.slots /\ t.free_space_ptr = p.free_space_ptr - r.size
         /\ HeaderSize + SlotSize * Len(p.slots) <= t.free_space_ptr
         /\ t = [slots |-> p.slots, free_space_ptr |-> t.free_space_ptr, data |-> t.data]
         /\ TopSlot(t, r) \in PageSlot /\ Live(TopSlot(t, r))
         /\ TopSlot(t, r).offset = t.free_space_ptr /\ TopSlot(t, r).size = r.size
         /\ t.free_space_ptr + r.size <= PageSize
         /\ Load(t.data, t.free_space_ptr, r.size) = Bytes(r)
         /\ \A i \in LiveSlots(p) :
              /\ RecordAt(t, i) = RecordAt(p, i)
              /\ t.free_space_ptr + r.size <= p.slots[i].offset
  <1> DEFINE to == p.free_space_ptr - r.size
             bytes == Bytes(r)
             old == p.data
             a == SlotSize * Len(p.slots)
  <1>1. /\ p \in Page /\ Readable(p) /\ old \in [Address -> Cell]
        /\ p.free_space_ptr \in Int /\ HeaderSize <= p.free_space_ptr /\ p.free_space_ptr <= PageSize
        /\ Len(p.slots) \in Nat
    <2>1. p \in Page /\ Readable(p)
      BY DEF WellFormed, Readable
    <2> QED
      BY <2>1, Slots
  <1>2. bytes \in Seq(Cell) /\ Len(bytes) = r.size /\ r.size \in Nat /\ 0 < r.size
    BY RecordBytes
  <1>3. a \in Nat
    <2> DEFINE m == Len(p.slots)
    <2>1. m \in Nat
      BY <1>1
    <2> HIDE DEF m
    <2>2. SlotSize * m \in Nat
      <3>1. SlotSize * 0 <= SlotSize * m /\ SlotSize * 0 = 0 /\ SlotSize * m \in Int
        BY <2>1, SlotsTake, Sizes
      <3> QED
        BY <3>1
    <2> QED
      BY <2>2 DEF m
  <1>4. /\ to \in Int /\ HeaderSize + a <= to /\ HeaderSize <= to /\ to < PageSize
        /\ to + Len(bytes) <= PageSize /\ to + r.size = p.free_space_ptr
    <2>1. Gap(p) = p.free_space_ptr - (HeaderSize + a)
      BY DEF Gap
    <2> HIDE DEF a, bytes
    <2> QED
      BY <1>1, <1>2, <1>3, <2>1, Sizes
  <1>5. /\ t.slots = p.slots /\ t.free_space_ptr = to /\ t.data = Store(old, to, bytes)
        /\ t = [slots |-> p.slots, free_space_ptr |-> to, data |-> t.data]
    BY <1>1 DEF Push, Page
  <1> HIDE DEF to, bytes, old
  <1>6. /\ t.data \in [Address -> Cell] /\ Load(t.data, to, Len(bytes)) = bytes
        /\ \A at \in Int, size \in Nat :
             /\ HeaderSize <= at /\ at + size <= PageSize
             /\ at + size <= to \/ to + Len(bytes) <= at
             => Load(t.data, at, size) = Load(old, at, size)
    BY <1>1, <1>2, <1>4, <1>5, Stored
  <1>7. t \in Page
    <2>1. to \in HeaderSize..PageSize
      BY <1>4, Sizes
    <2>2. p.slots \in Seq(PageSlot)
      BY <1>1, Slots
    <2> QED
      BY <1>5, <1>6, <2>1, <2>2 DEF Page
  <1>8. /\ TopSlot(t, r) \in PageSlot /\ Live(TopSlot(t, r))
        /\ TopSlot(t, r).offset = to /\ TopSlot(t, r).size = r.size
    <2>1. to \in Address /\ to # 0 /\ r.size \in 1..(PageSize - HeaderSize)
      BY <1>2, <1>4, Sizes
    <2>2. TopSlot(t, r) = [offset |-> to, size |-> r.size]
      BY <1>5 DEF TopSlot
    <2> QED
      BY <2>1, <2>2 DEF PageSlot, Live
  <1>9. ASSUME NEW i \in LiveSlots(p)
        PROVE  RecordAt(t, i) = RecordAt(p, i) /\ to + r.size <= p.slots[i].offset
    <2> DEFINE at == p.slots[i].offset
               size == p.slots[i].size
    <2>1. at \in Int /\ size \in Nat
      BY <1>1, Slots DEF LiveSlots
    <2>2. p.free_space_ptr <= at /\ at + size <= PageSize
      BY <1>1 DEF Readable, Within
    <2>3. HeaderSize <= at /\ to + Len(bytes) <= at /\ to + r.size <= at
      BY <1>1, <1>2, <1>4, <2>1, <2>2, Sizes, SMTT(30)
    <2>4. RecordAt(t, i) = Load(t.data, at, size) /\ RecordAt(p, i) = Load(old, at, size)
      BY <1>5 DEF RecordAt, old
    <2> HIDE DEF at, size
    <2>5. Load(t.data, at, size) = Load(old, at, size)
      BY <1>6, <2>1, <2>2, <2>3
    <2> QED
      BY <2>3, <2>4, <2>5 DEF at
  <1> QED
    BY <1>2, <1>4, <1>5, <1>6, <1>7, <1>8, <1>9 DEF to, bytes

(* The live slots of q are those of p, renumbered by f, and one more at x. *)
OneSlotMore(p, q, f, x, slot) ==
  /\ OrderKept(LiveSlots(p), f)
  /\ x \in Nat /\ x \notin Image(LiveSlots(p), f)
  /\ LiveSlots(q) = ImageAnd(LiveSlots(p), f, x)
  /\ q.slots[x] = slot
  /\ \A i \in LiveSlots(p) : q.slots[f[i]] = p.slots[i]

(* The new record is that slot's; the other records keep their order,      *)
(* whatever numbers their slots have now.                                  *)
LEMMA Gained ==
  ASSUME NEW p, WellFormed(p), NEW r, r \in Record, r.size <= Gap(p), NEW t, t = Push(p, r),
         NEW q, q \in Page, q.free_space_ptr = t.free_space_ptr, q.data = t.data,
         NEW f, NEW x, OneSlotMore(p, q, f, x, TopSlot(t, r)),
         NEW c, c = Below(LiveSlots(p), f, x)
  PROVE  /\ Readable(q) /\ \A i, j \in LiveSlots(q) : i # j => Apart(q, i, j)
         /\ c \in 0..Len(Contents(p))
         /\ Contents(q) = InsertAt(Contents(p), c + 1, Bytes(r))
  <1> DEFINE L == LiveSlots(p)
  <1> USE DEF OneSlotMore
  <1>1. Readable(p) /\ \A i, j \in L : i # j => Apart(p, i, j)
    BY DEF WellFormed
  <1>2. /\ q.slots[x].offset = t.free_space_ptr /\ q.slots[x].size = r.size
        /\ t.free_space_ptr + r.size <= PageSize
        /\ Load(t.data, t.free_space_ptr, r.size) = Bytes(r)
        /\ \A i \in L : RecordAt(t, i) = RecordAt(p, i) /\ t.free_space_ptr + r.size <= p.slots[i].offset
        /\ t.slots = p.slots /\ t \in Page
    BY PushedOnTop
  <1>3. t.free_space_ptr \in Int /\ r.size \in Nat
    BY <1>2, Slots, RecordBytes
  <1>4. \A y \in LiveSlots(q) : y = x \/ \E i \in L : y = f[i]
    BY DEF Image, ImageAnd
  <1>5. ASSUME NEW i \in L
        PROVE  /\ q.slots[f[i]] = p.slots[i] /\ Within(q, f[i]) /\ Apart(q, x, f[i]) /\ Apart(q, f[i], x)
               /\ RecordAt(q, f[i]) = RecordAt(p, i)
    <2>1. Within(p, i) /\ p.slots[i].offset \in Int
      BY <1>1, Slots DEF Readable, LiveSlots
    <2>2. t.free_space_ptr + r.size <= p.slots[i].offset /\ t.free_space_ptr <= p.slots[i].offset
      BY <1>2, <1>3, <2>1
    <2>3. RecordAt(q, f[i]) = RecordAt(t, i)
      BY <1>2 DEF RecordAt
    <2> QED
      BY <1>2, <2>1, <2>2, <2>3 DEF Within, Apart
  <1>6. Within(q, x)
    BY <1>2, <1>3 DEF Within
  <1>7. Readable(q)
    BY <1>4, <1>5, <1>6 DEF Readable
  <1>8. ASSUME NEW y \in LiveSlots(q), NEW z \in LiveSlots(q), y # z PROVE Apart(q, y, z)
    <2>1. CASE y = x
      BY <1>4, <1>5, <1>8, <2>1
    <2>2. CASE z = x
      BY <1>4, <1>5, <1>8, <2>2
    <2>3. CASE y # x /\ z # x
      <3>1. PICK i \in L : y = f[i]
        BY <1>4, <2>3
      <3>2. PICK j \in L : z = f[j]
        BY <1>4, <2>3
      <3>3. Apart(p, i, j)
        BY <1>1, <1>8, <3>1, <3>2
      <3> QED
        BY <3>1, <3>2, <3>3 DEF Apart
    <2> QED
      BY <2>1, <2>2, <2>3
  <1>9. RecordAt(q, x) = Bytes(r)
    BY <1>2 DEF RecordAt
  <1>10. c \in 0..Len(Contents(p)) /\ Contents(q) = InsertAt(Contents(p), c + 1, RecordAt(q, x))
    BY <1>1, <1>5, <1>7, ContentsGain
  <1> QED
    BY <1>7, <1>8, <1>9, <1>10

(* A new slot for it, anywhere. *)
LEMMA Inserted ==
  ASSUME NEW p, WellFormed(p), NEW r \in Record, r.size + SlotSize <= Gap(p), NEW t, t = Push(p, r),
         NEW pos \in 0..Len(p.slots),
         NEW q, q = [t EXCEPT !.slots = InsertAt(@, pos + 1, TopSlot(t, r))]
  PROVE  /\ WellFormed(q) /\ Charged(q) = Charged(p)
         /\ LiveBefore(p, pos) \in 0..Len(Contents(p))
         /\ Contents(q) = InsertAt(Contents(p), LiveBefore(p, pos) + 1, Bytes(r))
  <1> DEFINE L == LiveSlots(p)
             N == Len(p.slots)
             x == pos + 1
             top == TopSlot(t, r)
             slots == InsertAt(p.slots, x, top)
             f == [i \in 1..N |-> IF i < x THEN i ELSE i + 1]
             fsp == t.free_space_ptr
  <1>1. /\ p \in Page /\ p.slots \in Seq(PageSlot) /\ N \in Nat /\ L \subseteq 1..N
        /\ r.size \in Nat /\ 0 < r.size /\ Gap(p) \in Int /\ pos \in Nat
    <2>1. p \in Page
      BY DEF WellFormed, Readable
    <2> QED
      BY <2>1, Slots, Lives, RecordBytes, SpaceIs
  <1>2. r.size <= Gap(p)
    BY <1>1, Sizes
  <1>3. /\ t \in Page /\ fsp = p.free_space_ptr - r.size
        /\ t = [slots |-> p.slots, free_space_ptr |-> fsp, data |-> t.data]
        /\ top \in PageSlot /\ Live(top) /\ top.size = r.size /\ fsp + r.size <= PageSize
    BY <1>2, PushedOnTop
  <1>4. q = [slots |-> slots, free_space_ptr |-> fsp, data |-> t.data]
    <2> HIDE DEF x, top
    <2>1. t.slots = p.slots
      BY <1>3
    <2>2. q = [t EXCEPT !.slots = slots]
      BY <2>1 DEF x, top
    <2> HIDE DEF slots
    <2> QED
      BY <1>3, <2>2
  <1> HIDE DEF top, fsp
  <1>5. x \in 1..(N + 1) /\ x \in Nat /\ 0 < x
    BY <1>1
  <1>6. /\ slots \in Seq(PageSlot) /\ Len(slots) = N + 1
        /\ \A i \in 1..(N + 1) :
             slots[i] = IF i < x THEN p.slots[i] ELSE IF i = x THEN top ELSE p.slots[i - 1]
    <2> DEFINE old == p.slots
    <2>1. old \in Seq(PageSlot) /\ x \in 1..(Len(old) + 1) /\ top \in PageSlot
      BY <1>1, <1>3, <1>5
    <2> HIDE DEF old, x
    <2>2. IsInsertion(InsertAt(old, x, top), old, x, top, PageSlot)
      BY ONLY <2>1, InsertedAt
    <2> QED
      BY <2>2 DEF old, IsInsertion
  <1> HIDE DEF slots, N, L
  <1>7. /\ q.slots = slots /\ q.free_space_ptr = fsp /\ q.data = t.data
        /\ q \in Page
    BY <1>3, <1>4, <1>6, SMTT(60) DEF Page, fsp
  <1>8. /\ \A i \in 1..N : f[i] \in 1..(N + 1) /\ f[i] # x /\ f[i] \in Nat /\ slots[f[i]] = p.slots[i]
        /\ \A i, j \in 1..N : i < j => f[i] < f[j]
        /\ \A i, j \in 1..N : f[i] = f[j] => i = j
        /\ \A i \in 1..N : f[i] < x <=> i <= pos
    <2>1. ASSUME NEW i \in 1..N
          PROVE  /\ f[i] \in 1..(N + 1) /\ f[i] # x /\ f[i] \in Nat /\ slots[f[i]] = p.slots[i]
                 /\ f[i] < x <=> i <= pos
      <3>1. CASE i < x
        <4>1. f[i] = i /\ i \in 1..(N + 1) /\ i # x /\ i \in Nat /\ i <= pos
          BY <1>1, <3>1
        <4> QED
          BY <1>6, <3>1, <4>1
      <3>2. CASE ~(i < x)
        <4> DEFINE y == i + 1
        <4>1. f[i] = y /\ y \in 1..(N + 1) /\ y # x /\ ~(y < x) /\ y \in Nat /\ ~(i <= pos) /\ y - 1 = i
          BY <1>1, <3>2
        <4> HIDE DEF y
        <4>2. slots[y] = p.slots[y - 1]
          BY <1>6, <4>1
        <4> QED
          BY <4>1, <4>2
      <3> QED
        BY <3>1, <3>2
    <2>2. \A i, j \in 1..N : i < j => f[i] < f[j]
      BY <1>1
    <2>3. \A i, j \in 1..N : f[i] = f[j] => i = j
      BY <1>1
    <2> HIDE DEF f
    <2> QED
      BY <2>1, <2>2, <2>3
  <1>9. \A y \in 1..(N + 1) : y = x \/ \E i \in 1..N : f[i] = y
    <2> SUFFICES ASSUME NEW y \in 1..(N + 1), y # x PROVE \E i \in 1..N : f[i] = y
      OBVIOUS
    <2>1. CASE y < x
      <3>1. y \in 1..N
        BY <1>1, <1>5, <2>1
      <3> QED
        BY <2>1, <3>1
    <2>2. CASE y > x
      <3>1. y - 1 \in 1..N /\ ~(y - 1 < x) /\ (y - 1) + 1 = y
        BY <1>1, <2>2
      <3> QED
        BY <3>1
    <2> QED
      BY <1>5, <2>1, <2>2
  <1> HIDE DEF f
  <1>10. /\ \A i \in 1..N : i \in L <=> f[i] \in LiveSlots(q)
         /\ x \in LiveSlots(q) /\ LiveSlots(q) \subseteq 1..(N + 1)
    <2>1. \A y \in 1..(N + 1) : y \in LiveSlots(q) <=> Live(slots[y])
      BY <1>6, <1>7 DEF LiveSlots
    <2>2. \A i \in 1..N : i \in L <=> Live(p.slots[i])
      BY DEF L, N, LiveSlots
    <2>3. LiveSlots(q) \subseteq 1..(N + 1)
      BY <1>6, <1>7 DEF LiveSlots
    <2>4. slots[x] = top
      BY <1>5, <1>6
    <2> HIDE DEF x
    <2> QED
      BY <1>3, <1>5, <1>8, <2>1, <2>2, <2>3, <2>4
  <1>11. LiveSlots(q) = ImageAnd(L, f, x) /\ x \notin Image(L, f) /\ OrderKept(L, f)
    <2> HIDE DEF x
    <2>1. ASSUME NEW y \in LiveSlots(q) PROVE y \in ImageAnd(L, f, x)
      <3>1. y = x \/ \E i \in 1..N : f[i] = y
        BY <1>9, <1>10
      <3> QED
        BY <1>10, <3>1 DEF Image, ImageAnd
    <2>2. ASSUME NEW y \in ImageAnd(L, f, x) PROVE y \in LiveSlots(q)
      BY <1>1, <1>10 DEF Image, ImageAnd
    <2>3. x \notin Image(L, f)
      BY <1>1, <1>8 DEF Image
    <2>4. OrderKept(L, f)
      BY <1>1, <1>8 DEF OrderKept
    <2> QED
      BY <2>1, <2>2, <2>3, <2>4
  <1>12. Below(L, f, x) = LiveBefore(p, pos)
    <2>1. {i \in L : f[i] < x} = {i \in L : i <= pos}
      BY <1>1, <1>8
    <2> QED
      BY <2>1 DEF Below, LiveBefore, L
  <1>13. /\ Readable(q) /\ \A i, j \in LiveSlots(q) : i # j => Apart(q, i, j)
         /\ LiveBefore(p, pos) \in 0..Len(Contents(p))
         /\ Contents(q) = InsertAt(Contents(p), LiveBefore(p, pos) + 1, Bytes(r))
    <2> DEFINE c == LiveBefore(p, pos)
    <2>1. c = Below(LiveSlots(p), f, x)
      BY <1>12 DEF L
    <2>2. /\ OrderKept(LiveSlots(p), f) /\ x \notin Image(LiveSlots(p), f)
          /\ LiveSlots(q) = ImageAnd(LiveSlots(p), f, x)
      BY <1>11 DEF L
    <2>3. q.slots[x] = TopSlot(t, r) /\ \A i \in LiveSlots(p) : q.slots[f[i]] = p.slots[i]
      BY <1>1, <1>5, <1>6, <1>7, <1>8 DEF L, top
    <2>4. q.free_space_ptr = t.free_space_ptr /\ q.data = t.data /\ q \in Page /\ x \in Nat
      BY <1>5, <1>7 DEF fsp
    <2> HIDE DEF c, x
    <2>5. OneSlotMore(p, q, f, x, TopSlot(t, r))
      BY ONLY <2>2, <2>3, <2>4 DEF OneSlotMore
    <2>6. WellFormed(p) /\ r \in Record /\ t = Push(p, r)
      OBVIOUS
    <2>7. /\ Readable(q) /\ \A i, j \in LiveSlots(q) : i # j => Apart(q, i, j)
          /\ c \in 0..Len(Contents(p))
          /\ Contents(q) = InsertAt(Contents(p), c + 1, Bytes(r))
      BY ONLY <1>2, <2>1, <2>4, <2>5, <2>6, Gained
    <2> QED
      BY <2>7 DEF c
  <1>14. HeapBytes(slots, 1..(N + 1)) = HeapBytes(p.slots, 1..N) + r.size /\ HeapBytes(p.slots, 1..N) \in Nat
    <2> DEFINE A == 1..N
               B == Image(A, f)
               old == p.slots
    <2>1. Sized(old, A) /\ HeapBytes(old, A) \in Nat
      BY <1>1, PageSized DEF N
    <2>2. /\ \A i, j \in A : f[i] = f[j] => i = j
          /\ \A i \in A : slots[f[i]].size = old[i].size
      BY <1>8
    <2>3. x \notin B /\ B \cup {x} = 1..(N + 1)
      <3>1. x \notin B
        BY <1>8 DEF Image
      <3>2. \A y \in B \cup {x} : y \in 1..(N + 1)
        BY <1>5, <1>8 DEF Image
      <3>3. \A y \in 1..(N + 1) : y \in B \cup {x}
        BY <1>9 DEF Image
      <3> QED
        BY <3>1, <3>2, <3>3
    <2> HIDE DEF A, old
    <2>4. Sized(slots, B) /\ HeapBytes(slots, B) = HeapBytes(old, A)
      BY <2>1, <2>2, HeapBytesMoved
    <2>5. slots[x].size = r.size /\ slots[x].size \in 0..PageSize
      <3>1. slots[x] = top
        BY <1>5, <1>6
      <3>2. r.size <= PageSize
        BY <1>1, <1>2, <1>3, Slots, Sizes DEF fsp
      <3> QED
        BY <1>1, <1>3, <3>1, <3>2, Sizes
    <2> HIDE DEF B, x
    <2>6. HeapBytes(slots, B \cup {x}) = HeapBytes(slots, B) + slots[x].size
      BY <2>3, <2>4, <2>5, HeapBytesAdd
    <2> QED
      BY <2>1, <2>3, <2>4, <2>5, <2>6 DEF A, old
  <1>15. Charged(q) = Charged(p)
    <2>1. Charged(q) = fsp + HeapBytes(slots, 1..(N + 1))
      BY <1>6, <1>7 DEF Charged
    <2>2. Charged(p) = p.free_space_ptr + HeapBytes(p.slots, 1..N)
      BY DEF Charged, N
    <2>3. p.free_space_ptr \in Int
      BY <1>1, Slots
    <2> QED
      BY <1>1, <1>3, <1>14, <2>1, <2>2, <2>3
  <1>16. HeaderSize + SlotSize * (N + 1) <= fsp
    <2> DEFINE a == SlotSize * N
               b == SlotSize * (N + 1)
    <2>1. Gap(p) = p.free_space_ptr - (HeaderSize + a)
      BY DEF Gap, N
    <2>2. b = a + SlotSize /\ a \in Int
      BY <1>1, Sizes
    <2>3. p.free_space_ptr \in Int
      BY <1>1, Slots
    <2> HIDE DEF a, b
    <2>4. HeaderSize + b <= fsp
      BY <1>1, <1>3, <2>1, <2>2, <2>3, Sizes, SMTT(60)
    <2> QED
      BY <2>4 DEF b
  <1>17. WellFormed(q)
    <2>1. Charged(p) <= PageSize
      BY DEF WellFormed, Charged
    <2>2. q.free_space_ptr + HeapBytes(q.slots, 1..Len(q.slots)) <= PageSize
      BY <1>15, <2>1 DEF Charged
    <2> QED
      BY <1>6, <1>7, <1>13, <1>16, <2>2 DEF WellFormed
  <1> QED
    BY <1>13, <1>15, <1>17

(* A tombstone's slot for it: the tombstone's own bytes are lost until the *)
(* next compaction.                                                        *)
LEMMA Reused ==
  ASSUME NEW p, WellFormed(p), NEW r \in Record, r.size <= Gap(p), NEW t, t = Push(p, r),
         NEW x \in 1..Len(p.slots), x \notin LiveSlots(p),
         NEW q, q = [t EXCEPT !.slots[x] = TopSlot(t, r)]
  PROVE  /\ WellFormed(q)
         /\ \E c \in 0..Len(Contents(p)) : Contents(q) = InsertAt(Contents(p), c + 1, Bytes(r))
  <1> DEFINE L == LiveSlots(p)
             N == Len(p.slots)
             top == TopSlot(t, r)
             slots == [p.slots EXCEPT ![x] = top]
             f == [i \in 1..N |-> i]
             fsp == t.free_space_ptr
  <1>1. /\ p \in Page /\ p.slots \in Seq(PageSlot) /\ N \in Nat /\ L \subseteq 1..N
        /\ r.size \in Nat /\ 0 < r.size
    <2>1. p \in Page
      BY DEF WellFormed, Readable
    <2> QED
      BY <2>1, Slots, Lives, RecordBytes
  <1>2. /\ t \in Page /\ fsp = p.free_space_ptr - r.size /\ HeaderSize + SlotSize * N <= fsp
        /\ t = [slots |-> p.slots, free_space_ptr |-> fsp, data |-> t.data]
        /\ top \in PageSlot /\ Live(top) /\ top.size = r.size /\ fsp + r.size <= PageSize
    BY PushedOnTop
  <1>3. q = [slots |-> slots, free_space_ptr |-> fsp, data |-> t.data]
    <2> HIDE DEF top
    <2>1. t.slots = p.slots
      BY <1>2
    <2>2. q = [t EXCEPT !.slots = slots]
      BY <1>2, <2>1 DEF top
    <2> HIDE DEF slots
    <2> QED
      BY <1>2, <2>2
  <1> HIDE DEF top, fsp
  <1>4. /\ slots \in Seq(PageSlot) /\ Len(slots) = N
        /\ \A i \in 1..N : slots[i] = IF i = x THEN top ELSE p.slots[i]
    <2> DEFINE old == p.slots
    <2>1. old \in Seq(PageSlot) /\ x \in 1..Len(old) /\ top \in PageSlot
      BY <1>1, <1>2
    <2> HIDE DEF old
    <2>2. /\ [old EXCEPT ![x] = top] \in Seq(PageSlot) /\ Len([old EXCEPT ![x] = top]) = Len(old)
          /\ \A i \in 1..Len(old) : [old EXCEPT ![x] = top][i] = IF i = x THEN top ELSE old[i]
      BY <2>1, ExceptSeq
    <2> QED
      BY <2>2 DEF old
  <1> HIDE DEF slots, N, L
  <1>5. /\ q.slots = slots /\ q.free_space_ptr = fsp /\ q.data = t.data
        /\ q \in Page
    BY <1>2, <1>3, <1>4 DEF Page, fsp
  <1>6. x \in 1..N /\ x \notin L /\ x \in Nat
    BY DEF N, L
  <1>7. \A i \in L : f[i] = i /\ i # x /\ i \in 1..N /\ i \in Nat
    BY <1>1, <1>6
  <1> HIDE DEF f
  <1>8. LiveSlots(q) = ImageAnd(L, f, x) /\ x \notin Image(L, f) /\ OrderKept(L, f)
    <2>1. \A y \in 1..N : y \in LiveSlots(q) <=> Live(slots[y])
      BY <1>4, <1>5 DEF LiveSlots
    <2>2. \A i \in 1..N : i \in L <=> Live(p.slots[i])
      BY DEF L, N, LiveSlots
    <2>3. LiveSlots(q) \subseteq 1..N
      BY <1>4, <1>5 DEF LiveSlots
    <2>4. ASSUME NEW y PROVE y \in LiveSlots(q) <=> y \in L \/ y = x
      BY <1>2, <1>4, <1>6, <1>7, <2>1, <2>2, <2>3
    <2>5. \A y : y \in ImageAnd(L, f, x) <=> y \in L \/ y = x
      BY <1>7 DEF Image, ImageAnd
    <2>6. x \notin Image(L, f)
      BY <1>7 DEF Image
    <2>7. OrderKept(L, f)
      BY <1>7 DEF OrderKept
    <2> QED
      BY <2>4, <2>5, <2>6, <2>7
  <1> DEFINE c == Below(L, f, x)
  <1>9. /\ Readable(q) /\ \A i, j \in LiveSlots(q) : i # j => Apart(q, i, j)
        /\ c \in 0..Len(Contents(p))
        /\ Contents(q) = InsertAt(Contents(p), c + 1, Bytes(r))
    <2>1. c = Below(LiveSlots(p), f, x)
      BY DEF L
    <2>2. /\ OrderKept(LiveSlots(p), f) /\ x \notin Image(LiveSlots(p), f)
          /\ LiveSlots(q) = ImageAnd(LiveSlots(p), f, x)
      BY <1>8 DEF L
    <2>3. q.slots[x] = TopSlot(t, r) /\ \A i \in LiveSlots(p) : q.slots[f[i]] = p.slots[i]
      BY <1>4, <1>5, <1>6, <1>7 DEF L, top
    <2>4. q.free_space_ptr = t.free_space_ptr /\ q.data = t.data /\ q \in Page /\ x \in Nat
      BY <1>5, <1>6 DEF fsp
    <2> HIDE DEF c
    <2>5. OneSlotMore(p, q, f, x, TopSlot(t, r))
      BY ONLY <2>2, <2>3, <2>4 DEF OneSlotMore
    <2>6. WellFormed(p) /\ r \in Record /\ r.size <= Gap(p) /\ t = Push(p, r)
      OBVIOUS
    <2> QED
      BY ONLY <2>1, <2>4, <2>5, <2>6, Gained
  <1>10. q.free_space_ptr + HeapBytes(q.slots, 1..N) <= PageSize
    <2> DEFINE A == (1..N) \ {x}
               old == p.slots
    <2>1. Sized(old, A) /\ HeapBytes(old, A) \in Nat
      BY <1>1, PageSized DEF N
    <2>2. x \notin A /\ A \cup {x} = 1..N /\ \A i \in A : slots[i].size = old[i].size
      BY <1>4, <1>6
    <2>3. old[x].size \in 0..PageSize
      BY <1>1, <1>6, Slots, Sizes DEF N
    <2>4. slots[x].size = r.size /\ slots[x].size \in 0..PageSize
      <3>1. slots[x] = top
        BY <1>4, <1>6
      <3>2. r.size <= PageSize
        BY <1>1, <1>2, Slots, Sizes DEF fsp
      <3> QED
        BY <1>1, <1>2, <3>1, <3>2, Sizes
    <2>5. fsp + r.size + HeapBytes(old, 1..N) <= PageSize
      <3>1. p.free_space_ptr + HeapBytes(p.slots, 1..N) <= PageSize
        BY DEF WellFormed, N
      <3>2. p.free_space_ptr = fsp + r.size
        BY <1>1, <1>2, Slots
      <3> QED
        BY <3>1, <3>2
    <2> HIDE DEF A, old
    <2>6. Sized(slots, A) /\ HeapBytes(slots, A) = HeapBytes(old, A)
      BY <2>1, <2>2, HeapBytesSame
    <2>7. /\ HeapBytes(slots, A \cup {x}) = HeapBytes(slots, A) + slots[x].size
          /\ HeapBytes(old, A \cup {x}) = HeapBytes(old, A) + old[x].size
      BY <2>1, <2>2, <2>3, <2>4, <2>6, HeapBytesAdd, SMTT(60)
    <2>8. fsp \in Int
      BY <1>2, Slots DEF fsp
    <2> DEFINE kept == HeapBytes(old, A)
               lost == old[x].size
    <2>9. HeapBytes(slots, 1..N) = kept + r.size /\ HeapBytes(old, 1..N) = kept + lost
      BY <2>2, <2>4, <2>6, <2>7
    <2>10. kept \in Nat /\ lost \in Nat
      BY <2>1, <2>3, Sizes
    <2> HIDE DEF kept, lost
    <2>11. fsp + (kept + r.size) <= PageSize
      BY <1>1, <2>5, <2>8, <2>9, <2>10, Sizes, SMTT(60)
    <2> QED
      BY <1>5, <2>9, <2>11
  <1>11. WellFormed(q)
    BY <1>2, <1>4, <1>5, <1>9, <1>10 DEF WellFormed
  <1> QED
    BY <1>9, <1>11

(* One record less; its bytes stay charged. *)
LEMMA Deleted ==
  ASSUME NEW p, WellFormed(p), NEW x, x \in LiveSlots(p), NEW q, q = [p EXCEPT !.slots[x].offset = 0]
  PROVE  /\ WellFormed(q) /\ Charged(q) = Charged(p)
         /\ \E k \in 1..Len(Contents(p)) : Contents(q) = RemoveAt(Contents(p), k)
  <1> DEFINE N == Len(p.slots)
             slot == [p.slots[x] EXCEPT !.offset = 0]
             slots == [p.slots EXCEPT ![x] = slot]
             f == [i \in 1..N |-> i]
             c == Below(LiveSlots(q), f, x)
  <1>1. /\ p \in Page /\ Readable(p) /\ p.slots \in Seq(PageSlot) /\ N \in Nat
        /\ x \in 1..N /\ LiveSlots(p) \subseteq 1..N /\ p.slots[x] \in PageSlot
        /\ p = [slots |-> p.slots, free_space_ptr |-> p.free_space_ptr, data |-> p.data]
    <2>1. p \in Page /\ Readable(p)
      BY DEF WellFormed, Readable
    <2> QED
      BY <2>1, Slots, Lives DEF Page
  <1>2. q = [slots |-> slots, free_space_ptr |-> p.free_space_ptr, data |-> p.data]
    <2>1. q = [p EXCEPT !.slots = slots]
      OBVIOUS
    <2> HIDE DEF slots
    <2> QED
      BY <1>1, <2>1
  <1>3. slot \in PageSlot /\ slot.offset = 0 /\ slot.size = p.slots[x].size
    BY <1>1 DEF PageSlot
  <1> HIDE DEF slot
  <1>4. /\ slots \in Seq(PageSlot) /\ Len(slots) = N
        /\ \A i \in 1..N : slots[i] = IF i = x THEN slot ELSE p.slots[i]
    BY <1>1, <1>3, ExceptSeq
  <1> HIDE DEF slots, N
  <1>5. /\ q.slots = slots /\ q.free_space_ptr = p.free_space_ptr /\ q.data = p.data
        /\ q \in Page
    <2>1. q.slots = slots /\ q.free_space_ptr = p.free_space_ptr /\ q.data = p.data
      BY <1>2
    <2>2. p.free_space_ptr \in HeaderSize..PageSize /\ p.data \in [Address -> Cell]
      BY <1>1 DEF Page
    <2> QED
      BY <1>2, <1>4, <2>1, <2>2 DEF Page
  <1>6. \A i : i \in LiveSlots(q) <=> i \in LiveSlots(p) /\ i # x
    <2>1. \A i \in 1..N : i \in LiveSlots(q) <=> Live(slots[i])
      BY <1>4, <1>5 DEF LiveSlots
    <2>2. \A i \in 1..N : i \in LiveSlots(p) <=> Live(p.slots[i])
      BY DEF LiveSlots, N
    <2>3. LiveSlots(q) \subseteq 1..N
      BY <1>4, <1>5 DEF LiveSlots
    <2>4. ~Live(slot)
      BY <1>3 DEF Live
    <2> QED
      BY <1>1, <1>4, <2>1, <2>2, <2>3, <2>4
  <1>7. \A i \in LiveSlots(q) : /\ i \in LiveSlots(p) /\ i # x /\ q.slots[i] = p.slots[i]
                                /\ f[i] = i /\ i \in Nat
    <2> SUFFICES ASSUME NEW i \in LiveSlots(q)
                 PROVE  /\ i \in LiveSlots(p) /\ i # x /\ q.slots[i] = p.slots[i]
                        /\ f[i] = i /\ i \in Nat
      OBVIOUS
    <2>1. i \in LiveSlots(p) /\ i # x /\ i \in 1..N
      BY <1>1, <1>6
    <2>2. f[i] = i /\ i \in Nat
      BY <2>1
    <2> HIDE DEF f
    <2> QED
      BY <1>4, <1>5, <2>1, <2>2
  <1> HIDE DEF f
  <1>8. Readable(q) /\ \A i, j \in LiveSlots(q) : i # j => Apart(q, i, j)
    BY <1>5, <1>7, ZenonT(60) DEF WellFormed, Readable, Within, Apart
  <1>9. Charged(q) = Charged(p)
    <2>1. \A i \in 1..N : slots[i].size = p.slots[i].size
      BY <1>3, <1>4
    <2> DEFINE A == 1..N
               old == p.slots
    <2>2. \A i \in A : slots[i].size = old[i].size
      BY <2>1
    <2> HIDE DEF A, old
    <2>3. HeapBytes(slots, A) = HeapBytes(old, A)
      BY <2>2, HeapBytesSame
    <2>4. HeapBytes(slots, 1..N) = HeapBytes(p.slots, 1..N)
      BY <2>3 DEF A, old
    <2> QED
      BY <1>4, <1>5, <2>4 DEF Charged, N
  <1>10. WellFormed(q)
    BY <1>4, <1>5, <1>8, <1>9 DEF WellFormed, Charged, N
  <1>11. /\ OrderKept(LiveSlots(q), f) /\ x \notin Image(LiveSlots(q), f) /\ x \in Nat
         /\ LiveSlots(p) = ImageAnd(LiveSlots(q), f, x)
    <2>1. OrderKept(LiveSlots(q), f)
      BY <1>7 DEF OrderKept
    <2>2. \A y : y \in ImageAnd(LiveSlots(q), f, x) <=> y \in LiveSlots(q) \/ y = x
      BY <1>7 DEF Image, ImageAnd
    <2>3. \A y : y \in LiveSlots(p) <=> y \in ImageAnd(LiveSlots(q), f, x)
      BY <1>6, <2>2
    <2>4. x \notin Image(LiveSlots(q), f)
      BY <1>7 DEF Image
    <2> QED
      BY <1>1, <2>1, <2>3, <2>4
  <1>12. \A i \in LiveSlots(q) : RecordAt(p, f[i]) = RecordAt(q, i)
    BY <1>5, <1>7 DEF RecordAt
  <1>13. LiveBefore(p, x) = c + 1 /\ Contents(q) = RemoveAt(Contents(p), c + 1)
    <2>1. c = Below(LiveSlots(q), f, x) /\ Readable(p) /\ Readable(q)
      BY <1>1, <1>8
    <2> HIDE DEF c
    <2> QED
      BY ONLY <1>11, <1>12, <2>1, ContentsGain
  <1>14. c + 1 \in 1..Len(Contents(p))
    BY <1>1, <1>13, ContentsAre
  <1> QED
    BY <1>9, <1>10, <1>13, <1>14

(* One record written over by another of its size. *)
LEMMA Updated ==
  ASSUME NEW p, WellFormed(p), NEW x, x \in LiveSlots(p), NEW r \in Record, p.slots[x].size = r.size,
         NEW q, q = [p EXCEPT !.data = Store(@, p.slots[x].offset, Bytes(r))]
  PROVE  /\ WellFormed(q) /\ Charged(q) = Charged(p)
         /\ LiveBefore(p, x) \in 1..Len(Contents(p))
         /\ Len(Contents(p)[LiveBefore(p, x)]) = r.size
         /\ Contents(q) = [Contents(p) EXCEPT ![LiveBefore(p, x)] = Bytes(r)]
  <1> DEFINE N == Len(p.slots)
             L == LiveSlots(p)
             to == p.slots[x].offset
             bytes == Bytes(r)
             old == p.data
             data == Store(old, to, bytes)
  <1>1. /\ p \in Page /\ Readable(p) /\ N \in Nat /\ x \in 1..N /\ L \subseteq 1..N
        /\ old \in [Address -> Cell]
        /\ p = [slots |-> p.slots, free_space_ptr |-> p.free_space_ptr, data |-> p.data]
    <2>1. p \in Page /\ Readable(p)
      BY DEF WellFormed, Readable
    <2> QED
      BY <2>1, Slots, Lives DEF Page
  <1>2. bytes \in Seq(Cell) /\ Len(bytes) = r.size
    BY RecordBytes
  <1>3. ASSUME NEW i \in L
        PROVE  /\ p.slots[i].offset \in Int /\ p.slots[i].size \in Nat
               /\ HeaderSize <= p.slots[i].offset /\ p.slots[i].offset + p.slots[i].size <= PageSize
    BY <1>1, Slots, Sizes, SMTT(60) DEF Readable, Within
  <1>4. q = [slots |-> p.slots, free_space_ptr |-> p.free_space_ptr, data |-> data]
    <2> HIDE DEF data
    <2>1. q = [p EXCEPT !.data = data]
      BY DEF data
    <2> QED
      BY <1>1, <2>1
  <1>5. to \in Int /\ HeaderSize <= to /\ to + Len(bytes) <= PageSize
    BY <1>2, <1>3
  <1> HIDE DEF data, old, bytes
  <1>6. /\ data \in [Address -> Cell] /\ Load(data, to, Len(bytes)) = bytes
        /\ \A at \in Int, size \in Nat :
             /\ HeaderSize <= at /\ at + size <= PageSize
             /\ at + size <= to \/ to + Len(bytes) <= at
             => Load(data, at, size) = Load(old, at, size)
    <2> DEFINE at1 == to
    <2>1. at1 \in Int /\ HeaderSize <= at1 /\ at1 + Len(bytes) <= PageSize /\ data = Store(old, at1, bytes)
      BY <1>5 DEF data
    <2> HIDE DEF at1
    <2>2. old \in [Address -> Cell] /\ bytes \in Seq(Cell)
      BY <1>1, <1>2
    <2>3. /\ data \in [Address -> Cell] /\ Load(data, at1, Len(bytes)) = bytes
          /\ \A at \in Int, size \in Nat :
               /\ HeaderSize <= at /\ at + size <= PageSize
               /\ at + size <= at1 \/ at1 + Len(bytes) <= at
               => Load(data, at, size) = Load(old, at, size)
      BY ONLY <2>1, <2>2, Stored
    <2> QED
      BY <2>3 DEF at1
  <1>7. /\ q.slots = p.slots /\ q.free_space_ptr = p.free_space_ptr /\ q.data = data
        /\ q \in Page /\ LiveSlots(q) = L
    <2>1. q.slots = p.slots /\ q.free_space_ptr = p.free_space_ptr /\ q.data = data
      BY <1>4
    <2> QED
      BY <1>1, <1>4, <1>6, <2>1 DEF Page, LiveSlots
  <1>8. WellFormed(q) /\ Charged(q) = Charged(p) /\ Readable(q)
    BY <1>7 DEF WellFormed, Readable, Within, Apart, Charged
  <1>9. RecordAt(q, x) = bytes
    BY <1>2, <1>6, <1>7 DEF RecordAt
  <1>10. ASSUME NEW i \in L, i # x PROVE RecordAt(q, i) = RecordAt(p, i)
    <2> DEFINE at == p.slots[i].offset
               size == p.slots[i].size
    <2>1. Apart(p, i, x) /\ at \in Int /\ size \in Nat /\ HeaderSize <= at /\ at + size <= PageSize
      BY <1>3, <1>10 DEF WellFormed
    <2>2. at + size <= to \/ to + Len(bytes) <= at
      BY <1>2, <2>1 DEF Apart
    <2>3. RecordAt(q, i) = Load(data, at, size) /\ RecordAt(p, i) = Load(old, at, size)
      BY <1>7 DEF RecordAt, old
    <2> HIDE DEF at, size, to
    <2>4. Load(data, at, size) = Load(old, at, size)
      BY <1>6, <2>1, <2>2
    <2> QED
      BY <2>3, <2>4
  <1>11. Contents(q) = [Contents(p) EXCEPT ![LiveBefore(p, x)] = RecordAt(q, x)]
    BY <1>1, <1>7, <1>8, <1>10, ContentsChanged
  <1>12. /\ LiveBefore(p, x) \in 1..Len(Contents(p))
         /\ Contents(p)[LiveBefore(p, x)] = RecordAt(p, x) /\ Len(RecordAt(p, x)) = r.size
    BY <1>1, ContentsAre, RecordsRead
  <1> QED
    BY <1>8, <1>9, <1>11, <1>12 DEF bytes

-----------------------------------------------------------------------------
(* The actions.                                                            *)

(* The page stays in order, keeps its books, and the step is no failure.   *)
Keeps ==
  /\ WellFormed(page') /\ UNCHANGED fault
  /\ Charged(page) = PageSize => Charged(page') = PageSize

(* A record more, somewhere. *)
Grows(r) ==
  \E i \in 1..(Len(Contents(page)) + 1) : Contents(page') = InsertAt(Contents(page), i, Bytes(r))

LEMMA BeforeAtMost ==
  ASSUME NEW p, Len(p.slots) \in Nat, NEW x
  PROVE  LiveBefore(p, x) \in 0..Cardinality(LiveSlots(p))
  <1> DEFINE L == LiveSlots(p)
             S == {i \in L : i <= x}
  <1>1. IsFiniteSet(L) /\ Cardinality(L) \in Nat /\ LiveBefore(p, x) \in Nat
    BY Lives
  <1>2. S \in SUBSET L /\ LiveBefore(p, x) = Cardinality(S)
    BY DEF LiveBefore
  <1> HIDE DEF S, L
  <1>3. Cardinality(S) <= Cardinality(L)
    BY <1>1, <1>2, FS_Subset
  <1> QED
    BY <1>1, <1>2, <1>3 DEF L

(* On a page without tombstones a slot number counts the records before it. *)
LEMMA BeforeIsNumber ==
  ASSUME NEW p, NEW n \in Nat, LiveSlots(p) = 1..n, NEW c \in 0..n
  PROVE  LiveBefore(p, c) = c
  <1>1. {i \in 1..n : i <= c} = 1..c
    OBVIOUS
  <1>2. c \in Int /\ c \in Nat
    OBVIOUS
  <1>3. Cardinality(1..c) = c
    BY ONLY <1>2, FS_Interval
  <1> QED
    BY <1>1, <1>3 DEF LiveBefore

LEMMA AppendedIsInserted ==
  ASSUME NEW S, NEW list, list \in Seq(S), NEW e, e \in S
  PROVE  Append(list, e) = InsertAt(list, Len(list) + 1, e)
  <1> DEFINE a == Append(list, e)
             n == Len(list) + 1
             b == InsertAt(list, n, e)
  <1>1. Len(list) \in Nat /\ n \in 1..(Len(list) + 1)
    OBVIOUS
  <1>2. /\ a \in Seq(S) /\ Len(a) = n /\ a[n] = e
        /\ \A i \in 1..Len(list) : a[i] = list[i]
    BY AppendProperties
  <1>3. /\ b \in Seq(S) /\ Len(b) = Len(list) + 1
        /\ \A i \in 1..(Len(list) + 1) :
             b[i] = IF i < n THEN list[i] ELSE IF i = n THEN e ELSE list[i - 1]
    <2> HIDE DEF n
    <2>1. IsInsertion(InsertAt(list, n, e), list, n, e, S)
      BY <1>1, InsertedAt
    <2> QED
      BY <2>1 DEF IsInsertion
  <1> HIDE DEF a, b
  <1>4. ASSUME NEW i \in 1..Len(a) PROVE a[i] = b[i]
    <2>1. CASE i = n
      BY <1>1, <1>2, <1>3, <2>1
    <2>2. CASE i # n
      <3>1. i \in 1..Len(list) /\ i < n /\ i \in 1..(Len(list) + 1)
        BY <1>1, <1>2, <2>2
      <3> QED
        BY <1>2, <1>3, <3>1
    <2> QED
      BY <2>1, <2>2
  <1>5. a = b
    BY <1>2, <1>3, <1>4, SeqEqual
  <1> QED
    BY <1>5 DEF a, b

LEMMA AppendStep ==
  ASSUME WellFormed(page), NEW r \in Record, AppendRecord(r)
  PROVE  Keeps /\ Grows(r)
  <1> DEFINE p == Room(r, SlotSize)
             t == Push(p, r)
             q == [t EXCEPT !.slots = Append(@, TopSlot(t, r))]
             n == Len(p.slots)
  <1>1. Fits(r, SlotSize) /\ page' = q /\ UNCHANGED fault
    BY DEF AppendRecord, Set
  <1>2. /\ WellFormed(p) /\ Contents(p) = Contents(page) /\ r.size + SlotSize <= Gap(p)
        /\ Charged(page) = PageSize => Charged(p) = PageSize
    BY <1>1, RoomMade
  <1> HIDE DEF p
  <1>3. /\ n \in Nat /\ p.slots \in Seq(PageSlot) /\ r.size <= Gap(p)
        /\ t.slots = p.slots /\ TopSlot(t, r) \in PageSlot
    <2>1. p \in Page
      BY <1>2 DEF WellFormed, Readable
    <2>2. r.size \in Nat /\ Gap(p) \in Int
      BY <1>2, RecordBytes, SpaceIs
    <2>3. r.size <= Gap(p)
      BY <1>2, <2>2, Sizes
    <2> QED
      BY <1>2, <2>1, <2>3, Slots, PushedOnTop
  <1>4. q = [t EXCEPT !.slots = InsertAt(@, n + 1, TopSlot(t, r))]
    <2> DEFINE slots == p.slots
               top == TopSlot(t, r)
    <2>1. slots \in Seq(PageSlot) /\ top \in PageSlot
      BY <1>3
    <2> HIDE DEF slots, top
    <2>2. Append(slots, top) = InsertAt(slots, Len(slots) + 1, top)
      BY ONLY <2>1, AppendedIsInserted
    <2>3. Append(t.slots, top) = InsertAt(t.slots, n + 1, top)
      BY <1>3, <2>2 DEF slots
    <2> HIDE DEF t, n
    <2> QED
      BY <2>3 DEF top
  <1> HIDE DEF t, q
  <1>5. /\ WellFormed(q) /\ Charged(q) = Charged(p)
        /\ LiveBefore(p, n) \in 0..Len(Contents(p))
        /\ Contents(q) = InsertAt(Contents(p), LiveBefore(p, n) + 1, Bytes(r))
    <2>1. n \in 0..Len(p.slots)
      BY <1>3
    <2> HIDE DEF n
    <2> QED
      BY <1>2, <1>4, <2>1, Inserted DEF t
  <1>6. Keeps
    BY <1>1, <1>2, <1>5 DEF Keeps
  <1>7. LiveBefore(p, n) + 1 \in 1..(Len(Contents(page)) + 1)
    BY <1>2, <1>5, ContentsAre DEF WellFormed
  <1> QED
    BY <1>1, <1>2, <1>5, <1>6, <1>7 DEF Grows

(* A compaction on the way changes the number, not the place. *)
LEMMA InsertStep ==
  ASSUME WellFormed(page), NEW pos \in Nat, NEW r \in Record, InsertRecordAt(pos, r)
  PROVE  /\ Keeps /\ Grows(r)
         /\ Contents(page') = InsertAt(Contents(page), LiveBefore(page, pos) + 1, Bytes(r))
  <1> DEFINE p == Room(r, SlotSize)
             t == Push(p, r)
             at == IF CanInsertContigious(page, r.size, SlotSize) THEN pos ELSE LiveBefore(page, pos)
             q == [t EXCEPT !.slots = InsertAt(@, at + 1, TopSlot(t, r))]
             n == Cardinality(LiveSlots(page))
  <1>1. pos <= Len(page.slots) /\ Fits(r, SlotSize) /\ page' = q /\ UNCHANGED fault
    BY DEF InsertRecordAt, Set
  <1>2. /\ WellFormed(p) /\ Contents(p) = Contents(page) /\ r.size + SlotSize <= Gap(p)
        /\ CanInsertContigious(page, r.size, SlotSize) => p = page
        /\ ~CanInsertContigious(page, r.size, SlotSize) => p = Packed(page)
        /\ Charged(page) = PageSize => Charged(p) = PageSize
    BY <1>1, RoomMade
  <1>3. Len(page.slots) \in Nat /\ n \in Nat /\ LiveBefore(page, pos) \in 0..n
    <2>1. Len(page.slots) \in Nat
      BY Slots DEF WellFormed, Readable
    <2> QED
      BY <2>1, Lives, BeforeAtMost
  <1> HIDE DEF p
  <1>4. at \in 0..Len(p.slots) /\ LiveBefore(p, at) = LiveBefore(page, pos)
    <2>1. CASE CanInsertContigious(page, r.size, SlotSize)
      BY <1>1, <1>2, <1>3, <2>1
    <2>2. CASE ~CanInsertContigious(page, r.size, SlotSize)
      <3> DEFINE c == LiveBefore(page, pos)
      <3>1. at = c /\ p = Packed(page)
        BY <1>2, <2>2
      <3>2. Len(p.slots) = n /\ LiveSlots(p) = 1..n
        BY <3>1, Compacted
      <3> HIDE DEF c, n, at
      <3>3. c \in 0..n
        BY <1>3 DEF c
      <3>4. LiveBefore(p, c) = c
        BY <1>3, <3>2, <3>3, BeforeIsNumber
      <3> QED
        BY <3>1, <3>2, <3>3, <3>4 DEF c
    <2> QED
      BY <2>1, <2>2
  <1> HIDE DEF at, t, q
  <1>5. /\ WellFormed(q) /\ Charged(q) = Charged(p)
        /\ LiveBefore(p, at) \in 0..Len(Contents(p))
        /\ Contents(q) = InsertAt(Contents(p), LiveBefore(p, at) + 1, Bytes(r))
    BY <1>2, <1>4, Inserted DEF t, q
  <1>6. Keeps
    BY <1>1, <1>2, <1>5 DEF Keeps
  <1>7. Contents(page') = InsertAt(Contents(page), LiveBefore(page, pos) + 1, Bytes(r))
    BY <1>1, <1>2, <1>4, <1>5
  <1>8. LiveBefore(page, pos) + 1 \in 1..(Len(Contents(page)) + 1)
    BY <1>2, <1>4, <1>5, ContentsAre DEF WellFormed
  <1> QED
    BY <1>6, <1>7, <1>8 DEF Grows

(* There is a first tombstone, if there is one. *)
LEMMA FirstFreeIs ==
  ASSUME WellFormed(page), HasTombstone
  PROVE  FirstFree(page) \in 1..Len(page.slots) /\ FirstFree(page) \notin LiveSlots(page)
  <1> DEFINE S == (1..Len(page.slots)) \ LiveSlots(page)
             Less == {ss \in Nat \X Nat : ss[1] < ss[2]}
  <1>1. S \subseteq Nat /\ S # {}
    <2>1. Len(page.slots) \in Nat
      BY Slots DEF WellFormed, Readable
    <2>2. LiveSlots(page) \subseteq 1..Len(page.slots)
      BY DEF LiveSlots
    <2>3. S # {}
      BY <2>2 DEF HasTombstone
    <2> HIDE DEF S
    <2>4. S \subseteq Nat
      BY <2>1 DEF S
    <2> QED
      BY <2>3, <2>4
  <1>2. IsWellFoundedOn(Less, Nat)
    <2> Less = OpToRel(<, Nat)
      BY DEF OpToRel
    <2> QED
      BY NatLessThanWellFounded
  <1>3. \A i, j \in Nat : i < j => <<i, j>> \in Less
    OBVIOUS
  <1>4. FirstFree(page) = Min(S)
    BY DEF FirstFree
  <1> HIDE DEF S, Less
  <1>5. PICK m \in S : \A i \in S : <<i, m>> \notin Less
    BY <1>1, <1>2, WFMin
  <1>6. \A i \in S : m <= i
    <2> SUFFICES ASSUME NEW i \in S PROVE m <= i
      OBVIOUS
    <2>1. i \in Nat /\ m \in Nat /\ ~(i < m)
      BY <1>1, <1>3, <1>5
    <2> QED
      BY <2>1
  <1>7. Min(S) \in S
    BY <1>5, <1>6 DEF Min
  <1> QED
    BY <1>4, <1>7 DEF S

(* A tombstone is reused without a compaction, so its number is not stale. *)
LEMMA ReuseStep ==
  ASSUME WellFormed(page), NEW r \in Record, MayReuse(r), ReuseSlot(r)
  PROVE  WellFormed(page') /\ UNCHANGED fault /\ Grows(r)
  <1> DEFINE t == Push(page, r)
             x == FirstFree(page)
             q == [t EXCEPT !.slots[x] = TopSlot(t, r)]
  <1>1. /\ HasTombstone /\ Fits(r, 0) /\ CanInsertContigious(page, r.size, 0)
        /\ Room(r, 0) = page
    BY DEF MayReuse, ReuseSlot, Room
  <1>2. r.size <= Gap(page)
    <2>1. FreeSpace(page) >= r.size + 0 /\ FreeSpace(page) = Gap(page) /\ Gap(page) \in Nat
      BY <1>1, SpaceIs DEF CanInsertContigious
    <2>2. r.size \in Nat
      BY RecordBytes
    <2> QED
      BY <2>1, <2>2
  <1>3. x \in 1..Len(page.slots) /\ x \notin LiveSlots(page)
    BY <1>1, FirstFreeIs
  <1>4. t.slots = page.slots
    BY <1>2, PushedOnTop
  <1>5. page' = q /\ UNCHANGED fault
    <2>1. x <= Len(t.slots)
      BY <1>3, <1>4
    <2> QED
      BY <1>1, <2>1 DEF ReuseSlot, Set
  <1> HIDE DEF t, x, q
  <1>6. /\ WellFormed(q)
        /\ \E c \in 0..Len(Contents(page)) : Contents(q) = InsertAt(Contents(page), c + 1, Bytes(r))
    BY <1>2, <1>3, Reused DEF t, q
  <1>7. PICK c \in 0..Len(Contents(page)) : Contents(q) = InsertAt(Contents(page), c + 1, Bytes(r))
    BY <1>6
  <1>8. c + 1 \in 1..(Len(Contents(page)) + 1)
    BY ContentsAre DEF WellFormed
  <1> QED
    BY <1>5, <1>6, <1>7, <1>8 DEF Grows

LEMMA DeleteStep ==
  ASSUME WellFormed(page), NEW id, DeleteRecord(id)
  PROVE  Keeps /\ \E k \in 1..Len(Contents(page)) : Contents(page') = RemoveAt(Contents(page), k)
  <1>1. /\ id + 1 \in LiveSlots(page) /\ page' = [page EXCEPT !.slots[id + 1].offset = 0]
        /\ UNCHANGED fault
    BY DEF DeleteRecord, Set
  <1> QED
    BY <1>1, Deleted DEF Keeps

LEMMA UpdateStep ==
  ASSUME WellFormed(page), NEW id, NEW r \in Record, id + 1 \in LiveSlots(page), UpdateRecord(id, r)
  PROVE  /\ Keeps
         /\ \E k \in 1..Len(Contents(page)) :
              /\ Len(Bytes(r)) = Len(Contents(page)[k])
              /\ Contents(page') = [Contents(page) EXCEPT ![k] = Bytes(r)]
  <1> DEFINE x == id + 1
  <1>1. Live(page.slots[x]) /\ x \in LiveSlots(page)
    BY DEF LiveSlots
  <1>2. /\ page.slots[x].size = r.size /\ UNCHANGED fault
        /\ page' = [page EXCEPT !.data = Store(@, page.slots[x].offset, Bytes(r))]
    BY <1>1 DEF UpdateRecord, Set
  <1> HIDE DEF x
  <1>3. /\ WellFormed(page') /\ Charged(page') = Charged(page)
        /\ LiveBefore(page, x) \in 1..Len(Contents(page))
        /\ Len(Contents(page)[LiveBefore(page, x)]) = r.size
        /\ Contents(page') = [Contents(page) EXCEPT ![LiveBefore(page, x)] = Bytes(r)]
    BY <1>1, <1>2, Updated, SMTT(60)
  <1> QED
    BY <1>2, <1>3, RecordBytes DEF Keeps

LEMMA CompactStep ==
  ASSUME WellFormed(page), Compactify
  PROVE  Keeps /\ Contents(page') = Contents(page)
  <1> DEFINE q == Packed(page)
             n == Cardinality(LiveSlots(page))
             live == HeapBytes(page.slots, LiveSlots(page))
  <1>1. page' = q /\ UNCHANGED fault
    BY DEF Compactify, Set
  <1>2. /\ WellFormed(q) /\ Contents(q) = Contents(page) /\ Len(q.slots) = n
        /\ q.free_space_ptr = PageSize - live /\ HeapBytes(q.slots, 1..n) = live
    BY Compacted
  <1>3. Charged(q) = PageSize
    <2>1. live \in Nat
      BY SpaceIs
    <2> HIDE DEF live, n, q
    <2> QED
      BY <1>2, <2>1, Sizes DEF Charged
  <1> HIDE DEF q
  <1> QED
    BY <1>1, <1>2, <1>3 DEF Keeps

-----------------------------------------------------------------------------
(* The invariant: the page is in order, nothing has failed, and an index   *)
(* has charged the page for all its slots' bytes.                          *)
IInv ==
  /\ WellFormed(page) /\ fault = "none" /\ user \in {"index", "heap"}
  /\ user = "index" => Charged(page) = PageSize

LEMMA InitPage == ASSUME Init PROVE WellFormed(page) /\ Charged(page) = PageSize /\ Contents(page) = <<>>
  <1>1. /\ page.slots = <<>> /\ page.free_space_ptr = PageSize /\ page.data = [a \in Address |-> <<>>]
        /\ page = [slots |-> <<>>, free_space_ptr |-> PageSize, data |-> [a \in Address |-> <<>>]]
    BY DEF Init
  <1>2. page \in Page
    <2>1. <<>> \in Seq(PageSlot) /\ PageSize \in HeaderSize..PageSize
      BY Sizes
    <2>2. [a \in Address |-> <<>>] \in [Address -> Cell]
      BY DEF Cell
    <2> QED
      BY <1>1, <2>1, <2>2 DEF Page
  <1>3. Len(page.slots) = 0 /\ 1..Len(page.slots) = {} /\ LiveSlots(page) = {}
    BY <1>1 DEF LiveSlots
  <1>4. HeapBytes(page.slots, 1..Len(page.slots)) = 0
    BY <1>3, HeapBytesNone
  <1>5. Charged(page) = PageSize
    BY <1>1, <1>4, Sizes DEF Charged
  <1>6. HeaderSize + SlotSize * Len(page.slots) <= page.free_space_ptr
    BY <1>1, <1>3, Sizes
  <1>7. Readable(page)
    BY <1>2, <1>3 DEF Readable
  <1>8. WellFormed(page)
    BY <1>3, <1>5, <1>6, <1>7, Sizes DEF WellFormed, Charged
  <1>9. Contents(page) = <<>>
    <2>1. Contents(page) \in Seq(Seq(Cell)) /\ Len(Contents(page)) = 0
      BY <1>3, <1>7, ContentsAre, FS_EmptySet
    <2> DEFINE c == Contents(page)
    <2> HIDE DEF c
    <2>2. c \in Seq(Seq(Cell)) /\ Len(c) = 0
      BY <2>1 DEF c
    <2> QED
      BY <2>2 DEF c
  <1> QED
    BY <1>5, <1>8, <1>9

(* Every step of MCNext, sorted by what it does to the list of records. *)
LEMMA NextCases ==
  ASSUME IInv, MCNext
  PROVE  /\ IInv'
         /\ \/ \E r \in Record : Grows(r)
            \/ \E k \in 1..Len(Contents(page)) : Contents(page') = RemoveAt(Contents(page), k)
            \/ \E k \in 1..Len(Contents(page)), r \in Record :
                 /\ Len(Bytes(r)) = Len(Contents(page)[k])
                 /\ Contents(page') = [Contents(page) EXCEPT ![k] = Bytes(r)]
            \/ Contents(page') = Contents(page)
  <1> USE DEF IInv
  <1>1. UNCHANGED user /\ WellFormed(page)
    BY DEF MCNext
  <1>2. Keeps => IInv'
    BY <1>1 DEF Keeps, WellFormed, Charged, Readable, Within, Apart, LiveSlots
  <1>3. ASSUME NEW r \in Record, AppendRecord(r) PROVE Keeps /\ Grows(r)
    BY <1>1, <1>3, AppendStep
  <1>4. ASSUME NEW r \in Record, MayReuse(r), ReuseSlot(r) PROVE IInv' /\ Grows(r)
    <2>1. user = "heap" /\ user' = user /\ "heap" # "index"
      BY <1>1, <1>4 DEF MayReuse
    <2>2. WellFormed(page') /\ UNCHANGED fault /\ Grows(r)
      BY <1>1, <1>4, ReuseStep
    <2> QED
      BY <2>1, <2>2
  <1>5. ASSUME NEW id \in SlotId, NEW r \in Record, InsertRecordAt(id, r) PROVE Keeps /\ Grows(r)
    <2>1. id \in Nat
      BY DEF SlotId
    <2> QED
      BY <1>1, <1>5, <2>1, InsertStep
  <1>6. ASSUME NEW id \in SlotId, NEW r \in Record, id + 1 \in LiveSlots(page), UpdateRecord(id, r)
        PROVE  /\ Keeps
               /\ \E k \in 1..Len(Contents(page)) :
                    /\ Len(Bytes(r)) = Len(Contents(page)[k])
                    /\ Contents(page') = [Contents(page) EXCEPT ![k] = Bytes(r)]
    BY <1>1, <1>6, UpdateStep
  <1>7. ASSUME NEW id \in SlotId, DeleteRecord(id)
        PROVE  /\ Keeps
               /\ \E k \in 1..Len(Contents(page)) : Contents(page') = RemoveAt(Contents(page), k)
    BY <1>1, <1>7, DeleteStep
  <1>8. ASSUME Compactify PROVE Keeps /\ Contents(page') = Contents(page)
    BY <1>1, <1>8, CompactStep
  <1> QED
    BY <1>2, <1>3, <1>4, <1>5, <1>6, <1>7, <1>8 DEF MCNext

LEMMA StutterKeeps == IInv /\ UNCHANGED MCVars => IInv' /\ Contents(page') = Contents(page)
  BY DEF IInv, MCVars, vars

(* The page is in order at all times, for either kind of user. *)
THEOREM Invariance == MCSpec => []IInv
  <1>1. MCInit => IInv
    BY InitPage DEF MCInit, Init, IInv
  <1>2. IInv /\ [MCNext]_MCVars => IInv'
    BY NextCases, StutterKeeps
  <1> QED
    BY <1>1, <1>2, PTL DEF MCSpec

(* The slots never run into the heap, and an index loses no byte of its     *)
(* pages: the free space that decides an insertion is exactly what the live *)
(* records leave.                                                          *)
THEOREM SpaceIsAccounted == MCSpec => []SpaceAccounted
  <1>1. IInv => SpaceAccounted
    <2> SUFFICES ASSUME IInv PROVE SpaceAccounted
      OBVIOUS
    <2>1. WellFormed(page) /\ page \in Page
      BY DEF IInv, WellFormed, Readable
    <2>2. TypeOK
      <3>1. page.free_space_ptr \in HeaderSize..PageSize /\ page.data \in [Address -> Cell]
        BY <2>1 DEF Page
      <3>2. \A i \in 1..Len(page.slots) : page.slots[i] \in PageSlot
        BY <2>1, Slots
      <3> QED
        BY <3>1, <3>2 DEF TypeOK, PageSlot, IInv
    <2>3. HeaderSize + SlotSize * Len(page.slots) <= page.free_space_ptr
      BY <2>1 DEF WellFormed
    <2> DEFINE live == HeapBytes(page.slots, LiveSlots(page))
               b == SlotSize * Cardinality(LiveSlots(page))
    <2>4. TotalFreeSpace(page) = Charged(page) - live - HeaderSize - b /\ live \in Nat
      BY <2>1, SpaceIs
    <2>5. b \in Int
      <3>1. Cardinality(LiveSlots(page)) \in Nat
        BY <2>1, Slots, Lives
      <3> QED
        BY <3>1, Sizes
    <2> HIDE DEF live, b
    <2>6. user = "index" => TotalFreeSpace(page) = PageSize - HeaderSize - live - b
      BY <2>4, <2>5, Sizes DEF IInv
    <2> QED
      BY <2>2, <2>3, <2>6 DEF SpaceAccounted, IInv, live, b
  <1> QED
    BY Invariance, <1>1, PTL

(* insertRecordAt puts its record where it was asked to, compaction or not. *)
THEOREM InsertsAreWhereAsked == MCSpec => InsertsWhereAsked
  <1> DEFINE Asked ==
        \A pos \in SlotId, r \in Record :
          InsertRecordAt(pos, r) =>
            Contents(page') = InsertAt(Contents(page), LiveBefore(page, pos) + 1, Bytes(r))
  <1>1. IInv => Asked
    <2>1. \A pos \in SlotId : pos \in Nat
      BY DEF SlotId
    <2> QED
      BY <2>1, InsertStep DEF IInv
  <1>2. IInv /\ [MCNext]_MCVars => [Asked]_MCVars
    BY <1>1
  <1> HIDE DEF Asked
  <1>3. MCSpec => [][Asked]_MCVars
    BY Invariance, <1>2, PTL DEF MCSpec
  <1> QED
    BY <1>3 DEF InsertsWhereAsked, Asked

(* The page implements a list of records: every operation is one edit of    *)
(* the list, and a compaction is none.                                     *)
THEOREM Implements == MCSpec => ImplementsRecordList
  <1>1. MCInit => List!Init
    BY InitPage DEF MCInit, List!Init
  <1>2. IInv /\ [MCNext]_MCVars
          => [List!InsertRecord \/ List!DeleteRecord \/ List!UpdateRecord]_(Contents(page))
    <2> SUFFICES ASSUME IInv, [MCNext]_MCVars
                 PROVE  \/ List!InsertRecord \/ List!DeleteRecord \/ List!UpdateRecord
                        \/ Contents(page)' = Contents(page)
      OBVIOUS
    <2>1. Contents(page)' = Contents(page')
      BY DEF Contents, LiveInOrder
    <2>2. \A r \in Record : Bytes(r) \in {Bytes(x) : x \in Record}
      OBVIOUS
    <2>3. CASE MCNext
      <3>1. ASSUME NEW r \in Record, Grows(r) PROVE List!InsertRecord
        <4>1. PICK i \in 1..(Len(Contents(page)) + 1) :
                Contents(page)' = InsertAt(Contents(page), i, Bytes(r))
          BY <2>1, <3>1 DEF Grows
        <4>2. Bytes(r) \in {Bytes(x) : x \in Record}
          BY <2>2
        <4> QED
          BY <4>1, <4>2 DEF List!InsertRecord, List!InsertAt, InsertAt
      <3>2. ASSUME NEW k \in 1..Len(Contents(page)), Contents(page') = RemoveAt(Contents(page), k)
            PROVE  List!DeleteRecord
        BY <2>1, <3>2 DEF List!DeleteRecord, List!RemoveAt, RemoveAt
      <3>3. ASSUME NEW k \in 1..Len(Contents(page)), NEW r \in Record,
                   Len(Bytes(r)) = Len(Contents(page)[k]),
                   Contents(page') = [Contents(page) EXCEPT ![k] = Bytes(r)]
            PROVE  List!UpdateRecord
        BY <2>1, <2>2, <3>3 DEF List!UpdateRecord
      <3> QED
        BY <2>1, <2>3, <3>1, <3>2, <3>3, NextCases
    <2>4. CASE UNCHANGED MCVars
      BY <2>1, <2>4, StutterKeeps
    <2> QED
      BY <2>3, <2>4
  <1> QED
    BY <1>1, <1>2, Invariance, PTL DEF MCSpec, ImplementsRecordList, List!Spec
=============================================================================
